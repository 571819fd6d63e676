------------------------------ MODULE Contacts ------------------------------
(***************************************************************************)
(* ContactMemory (contacts.go) as Client uses it (handshake.go): every     *)
(* connection asks whether to open with a full handshake, and a full one   *)
(* that completed is recorded.  A decision and its recording straddle the  *)
(* whole handshake; connections, the clock, changes of network and Reset   *)
(* interleave with it.                                                     *)
(*                                                                         *)
(* The purpose of the memory is stated from the side of an observer, who   *)
(* sits on one network: a resumption continues a full handshake that the   *)
(* same observer saw less than the horizon ago.                            *)
(***************************************************************************)
EXTENDS Integers, FiniteSets

CONSTANTS
    Conns,      \* concurrent calls of Client
    Nets,       \* networks the client may be on, each with its observer
    Egresses,   \* remote hosts (addrKey drops the port)
    Local,      \* the local host address that each network hands out
    Horizon,    \* ContactMemory.horizon
    Max,        \* ContactMemory.max
    MaxTime,    \* bound: the clock
    MaxGen      \* bound: calls of Reset

ASSUME HorizonAssumption == Horizon \in Nat \ {0} /\ Max \in Nat \ {0}
ASSUME BoundAssumption   == MaxTime \in Nat /\ MaxGen \in Nat

(* No time: the key is not in the map, the handshake was never seen. *)
Never == -1
Times == Nat \cup {Never}

Key(n, e) == <<Local[n], e>>
Keys == {Key(n, e) : n \in Nets, e \in Egresses}

(* A call of Client past its decision: the shape, the network the socket   *)
(* was opened on, the host, and contactGen, read with the decision.        *)
Calls == [full : BOOLEAN, on : Nets, egress : Egresses, gen : Nat]
NoCall == [full |-> FALSE]

VARIABLES
    now,        \* the wall clock
    net,        \* the network the client is on
    seen,       \* ContactMemory.seen, Never for a key that is absent
    gen,        \* ContactMemory.gen
    call,       \* per connection: NoCall, or the call of Client in flight
    lastFull,   \* history: when an observer last saw a full handshake complete
    orphan      \* history: a resumption chosen by the memory had no predecessor

vars == <<now, net, seen, gen, call, lastFull, orphan>>

Init ==
    /\ now = 0
    /\ net \in Nets
    /\ seen = [k \in Keys |-> Never]
    /\ gen = 0
    /\ call = [c \in Conns |-> NoCall]
    /\ lastFull = [n \in Nets |-> [e \in Egresses |-> Never]]
    /\ orphan = FALSE

Tick ==
    /\ now < MaxTime
    /\ now' = now + 1
    /\ UNCHANGED <<net, seen, gen, call, lastFull, orphan>>

-----------------------------------------------------------------------------
(* evictLocked *)

Expired(t) == now - t >= Horizon

Tracked(m) == {k \in Keys : m[k] # Never}

OverByOne(s) == Cardinality(s) > Max + 1
Over(s) == Cardinality(s) > Max

(* The keys that may be left of m: the expired ones go, then the oldest    *)
(* until Max are left, in either order when two are equally old.           *)
Survivors(m) ==
    LET live == {k \in Tracked(m) : ~Expired(m[k])}
    IN  IF ~Over(live)
        THEN {live}
        ELSE {r \in SUBSET live :
                /\ Cardinality(r) = Max
                /\ \A k \in r, d \in live \ r : m[d] <= m[k]}

AfterEviction(m) == {[k \in Keys |-> IF k \in r THEN m[k] ELSE Never] : r \in Survivors(m)}

-----------------------------------------------------------------------------
(* Client *)

(* needsFull, after its eviction: no entry, or one past the horizon. *)
NeedsFull(k, m) == m[k] = Never \/ Expired(m[k])

(* The observer of network n saw a full handshake that a resumption to e   *)
(* can continue.                                                           *)
HasPredecessor(n, e) == lastFull[n][e] # Never /\ ~Expired(lastFull[n][e])

(* Client decides the shape for connection c to e, over a socket opened on *)
(* the present network.  asked: ClientConfig.FullHandshake.  carrier: the  *)
(* cover and the pool can back a full handshake; an explicit request fails *)
(* without it before the memory is asked.  ticket: the credential has a    *)
(* full ticket; an explicit request without one fails in Twiddle, after    *)
(* the memory was asked.  A full handshake that the memory wants and these *)
(* cannot back degrades to a resumption.                                   *)
Decide(c, e, asked, carrier, ticket) ==
    /\ call[c] = NoCall
    /\ asked => carrier
    /\ seen' \in AfterEviction(seen)
    /\ LET want == NeedsFull(Key(net, e), seen')
           full == asked \/ (want /\ carrier /\ ticket)
       IN  /\ call' = IF full /\ ~ticket
                      THEN call
                      ELSE [call EXCEPT ![c] = [full |-> full, on |-> net,
                                                egress |-> e, gen |-> gen]]
           /\ orphan' = (orphan \/ (~want /\ ~asked /\ ~HasPredecessor(net, e)))
    /\ UNCHANGED <<now, net, gen, lastFull>>

(* record's generation check. *)
GenMatchesAlways(c) == TRUE
GenMatches(c) == call[c].gen = gen

(* Only a full handshake is recorded. *)
RecordsAnyShape(c) == GenMatches(c)
Records(c) == call[c].full /\ GenMatches(c)

(* The opening completes: a full one is recorded, unless Reset ran since   *)
(* the decision.                                                           *)
Complete(c) ==
    /\ call[c] # NoCall
    /\ LET n == call[c].on
           e == call[c].egress
       IN  /\ lastFull' = IF call[c].full THEN [lastFull EXCEPT ![n][e] = now] ELSE lastFull
           /\ IF Records(c)
              THEN seen' \in AfterEviction([seen EXCEPT ![Key(n, e)] = now])
              ELSE UNCHANGED seen
    /\ call' = [call EXCEPT ![c] = NoCall]
    /\ UNCHANGED <<now, net, gen, orphan>>

(* The opening fails: nothing is recorded. *)
Fail(c) ==
    /\ call[c] # NoCall
    /\ call' = [call EXCEPT ![c] = NoCall]
    /\ UNCHANGED <<now, net, seen, gen, lastFull, orphan>>

-----------------------------------------------------------------------------
(* The network *)

Reset ==
    /\ seen' = [k \in Keys |-> Never]
    /\ gen' = gen + 1

(* The caller moves to another network and, as contacts.go:98-103 asks,    *)
(* calls Reset.                                                            *)
MoveAndReset(n) ==
    /\ n # net
    /\ gen < MaxGen
    /\ net' = n
    /\ Reset
    /\ UNCHANGED <<now, call, lastFull, orphan>>

(* The networks whose address no other network hands out. *)
Distinct == {n \in Nets : \A m \in Nets \ {n} : Local[m] # Local[n]}

(* The caller moves without Reset to such a network: the local address in  *)
(* the key has to notice.                                                  *)
MoveSilently(n) ==
    /\ n # net
    /\ n \in Distinct
    /\ net' = n
    /\ UNCHANGED <<now, seen, gen, call, lastFull, orphan>>

Next ==
    \/ Tick
    \/ \E c \in Conns : \/ \E e \in Egresses, asked, carrier, ticket \in BOOLEAN :
                              Decide(c, e, asked, carrier, ticket)
                        \/ Complete(c)
                        \/ Fail(c)
    \/ \E n \in Nets : MoveAndReset(n) \/ MoveSilently(n)

Spec == Init /\ [][Next]_vars

-----------------------------------------------------------------------------
(* Every variable has its type, and the memory holds at most Max entries.  *)
TypeInv ==
    /\ now \in Nat
    /\ net \in Nets
    /\ seen \in [Keys -> Times]
    /\ gen \in Nat
    /\ call \in [Conns -> Calls \cup {NoCall}]
    /\ lastFull \in [Nets -> [Egresses -> Times]]
    /\ orphan \in BOOLEAN

TypeOK == TypeInv /\ Cardinality(Tracked(seen)) <= Max

(* A resumption that the memory chose continues a full handshake which the *)
(* observer of the same network saw complete less than the horizon ago,    *)
(* whatever Resets, moves, evictions and other connections came between    *)
(* (contacts.go:11-21).                                                    *)
NoOrphanResumption == ~orphan

(* Why that holds.  Since the last Reset the client was on one home        *)
(* network and on networks with an address of their own, and so is every   *)
(* opening whose result may still be recorded; an entry is never younger   *)
(* than the last full handshake the observer of such a network saw.        *)
(* Failed and degraded openings leave no entry (handshake.go:238-245).     *)
Since(h) == {h} \cup Distinct

EntriesAreEarned ==
    \E h \in Nets :
        /\ net \in Since(h)
        /\ \A c \in Conns : call[c] # NoCall /\ GenMatches(c) => call[c].on \in Since(h)
        /\ \A n \in Since(h), e \in Egresses : seen[Key(n, e)] <= lastFull[n][e]
=============================================================================
