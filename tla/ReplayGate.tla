----------------------------- MODULE ReplayGate -----------------------------
(***************************************************************************)
(* The single-use gate on tickets: the age check of VerifyTicketAuth and   *)
(* the ReplayCache behind it (replay.go), as concurrent Server calls drive *)
(* them.  A hello is its ticket; whoever holds a ticket, or a recording of *)
(* a hello that carried one, can present it any number of times.           *)
(*                                                                         *)
(* Time is a wall clock in ticks.  A ticket stores its issue time in whole *)
(* seconds.  A Server call reads the clock once to verify and once more to *)
(* spend the ticket.                                                       *)
(***************************************************************************)
EXTENDS Integers, FiniteSets

CONSTANTS
    Clients,    \* client IDs that tickets are issued to
    Handlers,   \* concurrent Server calls
    NoTicket,   \* what an idle handler holds
    Second,     \* ticks in a second
    MaxAge,     \* ServerConfig.MaxAge, in ticks
    Horizon,    \* ReplayCache.horizon, in ticks
    MaxClients, \* ReplayCache.max
    MaxDelay,   \* ticks between the two clock reads of one Server call
    MaxTime,    \* bound: the clock
    MaxTickets  \* bound: tickets issued

ASSUME TimeAssumption ==
    /\ Second \in Nat \ {0}
    /\ MaxAge \in Nat \ {0}
    /\ Horizon \in Nat \ {0}
    /\ MaxDelay \in Nat
    /\ MaxTime \in Nat
ASSUME SizeAssumption == MaxClients \in Nat \ {0} /\ MaxTickets \in Nat

VARIABLES
    now,        \* the wall clock
    issued,     \* every ticket sealed so far
    nextID,     \* the identity of the next ticket (its random nonce)
    nextCred,   \* the identity of the next credential
    hello,      \* per handler: the verified ticket it is about to spend
    at,         \* per handler: when it verified that ticket
    tracked,    \* keys of ReplayCache.clients
    newest,     \* clientSeen.newest, per tracked client
    ties,       \* clientSeen.ties, per tracked client
    seenAt,     \* clientSeen.seenAt, per tracked client
    spent,      \* history: tickets Consume admitted
    replayed,   \* history: tickets Consume admitted a second time
    refused,    \* history: tickets Consume refused before they were spent
    forgotten   \* history: spent tickets whose record was lost and which were
                \* not admitted since

ticketVars == <<issued, nextID, nextCred>>
handlerVars == <<hello, at>>
cacheVars == <<tracked, newest, ties, seenAt>>
histVars  == <<spent, replayed, refused, forgotten>>
vars      == <<now, ticketVars, handlerVars, cacheVars, histVars>>

Init ==
    /\ now = 0
    /\ issued = {}
    /\ nextID = 1
    /\ nextCred = 1
    /\ hello = [h \in Handlers |-> NoTicket]
    /\ at = [h \in Handlers |-> 0]
    /\ tracked = {}
    /\ newest = [c \in Clients |-> 0]
    /\ ties = [c \in Clients |-> {}]
    /\ seenAt = [c \in Clients |-> 0]
    /\ spent = {}
    /\ replayed = {}
    /\ refused = {}
    /\ forgotten = {}

(* Time passes, but a Server call takes its two steps within MaxDelay. *)
Tick ==
    /\ now < MaxTime
    /\ \A h \in Handlers : hello[h] # NoTicket => now - at[h] < MaxDelay
    /\ now' = now + 1
    /\ UNCHANGED <<ticketVars, handlerVars, cacheVars, histVars>>

-----------------------------------------------------------------------------
(* Issuing *)

(* seal stores time.Unix(): the second that t falls in. *)
UnixSecondBefore(t) == ((t \div Second) - 1) * Second
UnixSecond(t) == (t \div Second) * Second

Ticket(c, cred, id, time) == [client |-> c, cred |-> cred, id |-> id, issued |-> UnixSecond(time)]

(* The instant at which the second ticket of a credential is sealed. *)
CompanionTimeLater(t) == t + Second
CompanionTime(t) == t

(* issueAt: a resumption ticket and its full-handshake companion. *)
Issue(c) ==
    /\ nextID + 1 <= MaxTickets
    /\ issued' = issued \cup {Ticket(c, nextCred, nextID, now),
                              Ticket(c, nextCred, nextID + 1, CompanionTime(now))}
    /\ nextID' = nextID + 2
    /\ nextCred' = nextCred + 1
    /\ UNCHANGED <<now, handlerVars, cacheVars, histVars>>

(* IssueFullFor: another companion for a ticket that exists. *)
IssueFullFor(t) ==
    /\ nextID <= MaxTickets
    /\ issued' = issued \cup {[t EXCEPT !.id = nextID]}
    /\ nextID' = nextID + 1
    /\ UNCHANGED <<now, nextCred, handlerVars, cacheVars, histVars>>

-----------------------------------------------------------------------------
(* Server, up to the gate *)

(* Server refuses to run with a horizon shorter than MaxAge. *)
HorizonCovers == Horizon >= MaxAge

(* verifyAt: too old at this reading of the clock. *)
Fresh(t) == now - t.issued <= MaxAge

(* A handler reads a hello and its ticket verifies. *)
Verify(h, t) ==
    /\ hello[h] = NoTicket
    /\ HorizonCovers
    /\ Fresh(t)
    /\ hello' = [hello EXCEPT ![h] = t]
    /\ at' = [at EXCEPT ![h] = now]
    /\ UNCHANGED <<now, ticketVars, cacheVars, histVars>>

-----------------------------------------------------------------------------
(* Consume *)

(* evictLocked: the clients that survive it. *)
KeptWhileActive == {c \in tracked : now - seenAt[c] < MaxAge}
Kept == {c \in tracked : now - newest[c] < Horizon}

(* dropOldestLocked: a map iteration, so any of the clients that were seen *)
(* longest ago.                                                            *)
Oldest == {c \in Kept : \A d \in Kept : seenAt[c] <= seenAt[d]}

(* The cache is full: the backstop has to make room. *)
FullByOne == Cardinality(Kept) > MaxClients
Full == Cardinality(Kept) >= MaxClients

(* The ties of a second that becomes, or is, the newest one. *)
TiesAfter(t) == IF t.client \in Kept /\ newest[t.client] = t.issued
                THEN ties[t.client] \cup {t.id}
                ELSE {t.id}

(* The client's record after t was admitted. *)
Remember(t) ==
    /\ newest' = [newest EXCEPT ![t.client] = t.issued]
    /\ ties' = [ties EXCEPT ![t.client] = TiesAfter(t)]
    /\ seenAt' = [seenAt EXCEPT ![t.client] = now]

(* The ticket passes: first contact, newer than any, or a sibling of the   *)
(* newest that was not presented yet.                                      *)
SiblingNever(t) == FALSE
Sibling(t) == t.issued = newest[t.client] /\ t.id \notin ties[t.client]
Newer(t) == t.issued > newest[t.client]

ConsumeDone(h) ==
    /\ hello' = [hello EXCEPT ![h] = NoTicket]
    /\ at' = [at EXCEPT ![h] = 0]
    /\ UNCHANGED <<now, ticketVars>>

(* history: the spent tickets of these clients are lost. *)
Forget(clients) == forgotten \cup {s \in spent : s.client \in clients}

Admitted(h, victims) ==
    /\ Remember(hello[h])
    /\ spent' = spent \cup {hello[h]}
    /\ replayed' = IF hello[h] \in spent \ forgotten THEN replayed \cup {hello[h]} ELSE replayed
    /\ forgotten' = Forget(victims) \ {hello[h]}
    /\ UNCHANGED refused
    /\ ConsumeDone(h)

(* admitLocked: a client the cache does not hold. *)
ConsumeUnknown(h) ==
    /\ hello[h] # NoTicket
    /\ hello[h].client \notin Kept
    /\ \/ /\ ~Full
          /\ tracked' = Kept \cup {hello[h].client}
          /\ Admitted(h, {})
       \/ /\ Full
          /\ \E victim \in Oldest :
                /\ tracked' = (Kept \ {victim}) \cup {hello[h].client}
                /\ Admitted(h, {victim})

ConsumeKnown(h) ==
    /\ hello[h] # NoTicket
    /\ hello[h].client \in Kept
    /\ Newer(hello[h]) \/ Sibling(hello[h])
    /\ tracked' = Kept
    /\ Admitted(h, {})

(* A duplicate, or older than the newest: ErrNotOurs. *)
ConsumeRefused(h) ==
    /\ hello[h] # NoTicket
    /\ hello[h].client \in Kept
    /\ ~(Newer(hello[h]) \/ Sibling(hello[h]))
    /\ tracked' = Kept
    /\ refused' = IF hello[h] \in spent THEN refused ELSE refused \cup {hello[h]}
    /\ UNCHANGED <<newest, ties, seenAt, spent, replayed, forgotten>>
    /\ ConsumeDone(h)

(* The egress restarts with the key of its tickets and an empty cache;     *)
(* the calls in progress die with it.                                      *)
Restart ==
    /\ tracked' = {}
    /\ hello' = [h \in Handlers |-> NoTicket]
    /\ at' = [h \in Handlers |-> 0]
    /\ forgotten' = Forget(tracked)
    /\ UNCHANGED <<now, ticketVars, newest, ties, seenAt, spent, replayed, refused>>

Next ==
    \/ Tick
    \/ Restart
    \/ \E c \in Clients : Issue(c)
    \/ \E t \in issued : IssueFullFor(t)
    \/ \E h \in Handlers : \/ \E t \in issued : Verify(h, t)
                           \/ ConsumeUnknown(h)
                           \/ ConsumeKnown(h)
                           \/ ConsumeRefused(h)

Spec == Init /\ [][Next]_vars

-----------------------------------------------------------------------------
(* Types *)

Tickets == [client : Clients, cred : Nat, id : Nat, issued : Nat]

(* Every variable has its type, and a handler only holds a ticket that was *)
(* issued.                                                                 *)
TypeOK ==
    /\ now \in Nat
    /\ issued \subseteq Tickets
    /\ nextID \in Nat
    /\ nextCred \in Nat
    /\ hello \in [Handlers -> issued \cup {NoTicket}]
    /\ at \in [Handlers -> Nat]
    /\ tracked \subseteq Clients
    /\ newest \in [Clients -> Nat]
    /\ ties \in [Clients -> SUBSET Nat]
    /\ seenAt \in [Clients -> Nat]
    /\ spent \subseteq issued
    /\ replayed \subseteq spent
    /\ refused \subseteq issued
    /\ forgotten \subseteq spent

(* The cache never holds more clients than max (replay.go:138-140), also   *)
(* when an admission meets a full cache.                                   *)
CacheBounded == Cardinality(tracked) <= MaxClients

-----------------------------------------------------------------------------
(* Safety *)

(* No ticket is admitted twice, whatever the handlers' interleaving, the   *)
(* passing of time and the tickets that came between.  Only what the cache *)
(* loses to its memory backstop or to a restart may be admitted again, and *)
(* then once more (replay.go:43-57, 158-163).                              *)
SingleUse == replayed = {}

(* A genuine ticket that was never spent is refused only when the client   *)
(* has presented a ticket of another, newer credential: siblings of one    *)
(* second and the companion ticket of a credential pass in any order       *)
(* (replay.go:52-57, auth.go:115-118).                                     *)
RefusedOnlyWhenSuperseded ==
    \A t \in refused \ spent :
        \E s \in spent : /\ s.client = t.client
                         /\ s.cred # t.cred
                         /\ s.issued > t.issued
=============================================================================
