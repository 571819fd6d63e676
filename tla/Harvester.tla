------------------------------ MODULE Harvester ------------------------------
(***************************************************************************)
(* The device pool (harvester.go): Offer screens hellos tapped from the    *)
(* device's own traffic into an emit pool of one browser build and holds   *)
(* the samples of other builds aside until one outnumbers the pool.  Offer *)
(* changes both under one lock, so a call is a step here; what it writes   *)
(* to disk after the unlock is in PoolFile.                                *)
(*                                                                         *)
(* A hello is what the harvester tells apart: the browser build, the       *)
(* length of the server name, which Sanitize keeps, and the part of the    *)
(* body that the emitter cannot regenerate.                                *)
(***************************************************************************)
EXTENDS Integers, FiniteSets, SequencesExt

CONSTANTS
    Hellos,     \* usable tapped hellos: records [build, sni, body]
    Rank,       \* order of the fingerprints, which are hashes
    MaxPool     \* Harvester.max

ASSUME PoolAssumption == MaxPool \in Nat \ {0}

VARIABLES
    hellos,     \* Harvester.hellos
    pending,    \* Harvester.pending
    settled     \* the build that the device emits from now on, or "any"

vars == <<hellos, pending, settled>>

(* recordBuild: ECH lengths and GREASE are left out, the length of the     *)
(* server name is not.                                                     *)
Fingerprint(h) == <<h.build, h.sni>>

ASSUME RankAssumption == \A h \in Hellos : Rank[Fingerprint(h)] \in Nat

(* contributionKey: the server name is left out. *)
Key(h) == <<h.build, h.body>>
Keys(s) == {Key(h) : h \in ToSet(s)}

Init ==
    /\ hellos = <<>>
    /\ pending = <<>>
    /\ settled = "any"

-----------------------------------------------------------------------------
(* The pool *)

(* The newest MaxPool hellos. *)
NewestTooFew(s) == SubSeq(s, IF Len(s) > MaxPool THEN Len(s) - MaxPool + 2 ELSE 1, Len(s))
Newest(s) == SubSeq(s, IF Len(s) > MaxPool THEN Len(s) - MaxPool + 1 ELSE 1, Len(s))

(* The hellos of one group, in their order. *)
Group(s, fp) ==
    LET of[i \in 0 .. Len(s)] ==
            IF i = 0 THEN <<>>
            ELSE IF Fingerprint(s[i]) = fp THEN Append(of[i - 1], s[i]) ELSE of[i - 1]
    IN  of[Len(s)]
Fingerprints(s) == {Fingerprint(h) : h \in ToSet(s)}

(* largestBuild: the largest group, ties by fingerprint. *)
LargestBuild(s) ==
    LET fp == CHOOSE f \in Fingerprints(s) : \A g \in Fingerprints(s) :
                \/ Len(Group(s, f)) > Len(Group(s, g))
                \/ Len(Group(s, f)) = Len(Group(s, g)) /\ Rank[f] <= Rank[g]
    IN  Group(s, fp)

(* trimPendingLocked: the oldest sample of the smallest group goes, ties   *)
(* by fingerprint.  Offer adds one sample at a time, so one is dropped.    *)
Budget == MaxPool + 1

Victim(s) ==
    CHOOSE f \in Fingerprints(s) : \A g \in Fingerprints(s) :
        \/ Len(Group(s, f)) < Len(Group(s, g))
        \/ Len(Group(s, f)) = Len(Group(s, g)) /\ Rank[f] <= Rank[g]

TrimNever(s) == s
Trim(s) ==
    IF Len(s) <= Budget THEN s
    ELSE RemoveFirstMatch(s, LAMBDA h : Fingerprint(h) = Victim(s))

(* The hello is of the build that the pool emits, or the pool is empty. *)
OfPoolAlways(h) == TRUE
OfPool(h) == hellos # <<>> => Fingerprint(h) = Fingerprint(hellos[1])

(* A build outnumbers the pool. *)
OutnumbersByTwo(best) == Len(best) > Len(hellos) + 1
Outnumbers(best) == Len(best) > Len(hellos)

-----------------------------------------------------------------------------
(* Offer *)

(* What the tap sees: anything, or the one browser the device settled on. *)
Tapped(h) == settled \in {"any", h.build}

(* A hello of the pool's build that the pool does not hold joins it. *)
OfferMajority(h) ==
    /\ Tapped(h)
    /\ Key(h) \notin Keys(hellos)
    /\ OfPool(h)
    /\ hellos' = Newest(Append(hellos, h))
    /\ UNCHANGED <<pending, settled>>

(* A new hello of another build is held aside ... *)
HeldAside(h) ==
    /\ Tapped(h)
    /\ Key(h) \notin Keys(hellos)
    /\ ~OfPool(h)
    /\ Key(h) \notin Keys(pending)

OfferMinority(h) ==
    /\ HeldAside(h)
    /\ ~Outnumbers(LargestBuild(Append(pending, h)))
    /\ pending' = Trim(Append(pending, h))
    /\ UNCHANGED <<hellos, settled>>

(* ... and promotes the largest build that is, once it outnumbers the pool.*)
OfferPromotes(h) ==
    /\ HeldAside(h)
    /\ LET best == LargestBuild(Append(pending, h))
       IN  /\ Outnumbers(best)
           /\ hellos' = Newest(best)
    /\ pending' = <<>>
    /\ UNCHANGED settled

Offer(h) == OfferMajority(h) \/ OfferMinority(h) \/ OfferPromotes(h)

(* The browser was updated and is from now on the only one in use. *)
Settle(b) ==
    /\ settled = "any"
    /\ settled' = b
    /\ UNCHANGED <<hellos, pending>>

Next == \E h \in Hellos : Offer(h) \/ Settle(h.build)

Spec == Init /\ [][Next]_vars

(* The browser in use keeps connecting: each of its hellos is offered      *)
(* again and again.                                                        *)
Fairness == \A h \in Hellos : SF_vars(Offer(h) /\ settled = h.build)

FairSpec == Spec /\ Fairness

-----------------------------------------------------------------------------
(* Every variable has its type, and the two pools keep their bounds. *)
TypeOK ==
    /\ ToSet(hellos) \subseteq Hellos /\ Len(hellos) <= MaxPool
    /\ ToSet(pending) \subseteq Hellos /\ Len(pending) <= Budget
    /\ settled \in {"any"} \cup {h.build : h \in Hellos}

(* One build, each contribution once. *)
Coherent(s) == /\ Cardinality(Fingerprints(s)) <= 1
               /\ Cardinality(Keys(s)) = Len(s)

(* The emit pool holds one build and each contribution once                *)
(* (harvester.go:107-110).                                                 *)
OneBuild == Coherent(hellos)

(* What is held aside are other builds, none of which outnumbers the pool, *)
(* each contribution once (harvester.go:112-115).                          *)
MinorityWaits ==
    /\ \A f \in Fingerprints(pending) : /\ Len(Group(pending, f)) <= Len(hellos)
                                        /\ f # Fingerprint(hellos[1])
    /\ Cardinality(Keys(pending)) = Len(pending)

Contributions(f) == {Key(h) : h \in {g \in Hellos : Fingerprint(g) = f}}

(* A build that becomes the only one in use, and that has more to          *)
(* contribute than a full pool holds under one fingerprint, becomes the    *)
(* emit pool (harvester.go:112-115, 203-206).                              *)
UpdateTakesOver ==
    \A h \in Hellos : Cardinality(Contributions(Fingerprint(h))) > MaxPool =>
        ((settled = h.build) ~> (hellos # <<>> /\ hellos[1].build = h.build))
=============================================================================
