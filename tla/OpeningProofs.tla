--------------------------- MODULE OpeningProofs ---------------------------
(***************************************************************************)
(* Proofs about the cover prober and the openings an egress answers with   *)
(* what it probed.  The inductive invariant ProbeInv follows a record from *)
(* the upstream to the profile: it was sent before the client's Finished,  *)
(* the recorder holds it below the freeze, it is in the remainder of a     *)
(* sample, in the range and in the profile.                                *)
(***************************************************************************)
EXTENDS Opening, NatLemmas, FiniteSetTheorems, SequenceTheorems

(* The lengths that the recorder may measure: of a record that crypto/tls  *)
(* accepted or of one that came behind the opening.                        *)
EarlyLens   == {r.len : r \in {early \in Early : early.typ = "app"}}
AppLens     == AcceptedLens \cup EarlyLens
SentRecords == RecordsOf(AppLens)

ProfileType ==
    [host : DNSNames, suite : {"aes128", "aes256"}, binder : Nat, ticket : Nat,
     pskFirst : BOOLEAN, resumed : Seq(Nat), flight : Nat, full : Seq(AppLens), jitter : Seq(Int)]

(* Where there is a range, its upper end is the length of a record too. *)
Spans(lens, jitter) ==
    /\ Len(jitter) \in {0, Len(lens)}
    /\ jitter # <<>> => \A i \in DOMAIN lens : lens[i] + jitter[i] \in AppLens

ProfileOK(p) ==
    /\ p \in ProfileType /\ Valid(p)
    /\ Len(p.full) <= maxRemainderRecords
    /\ Spans(p.full, p.jitter)

TapType   == [recs : Seq(WireRecords), frozen : Int, resumed : BOOLEAN]
ProbeType == [pc : Pcs, caller : {"none", "both", "sample"},
              host : ProbeHosts \cup {"none"}, leg : {"full", "resumed"}]
RangeType == [n : 0 .. Samples - 1, lo : Seq(AppLens), hi : Seq(AppLens)]

TypeInv ==
    /\ probe \in ProbeType
    /\ wire \in Seq(WireRecords) /\ tap \in TapType /\ need \in Nat
    /\ tap.frozen \in -1 .. Len(tap.recs)
    /\ RecordsSoFar \in need .. need + MaxExtra
    /\ banked \in BOOLEAN
    /\ full \in Seq(AppLens)
    /\ range \in RangeType /\ Len(range.lo) = Len(range.hi)
    /\ probes \in 0 .. MaxProbes
    /\ sent \in Seq(SentRecords)

(* The recorder of a full session holds, up to the freeze, the records     *)
(* that the upstream sent before the client's Finished.                    *)
TapInv ==
    /\ probe.pc = "handshake" => tap.frozen = -1
    /\ probe.pc = "handshake" /\ FullLeg => sent = tap.recs \o wire
    /\ probe.pc \in {"bank", "close"} => tap.frozen >= 0
    /\ probe.pc \in {"bank", "close"} /\ FullLeg =>
          tap.frozen <= Len(sent) /\ \A i \in 1 .. tap.frozen : tap.recs[i] = sent[i]

(* What the full session was read as, and what the samples range over. *)
SampledAt(i, len) == \E s \in samples : AppRecord(s.recs, i, len)

ResultInv ==
    /\ ~FullLeg => \A i \in DOMAIN full : AppRecord(sent, i, full[i])
    /\ \A i \in DOMAIN range.lo : SampledAt(i, range.lo[i])
    /\ \A i \in DOMAIN range.hi : SampledAt(i, range.hi[i])
    /\ \A s \in samples : s.host = probe.host
    /\ probe.pc = "idle" => samples = {}

ProbeInv == ProfileOK(cover) /\ TypeInv /\ TapInv /\ ResultInv

-----------------------------------------------------------------------------
(* Profiles *)

(* CoverFor returns a profile of the lower-case name without a full        *)
(* remainder.                                                              *)
LEMMA CoverForTyped ==
    ASSUME NEW h, HasCover(h)
    PROVE  /\ CoverFor(h) \in ProfileType /\ CoverFor(h).host = Lower[h]
           /\ CoverFor(h).full = <<>> /\ CoverFor(h).jitter = <<>>
<1> DEFINE n == Lower[h]
<1>1. n \in DNSNames
  BY DEF HasCover
<1>2. <<64>> \in Seq(Nat) /\ <<32, 74>> \in Seq(Nat)
  OBVIOUS
<1>3. CASE n \in MeasuredCovers
  <2>1. CoverFor(h) = covers[n]
    BY <1>3 DEF CoverFor
  <2>2. CASE n = "www.cloudflare.com"
    <3>1. CoverFor(h) = Profile(n, "aes128", 32, 176, TRUE, <<64>>, 149)
      BY <1>3, <2>1, <2>2 DEF covers
    <3> QED
      BY <3>1, <1>1, <1>2 DEF Profile, ProfileType
  <2>3. CASE n = "www.google.com"
    <3>1. CoverFor(h) = Profile(n, "aes128", 32, 230, TRUE, <<64>>, 145)
      BY <1>3, <2>1, <2>3 DEF covers
    <3> QED
      BY <3>1, <1>1, <1>2 DEF Profile, ProfileType
  <2>4. CASE n = "www.microsoft.com"
    <3>1. CoverFor(h) = Profile(n, "aes256", 48, 256, FALSE, <<32, 74>>, 164)
      BY <1>3, <2>1, <2>4 DEF covers
    <3> QED
      BY <3>1, <1>1, <1>2 DEF Profile, ProfileType
  <2> QED
    BY <1>3, <2>2, <2>3, <2>4 DEF MeasuredCovers
<1>4. CASE n \notin MeasuredCovers
  <2>1. CoverFor(h) = Profile(n, "aes128", 32, DefaultTicketLen, FALSE, <<64>>, 149)
    BY <1>4 DEF CoverFor
  <2> QED
    BY <2>1, <1>1, <1>2 DEF Profile, ProfileType, DefaultTicketLen
<1> QED
  BY <1>3, <1>4

(* The profile an egress starts with is one that Client and Server take. *)
LEMMA CoverForOK ==
    ASSUME NEW h, HasCover(h)
    PROVE  ProfileOK(CoverFor(h))
<1> DEFINE p == CoverFor(h)
<1>1. /\ p \in ProfileType /\ p.host = Lower[h] /\ p.full = <<>> /\ p.jitter = <<>>
  BY CoverForTyped
<1>2. Lower[h] \in DNSNames /\ Lower[h] \in DOMAIN Lower /\ Lower[Lower[h]] = Lower[h]
  BY HostAssumption DEF HasCover
<1>3. HasCover(Lower[h]) /\ CoverFor(Lower[h]) = CoverFor(h)
  BY <1>2 DEF HasCover, CoverFor
<1>4. Valid(p)
  BY <1>1, <1>3 DEF Valid
<1> QED
  BY <1>1, <1>4 DEF ProfileOK, Spans, maxRemainderRecords
(* Whatever a probe returns, Adopt returns a profile that Client and       *)
(* Server take, with its full remainder as it was or as the probe of the   *)
(* same cover measured it.                                                 *)
AdoptedFull(p, res, q) ==
    /\ res.full /\ SameCover(p, res)
    /\ q.full = res.remainder /\ q.jitter = res.jitter

(* Adopt keeps a profile valid, and takes what the result holds. *)
LEMMA AdoptOK ==
    ASSUME NEW p, ProfileOK(p), NEW res,
           res.remainder \in Seq(Nat), res.jitter \in Seq(Int),
           res.full => res.remainder \in Seq(AppLens),
           res.jitter # <<>> =>
              \A i \in DOMAIN res.remainder : res.remainder[i] + res.jitter[i] \in AppLens
    PROVE  /\ ProfileOK(Adopt(p, res))
           /\ Adopt(p, res).host = p.host
           /\ \/ Adopt(p, res).full = p.full /\ Adopt(p, res).jitter = p.jitter
              \/ AdoptedFull(p, res, Adopt(p, res))
<1>1. CASE Adopt(p, res) = p
  BY <1>1
<1>2. CASE /\ SameCover(p, res) /\ PlausibleRecords(res) /\ res.full /\ AdoptsFull(p, res)
           /\ Adopt(p, res) = WithFull(p, res)
  <2> DEFINE q == WithFull(p, res)
  <2>1. p \in ProfileType /\ Valid(p)
    BY DEF ProfileOK
  <2>2. q = [p EXCEPT !.full = res.remainder, !.jitter = res.jitter]
    BY DEF WithFull
  <2>3. /\ q \in ProfileType /\ q.full = res.remainder /\ q.jitter = res.jitter
        /\ q.host = p.host /\ q.suite = p.suite /\ q.binder = p.binder /\ q.ticket = p.ticket
        /\ q.pskFirst = p.pskFirst /\ q.resumed = p.resumed /\ q.flight = p.flight
    <3>1. res.remainder \in Seq(AppLens)
      BY <1>2
    <3> QED
      BY <2>1, <2>2, <3>1 DEF ProfileType
  <2> HIDE DEF q
  <2>4. Valid(q)
    BY <2>1, <2>3 DEF Valid
  <2>5. Len(q.full) <= maxRemainderRecords /\ Len(q.jitter) \in {0, Len(q.full)}
    <3>1. /\ Len(res.remainder) \in 1 .. maxRemainderRecords
          /\ Len(res.jitter) \in {0, Len(res.remainder)}
      BY ONLY <1>2 DEF PlausibleRecords, AdoptsFull
    <3>2. Len(res.remainder) <= maxRemainderRecords
      <4>1. \A k : k \in 1 .. maxRemainderRecords => k <= maxRemainderRecords
        BY ONLY TRUE DEF maxRemainderRecords
      <4> QED
        BY Zenon, <3>1, <4>1
    <3> QED
      BY Zenon, <2>3, <3>1, <3>2
  <2>6. ProfileOK(q)
    BY <2>3, <2>4, <2>5 DEF ProfileOK, Spans
  <2>7. Adopt(p, res) = q
    BY <1>2 DEF q
  <2> QED
    BY <1>2, <2>3, <2>6, <2>7 DEF AdoptedFull
<1>3. CASE AdoptsResumed(p, res) /\ Adopt(p, res) = WithResumed(p, res)
  <2> DEFINE q == WithResumed(p, res)
  <2>1. p \in ProfileType
    BY DEF ProfileOK
  <2>2. q = [p EXCEPT !.resumed = res.remainder]
    BY DEF WithResumed
  <2>3. q \in ProfileType /\ q.full = p.full /\ q.jitter = p.jitter /\ q.host = p.host
    BY <2>1, <2>2 DEF ProfileType
  <2>5. Valid(q)
    BY <1>3 DEF AdoptsResumed
  <2> HIDE DEF q
  <2>6. ProfileOK(q)
    BY <2>3, <2>5 DEF ProfileOK
  <2>7. Adopt(p, res) = q
    BY <1>3 DEF q
  <2> QED
    BY <2>3, <2>6, <2>7
<1> QED
  BY <1>1, <1>2, <1>3 DEF Adopt
-----------------------------------------------------------------------------
(* Records *)

(* A sequence over a set is one over a larger set. *)
LEMMA SeqMonotone ==
    ASSUME NEW S, NEW T, S \subseteq T, NEW s \in Seq(S)
    PROVE  s \in Seq(T)
OBVIOUS

(* Every length is a natural number. *)
LEMMA LensAreNat ==
    RecordLens \subseteq Nat /\ AppLens \subseteq RecordLens
<1>1. RecordLens \subseteq Nat
  BY DEF RecordLens, recordHeaderLen
<1>2. \A r \in WireRecords : r.len \in RecordLens
  BY DEF WireRecords, RecordsOf
<1>3. \A early \in Early : early.len \in RecordLens
  BY <1>2, UpstreamAssumption
<1>4. EarlyLens \subseteq RecordLens
  BY <1>3 DEF EarlyLens
<1> QED
  BY <1>1, <1>4 DEF AppLens, AcceptedLens

(* A record is its type and its length. *)
LEMMA AppRecordTyped ==
    ASSUME NEW r \in WireRecords
    PROVE  r = [typ |-> r.typ, len |-> r.len] /\ r.len \in Nat
<1>1. r = [typ |-> r.typ, len |-> r.len] /\ r.len \in RecordLens
  BY DEF WireRecords, RecordsOf
<1> QED
  BY <1>1, LensAreNat

(* What is sent before the client's Finished is one of those lengths. *)
LEMMA SentIsTyped ==
    /\ SentRecords \subseteq WireRecords
    /\ RecordsOf(AcceptedLens) \subseteq SentRecords
    /\ Early \subseteq SentRecords
    /\ \A r \in SentRecords : r.typ = "app" => r.len \in AppLens
<1>1. AcceptedLens \subseteq AppLens /\ AppLens \subseteq RecordLens
  BY LensAreNat DEF AppLens
<1>2. SentRecords \subseteq WireRecords
  BY <1>1 DEF SentRecords, WireRecords, RecordsOf
<1>3. RecordsOf(AcceptedLens) \subseteq SentRecords
  BY <1>1 DEF SentRecords, RecordsOf
<1>4. ASSUME NEW r \in Early  PROVE r \in SentRecords
  <2>1. r \in WireRecords
    BY UpstreamAssumption
  <2>2. CASE r.typ = "app"
    <3>1. r.len \in EarlyLens
      BY <2>2 DEF EarlyLens
    <3>2. r.len \in AppLens
      BY <3>1 DEF AppLens
    <3> QED
      BY <2>1, <2>2, <3>2 DEF WireRecords, SentRecords, RecordsOf
  <2>3. CASE r.typ # "app"
    BY <2>1, <2>3 DEF WireRecords, SentRecords, RecordsOf
  <2> QED
    BY <2>2, <2>3
<1>5. ASSUME NEW r \in SentRecords, r.typ = "app"  PROVE r.len \in AppLens
  BY <1>5 DEF SentRecords, RecordsOf
<1> QED
  BY <1>2, <1>3, <1>4, <1>5

(* So are the lengths of its application records. *)
LEMMA AppRecordSent ==
    ASSUME NEW recs \in Seq(SentRecords), NEW i, NEW len, AppRecord(recs, i, len)
    PROVE  len \in AppLens
<1>1. PICK k \in DOMAIN recs : recs[k] = [typ |-> "app", len |-> len]
  BY DEF AppRecord
<1>2. recs[k] \in SentRecords /\ recs[k].typ = "app" /\ recs[k].len = len
  BY <1>1
<1> QED
  BY <1>2, SentIsTyped

(* Counting the application records of a prefix. *)
LEMMA AppRecordOfPrefix ==
    ASSUME NEW recs \in Seq(WireRecords), NEW all \in Seq(WireRecords), Len(recs) <= Len(all),
           \A i \in 1 .. Len(recs) : recs[i] = all[i],
           NEW i, NEW len, AppRecord(recs, i, len)
    PROVE  AppRecord(all, i, len)
<1>1. PICK k \in DOMAIN recs : /\ recs[k] = [typ |-> "app", len |-> len]
                               /\ Cardinality({j \in 1 .. k : recs[j].typ = "app"}) = i
  BY DEF AppRecord
<1>2. k \in 1 .. Len(recs) /\ k \in DOMAIN all
  OBVIOUS
<1>3. {j \in 1 .. k : recs[j].typ = "app"} = {j \in 1 .. k : all[j].typ = "app"}
  BY <1>2
<1> QED
  BY <1>1, <1>2, <1>3 DEF AppRecord

(* readOpening returns the application records behind the ServerHello and  *)
(* the ChangeCipherSpec: the record at i of the remainder is the ith       *)
(* application record of the session.                                      *)
LEMMA RemainderIsRead ==
    ASSUME NEW recs \in Seq(WireRecords), NEW n, OpeningRead(recs, n)
    PROVE  /\ Remainder(recs) \in Seq(Nat)
           /\ \A i \in DOMAIN Remainder(recs) : AppRecord(recs, i, Remainder(recs)[i])
<1> DEFINE rest == SubSeq(recs, 3, Len(recs))
           other == {i \in 1 .. Len(rest) : rest[i].typ # "app"}
           first == FirstOther(recs)
           count == IF first = 0 THEN Len(rest) ELSE first - 1
<1>1. Len(recs) >= 3 /\ Len(recs) \in Nat
  BY DEF OpeningRead
<1>2. /\ rest \in Seq(WireRecords) /\ Len(rest) = Len(recs) - 2
      /\ \A i \in 1 .. Len(rest) : rest[i] = recs[i + 2]
  <2>1. \A i \in 3 .. Len(recs) : recs[i] \in WireRecords
    BY <1>1
  <2>2. /\ SubSeq(recs, 3, Len(recs)) \in Seq(WireRecords)
        /\ Len(SubSeq(recs, 3, Len(recs))) = IF 3 <= Len(recs) THEN Len(recs) - 3 + 1 ELSE 0
        /\ \A i \in 1 .. Len(recs) - 3 + 1 : SubSeq(recs, 3, Len(recs))[i] = recs[3 + i - 1]
    BY <1>1, <2>1, SubSeqProperties
  <2> HIDE DEF rest
  <2>3. \A i \in 1 .. Len(recs) - 2 : 3 + i - 1 = i + 2
    BY <1>1
  <2> QED
    BY <1>1, <2>2, <2>3 DEF rest
<1>3. first = IF other # {} THEN Min(other) ELSE 0
  BY DEF FirstOther, SelectInSeq
<1>4. Remainder(recs) = Lengths(IF first = 0 THEN rest ELSE SubSeq(rest, 1, first - 1))
  BY DEF Remainder
<1> HIDE DEF rest, first
<1>5. /\ count \in 0 .. Len(rest)
      /\ \A i \in 1 .. count : rest[i].typ = "app"
      /\ first # 0 => first \in 1 .. Len(rest)
  <2>1. CASE other = {}
    BY <1>2, <1>3, <2>1
  <2>2. CASE other # {}
    <3>1. other \subseteq Nat
      BY <1>2
    <3>2. Min(other) \in other /\ \A m \in other : Min(other) <= m
      BY <2>2, <3>1, MinIsLeast
    <3>3. first \in other /\ \A m \in other : first <= m
      BY <1>3, <2>2, <3>2
    <3>4. first \in 1 .. Len(rest)
      BY <3>3
    <3> QED
      BY <1>2, <3>3, <3>4
  <2> QED
    BY <2>1, <2>2
<1>6. /\ Remainder(recs) = [i \in 1 .. count |-> rest[i].len]
  <2>1. CASE first = 0
    BY <1>2, <1>4, <2>1 DEF Lengths
  <2>2. CASE first # 0
    <3>1. \A i \in 1 .. first - 1 : rest[i] \in WireRecords
      BY <1>2, <1>5, <2>2
    <3> DEFINE sub == SubSeq(rest, 1, first - 1)
    <3>2. /\ sub \in Seq(WireRecords)
          /\ Len(sub) = IF 1 <= first - 1 THEN first - 1 - 1 + 1 ELSE 0
          /\ \A i \in 1 .. first - 1 - 1 + 1 : sub[i] = rest[1 + i - 1]
      BY <1>5, <2>2, <3>1, SubSeqProperties
    <3> HIDE DEF sub
    <3>3. Len(sub) = first - 1 /\ \A i \in 1 .. first - 1 : sub[i] = rest[i]
      BY <1>5, <2>2, <3>2
    <3>4. DOMAIN sub = 1 .. count
      BY <2>2, <3>2, <3>3
    <3>5. Lengths(sub) = [i \in 1 .. count |-> rest[i].len]
      BY <2>2, <3>3, <3>4 DEF Lengths
    <3> QED
      BY <1>4, <2>2, <3>5 DEF sub
  <2> QED
    BY <2>1, <2>2
<1> HIDE DEF count
<1>7. ASSUME NEW i \in 1 .. count
      PROVE  /\ rest[i].len \in Nat
             /\ AppRecord(recs, i, rest[i].len)
  <2>1. i \in Nat /\ i >= 1 /\ i + 2 \in 1 .. Len(recs) /\ i \in 1 .. Len(rest)
    BY <1>2, <1>5, <1>1
  <2>2. rest[i] \in WireRecords /\ rest[i].typ = "app" /\ recs[i + 2] = rest[i]
    BY <1>2, <1>5, <2>1
  <2>3. rest[i].len \in Nat /\ recs[i + 2] = [typ |-> "app", len |-> rest[i].len]
    BY <2>2, AppRecordTyped
  <2>4. \A j \in 3 .. i + 2 : recs[j].typ = "app"
    <3> SUFFICES ASSUME NEW j \in 3 .. i + 2  PROVE recs[j].typ = "app"
      OBVIOUS
    <3>1. j - 2 \in 1 .. count /\ j - 2 \in 1 .. Len(rest) /\ j - 2 + 2 = j
      BY <1>2, <1>5, <2>1
    <3> QED
      BY <1>2, <1>5, <3>1
  <2>5. recs[1].typ = "handshake" /\ recs[2].typ = "ccs"
    BY DEF OpeningRead
  <2>6. {j \in 1 .. i + 2 : recs[j].typ = "app"} = 3 .. i + 2
    <3>1. \A j \in 1 .. i + 2 : j \in 3 .. i + 2 \/ j = 1 \/ j = 2
      BY <2>1
    <3>2. 3 .. i + 2 \subseteq 1 .. i + 2
      BY <2>1
    <3>3. \A j \in 1 .. i + 2 : recs[j].typ = "app" <=> j \in 3 .. i + 2
      BY <2>4, <2>5, <3>1, <2>1
    <3> QED
      BY ONLY <3>2, <3>3
  <2>7. Cardinality(3 .. i + 2) = i
    <3>1. Cardinality(3 .. i + 2) = IF 3 > i + 2 THEN 0 ELSE i + 2 - 3 + 1
      BY <2>1, FS_Interval
    <3> QED
      BY ONLY <2>1, <3>1
  <2>8. i + 2 \in DOMAIN recs
    BY <2>1
  <2> QED
    BY <2>3, <2>6, <2>7, <2>8 DEF AppRecord
<1>8. count \in Nat
  BY <1>2, <1>5
<1> QED
  <2>1. [i \in 1 .. count |-> rest[i].len] \in Seq(Nat)
    BY <1>7, <1>8
  <2> QED
    BY <1>6, <1>7, <2>1
(* Reading a record leaves what was recorded followed by what is to come. *)
LEMMA HeadMoves ==
    ASSUME NEW S, NEW s \in Seq(S), NEW t \in Seq(S), t # <<>>
    PROVE  Append(s, Head(t)) \o Tail(t) = s \o t
<1>1. /\ Head(t) \in S /\ Tail(t) \in Seq(S) /\ Len(Tail(t)) = Len(t) - 1
      /\ \A i \in 1 .. Len(Tail(t)) : Tail(t)[i] = t[i + 1]
  BY HeadTailProperties
<1>2. /\ Append(s, Head(t)) \in Seq(S) /\ Len(Append(s, Head(t))) = Len(s) + 1
      /\ \A i \in 1 .. Len(s) : Append(s, Head(t))[i] = s[i]
      /\ Append(s, Head(t))[Len(s) + 1] = Head(t)
  BY <1>1, AppendProperties
<1> DEFINE a == Append(s, Head(t)) \o Tail(t)
           b == s \o t
<1>3. /\ a \in Seq(S) /\ Len(a) = Len(s) + 1 + (Len(t) - 1)
      /\ \A i \in 1 .. Len(s) + 1 + (Len(t) - 1) :
            a[i] = IF i <= Len(s) + 1 THEN Append(s, Head(t))[i] ELSE Tail(t)[i - (Len(s) + 1)]
  BY <1>1, <1>2, ConcatProperties
<1>4. /\ b \in Seq(S) /\ Len(b) = Len(s) + Len(t)
      /\ \A i \in 1 .. Len(s) + Len(t) : b[i] = IF i <= Len(s) THEN s[i] ELSE t[i - Len(s)]
  BY ConcatProperties
<1> HIDE DEF a, b
<1>5. Len(s) \in Nat /\ Len(t) \in Nat /\ Head(t) = t[1]
  OBVIOUS
<1>6. Len(a) = Len(b)
  BY <1>3, <1>4, <1>5
<1>7. ASSUME NEW i \in 1 .. Len(a)  PROVE a[i] = b[i]
  <2>1. CASE i <= Len(s)
    BY <2>1, <1>2, <1>3, <1>4, <1>5, <1>7
  <2>2. CASE i = Len(s) + 1
    BY <2>2, <1>2, <1>3, <1>4, <1>5, <1>7
  <2>3. CASE i > Len(s) + 1
    <3>1. i - (Len(s) + 1) \in 1 .. Len(Tail(t)) /\ i - (Len(s) + 1) + 1 = i - Len(s)
      BY <2>3, <1>1, <1>3, <1>5, <1>7
    <3> QED
      BY <2>3, <3>1, <1>1, <1>3, <1>4, <1>5, <1>7
  <2> QED
    BY <2>1, <2>2, <2>3, <1>3, <1>5, <1>7
<1>8. a = b
  BY <1>3, <1>4, <1>6, <1>7, SeqEqual
<1> QED
  BY <1>8 DEF a, b

-----------------------------------------------------------------------------
(* Steps of a session *)

(* Nothing is in progress after the call returned. *)
LEMMA ReturnOK ==
    ASSUME Return, ProfileOK(cover'), probes' \in 0 .. MaxProbes
    PROVE  ProbeInv'
<1>1. /\ probe' = Idle /\ wire' = <<>> /\ tap' = NoTap /\ need' = 0 /\ banked' = FALSE
      /\ full' = <<>> /\ range' = NoRange /\ sent' = <<>> /\ samples' = {}
  BY DEF Return
<1>2. TypeInv'
  <2>1. Idle \in ProbeType
    BY DEF Idle, ProbeType, Pcs
  <2>2. NoTap \in TapType /\ NoTap.recs = <<>> /\ NoTap.frozen = -1
    BY DEF NoTap, TapType
  <2>3. NoRange \in RangeType /\ NoRange.lo = <<>> /\ NoRange.hi = <<>>
    BY SampleAssumption DEF NoRange, RangeType
  <2>4. (tap.frozen)' \in -1 .. Len((tap.recs)')
    BY <1>1, <2>2
  <2>5. RecordsSoFar' \in need' .. need' + MaxExtra
    BY <1>1, <2>2, ProbeBoundAssumption DEF RecordsSoFar
  <2>6. <<>> \in Seq(WireRecords) /\ <<>> \in Seq(SentRecords) /\ <<>> \in Seq(AppLens) /\ 0 \in Nat
    OBVIOUS
  <2>7. Len((range.lo)') = Len((range.hi)')
    BY <1>1, <2>3
  <2> QED
    BY Zenon, <1>1, <2>1, <2>2, <2>3, <2>4, <2>5, <2>6, <2>7 DEF TypeInv
<1>3. TapInv'
  BY <1>1 DEF TapInv, Idle
<1>4. ResultInv'
  BY <1>1 DEF ResultInv, Idle, NoRange, FullLeg
<1> QED
  BY <1>2, <1>3, <1>4 DEF ProbeInv

(* The table's profile at the start. *)
LEMMA ProbeInitOK ==
    ProbeInit => ProbeInv
<1> SUFFICES ASSUME ProbeInit  PROVE ProbeInv
  OBVIOUS
<1>1. /\ probe = Idle /\ wire = <<>> /\ tap = NoTap /\ need = 0 /\ banked = FALSE
      /\ full = <<>> /\ range = NoRange /\ probes = 0 /\ sent = <<>> /\ samples = {}
  BY DEF ProbeInit
<1>2. ProfileOK(cover)
  <2>1. PICK h \in EgressHosts : cover = CoverFor(h)
    BY DEF ProbeInit
  <2> QED
    BY <2>1, EgressAssumption, CoverForOK
<1>3. TypeInv
  <2>1. Idle \in ProbeType
    BY DEF Idle, ProbeType, Pcs
  <2>2. NoTap \in TapType /\ NoTap.recs = <<>> /\ NoTap.frozen = -1
    BY DEF NoTap, TapType
  <2>3. NoRange \in RangeType /\ NoRange.lo = <<>> /\ NoRange.hi = <<>>
    BY SampleAssumption DEF NoRange, RangeType
  <2>4. tap.frozen \in -1 .. Len(tap.recs) /\ probes \in 0 .. MaxProbes
    BY <1>1, <2>2, ProbeBoundAssumption
  <2>5. RecordsSoFar \in need .. need + MaxExtra
    BY <1>1, <2>2, ProbeBoundAssumption DEF RecordsSoFar
  <2>6. <<>> \in Seq(WireRecords) /\ <<>> \in Seq(SentRecords) /\ <<>> \in Seq(AppLens) /\ 0 \in Nat
    OBVIOUS
  <2>7. Len(range.lo) = Len(range.hi)
    BY <1>1, <2>3
  <2> QED
    BY Zenon, <1>1, <2>1, <2>2, <2>3, <2>4, <2>5, <2>6, <2>7 DEF TypeInv
<1>4. TapInv
  BY <1>1 DEF TapInv, Idle
<1>5. ResultInv
  BY <1>1 DEF ResultInv, Idle, NoRange, FullLeg
<1> QED
  BY <1>2, <1>3, <1>4, <1>5 DEF ProbeInv

(* A probe begins with nothing recorded. *)
LEMMA NextStartProbe ==
    ASSUME ProbeInv, NEW caller \in {"both", "sample"}, NEW host \in ProbeHosts,
           StartProbe(caller, host)
    PROVE  ProbeInv'
<1>1. /\ probe = Idle /\ probes < MaxProbes /\ probes' = probes + 1
      /\ probe' = [pc |-> "dial", caller |-> caller, host |-> host, leg |-> "full"]
      /\ cover' = cover /\ wire' = wire /\ tap' = tap /\ need' = need /\ banked' = banked
      /\ full' = full /\ range' = range /\ sent' = sent /\ samples' = samples
  BY DEF StartProbe, sessionVars, resultVars, historyVars
<1>2. ProfileOK(cover) /\ TypeInv /\ ResultInv
  BY DEF ProbeInv
<1>3. samples = {}
  BY <1>1, <1>2 DEF ResultInv, Idle
<1>4. TypeInv'
  <2>1. probe' \in ProbeType
    BY <1>1 DEF ProbeType, Pcs
  <2>2. probes' \in 0 .. MaxProbes
    BY <1>1, <1>2, ProbeBoundAssumption DEF TypeInv
  <2>3. RecordsSoFar' = RecordsSoFar
    BY <1>1 DEF RecordsSoFar
  <2> QED
    BY <1>1, <1>2, <2>1, <2>2, <2>3 DEF TypeInv
<1>5. TapInv'
  BY <1>1 DEF TapInv
<1>6. ResultInv'
  <2>1. \A i, len : SampledAt(i, len)' <=> SampledAt(i, len)
    BY <1>1 DEF SampledAt, AppRecord
  <2> QED
    BY <1>1, <1>2, <1>3, <2>1 DEF ResultInv, FullLeg
<1>7. ProfileOK(cover')
  BY <1>1, <1>2
<1> QED
  BY <1>4, <1>5, <1>6, <1>7 DEF ProbeInv

(* The upstream's opening is on the wire. *)
LEMMA NextDial ==
    ASSUME ProbeInv, Dial
    PROVE  ProbeInv'
<1>1. /\ ProfileOK(cover) /\ TypeInv /\ TapInv /\ ResultInv
  BY DEF ProbeInv
<1>2. /\ probe.pc = "dial" /\ probe' = [probe EXCEPT !.pc = "handshake"]
      /\ cover' = cover /\ banked' = banked /\ full' = full /\ range' = range
      /\ probes' = probes /\ samples' = samples
  BY DEF Dial, resultVars
<1>3. PICK resumed \in {FALSE} \cup {banked /\ ~FullLeg} :
         \E opening \in IF resumed THEN Resumptions ELSE Openings :
            /\ wire' = opening /\ need' = Len(opening)
            /\ tap' = [NoTap EXCEPT !.resumed = resumed]
            /\ sent' = IF FullLeg THEN opening ELSE sent
  BY DEF Dial
<1>4. PICK opening \in IF resumed THEN Resumptions ELSE Openings :
            /\ wire' = opening /\ need' = Len(opening)
            /\ tap' = [NoTap EXCEPT !.resumed = resumed]
            /\ sent' = IF FullLeg THEN opening ELSE sent
  BY <1>3
<1>5. opening \in Seq(SentRecords) /\ opening \in Seq(WireRecords)
  <2>1. opening \in Seq(RecordsOf(AcceptedLens))
    BY UpstreamAssumption
  <2>2. RecordsOf(AcceptedLens) \subseteq SentRecords /\ RecordsOf(AcceptedLens) \subseteq WireRecords
    BY SentIsTyped
  <2> QED
    BY Zenon, <2>1, <2>2, SeqMonotone
<1>6. resumed \in BOOLEAN
  BY Zenon
<1>7. tap' = [recs |-> <<>>, frozen |-> -1, resumed |-> resumed]
  BY <1>4 DEF NoTap
<1>8. /\ probe \in ProbeType /\ probe' \in ProbeType /\ probe'.pc = "handshake"
      /\ probe'.leg = probe.leg /\ probe'.host = probe.host
  BY <1>1, <1>2 DEF TypeInv, ProbeType, Pcs
<1>9. FullLeg' <=> FullLeg
  BY <1>8 DEF FullLeg
<1>10. TypeInv'
  <2>1. tap' \in TapType /\ tap'.recs = <<>> /\ tap'.frozen = -1
    BY <1>6, <1>7 DEF TapType
  <2>2. (tap.frozen)' \in -1 .. Len((tap.recs)')
    BY <2>1
  <2>3. need' \in Nat /\ RecordsSoFar' \in need' .. need' + MaxExtra
    BY <1>4, <1>5, <2>1, ProbeBoundAssumption DEF RecordsSoFar
  <2>4. sent' \in Seq(SentRecords)
    BY <1>1, <1>4, <1>5 DEF TypeInv
  <2> QED
    BY <1>1, <1>2, <1>4, <1>5, <1>8, <2>1, <2>2, <2>3, <2>4 DEF TypeInv
<1>11. TapInv'
  <2>1. <<>> \o opening = opening
    BY <1>5, ConcatEmptySeq
  <2>2. tap'.recs = <<>> /\ tap'.frozen = -1
    BY <1>7
  <2>3. FullLeg' => sent' = opening
    BY <1>4, <1>9
  <2> QED
    BY <1>4, <1>8, <2>1, <2>2, <2>3 DEF TapInv
<1>12. ResultInv'
  <2>1. \A i, len : SampledAt(i, len)' <=> SampledAt(i, len)
    BY <1>2 DEF SampledAt, AppRecord
  <2>2. ~FullLeg' => sent' = sent /\ ~FullLeg
    BY <1>4, <1>9
  <2> QED
    BY <1>1, <1>2, <1>8, <2>1, <2>2 DEF ResultInv
<1>13. ProfileOK(cover')
  BY <1>1, <1>2
<1> QED
  BY <1>10, <1>11, <1>12, <1>13 DEF ProbeInv

(* A record that is sent before the client's Finished joins both the wire  *)
(* and what was sent.                                                      *)
LEMMA NextSendEarly ==
    ASSUME ProbeInv, SendEarly
    PROVE  ProbeInv'
<1>1. /\ ProfileOK(cover) /\ TypeInv /\ TapInv /\ ResultInv
  BY DEF ProbeInv
<1>2. /\ probe.pc = "handshake" /\ RecordsSoFar < need + MaxExtra
      /\ cover' = cover /\ probe' = probe /\ tap' = tap /\ need' = need /\ banked' = banked
      /\ full' = full /\ range' = range /\ probes' = probes /\ samples' = samples
  BY DEF SendEarly, resultVars
<1>3. PICK record \in Early :
         wire' = Append(wire, record) /\ sent' = IF FullLeg THEN Append(sent, record) ELSE sent
  BY DEF SendEarly
<1>5. record \in SentRecords /\ record \in WireRecords
  BY SentIsTyped
<1>6. wire' = Append(wire, record) /\ sent' = IF FullLeg THEN Append(sent, record) ELSE sent
  BY <1>3
<1>7. /\ wire \in Seq(WireRecords) /\ tap \in TapType /\ sent \in Seq(SentRecords) /\ need \in Nat
      /\ RecordsSoFar \in need .. need + MaxExtra
  BY <1>1 DEF TypeInv
<1>8. /\ wire' \in Seq(WireRecords) /\ Len(wire') = Len(wire) + 1 /\ sent' \in Seq(SentRecords)
  BY <1>5, <1>6, <1>7, AppendProperties
<1>9. tap.recs \in Seq(WireRecords)
  BY <1>7 DEF TapType
<1>10. TypeInv'
  <2>1. RecordsSoFar' = RecordsSoFar + 1
    <3>1. RecordsSoFar' = Len(tap.recs) + Len(wire')
      BY <1>2 DEF RecordsSoFar
    <3>2. Len(tap.recs) \in Nat /\ Len(wire) \in Nat
      BY <1>7, <1>9
    <3>3. RecordsSoFar = Len(tap.recs) + Len(wire)
      BY DEF RecordsSoFar
    <3> QED
      <4>1. \A a, b \in Nat : a + (b + 1) = a + b + 1
        OBVIOUS
      <4> QED
        BY Zenon, <3>1, <3>2, <3>3, <4>1, <1>8
  <2>2. RecordsSoFar' \in need .. need + MaxExtra
    BY <1>2, <1>7, <2>1, ProbeBoundAssumption
  <2> QED
    BY <1>1, <1>2, <1>8, <2>2 DEF TypeInv
<1>11. TapInv'
  <2>1. ASSUME FullLeg  PROVE sent' = tap.recs \o wire'
    <3>1. sent = tap.recs \o wire
      BY <1>1, <1>2, <2>1 DEF TapInv
    <3>2. sent' = Append(tap.recs \o wire, record)
      BY <1>6, <2>1, <3>1
    <3>3. Append(tap.recs \o wire, record) = tap.recs \o Append(wire, record)
      <4>1. \A s, t \in Seq(WireRecords) : Append(s \o t, record) = s \o Append(t, record)
        BY ONLY <1>5
      <4> QED
        BY Zenon, <1>7, <1>9, <4>1
    <3> QED
      BY <1>6, <3>2, <3>3
  <2>2. FullLeg' <=> FullLeg
    BY <1>2 DEF FullLeg
  <2> QED
    BY <1>1, <1>2, <2>1, <2>2 DEF TapInv
<1>12. ResultInv'
  <2>1. \A i, len1 : SampledAt(i, len1)' <=> SampledAt(i, len1)
    BY <1>2 DEF SampledAt, AppRecord
  <2>2. FullLeg' <=> FullLeg
    BY <1>2 DEF FullLeg
  <2>3. ~FullLeg => sent' = sent
    BY <1>6
  <2> QED
    BY <1>1, <1>2, <2>1, <2>2, <2>3 DEF ResultInv
<1>13. ProfileOK(cover')
  BY <1>1, <1>2
<1> QED
  BY <1>10, <1>11, <1>12, <1>13 DEF ProbeInv

(* What the banking loop sends is not in what was sent before. *)
LEMMA NextRespond ==
    ASSUME ProbeInv, Respond
    PROVE  ProbeInv'
<1>1. /\ ProfileOK(cover) /\ TypeInv /\ TapInv /\ ResultInv
  BY DEF ProbeInv
<1>2. /\ probe.pc = "bank" /\ RecordsSoFar < need + MaxExtra
      /\ cover' = cover /\ probe' = probe /\ tap' = tap /\ need' = need /\ banked' = banked
      /\ full' = full /\ range' = range /\ probes' = probes /\ samples' = samples
      /\ sent' = sent
  BY DEF Respond, resultVars, historyVars
<1>3. PICK len \in Responses : wire' = Append(wire, [typ |-> "app", len |-> len])
  BY DEF Respond
<1>4. [typ |-> "app", len |-> len] \in WireRecords
  BY UpstreamAssumption DEF WireRecords, RecordsOf
<1>5. /\ wire \in Seq(WireRecords) /\ tap \in TapType /\ need \in Nat
      /\ RecordsSoFar \in need .. need + MaxExtra
  BY <1>1 DEF TypeInv
<1>6. /\ wire' \in Seq(WireRecords) /\ Len(wire') = Len(wire) + 1
  BY <1>3, <1>4, <1>5, AppendProperties
<1>7. tap.recs \in Seq(WireRecords)
  BY <1>5 DEF TapType
<1>8. TypeInv'
  <2>1. RecordsSoFar' = RecordsSoFar + 1
    <3>1. RecordsSoFar' = Len(tap.recs) + Len(wire')
      BY <1>2 DEF RecordsSoFar
    <3>2. Len(tap.recs) \in Nat /\ Len(wire) \in Nat
      BY <1>5, <1>7
    <3>3. RecordsSoFar = Len(tap.recs) + Len(wire)
      BY DEF RecordsSoFar
    <3> QED
      <4>1. \A a, b \in Nat : a + (b + 1) = a + b + 1
        OBVIOUS
      <4> QED
        BY Zenon, <3>1, <3>2, <3>3, <4>1, <1>6
  <2>2. RecordsSoFar' \in need .. need + MaxExtra
    BY <1>2, <1>5, <2>1, ProbeBoundAssumption
  <2> QED
    BY <1>1, <1>2, <1>6, <2>2 DEF TypeInv
<1>9. FullLeg' <=> FullLeg
  BY <1>2 DEF FullLeg
<1>10. TapInv'
  BY <1>1, <1>2, <1>9 DEF TapInv
<1>11. ResultInv'
  <2>1. \A i, len1 : SampledAt(i, len1)' <=> SampledAt(i, len1)
    BY <1>2 DEF SampledAt, AppRecord
  <2> QED
    BY <1>1, <1>2, <1>9, <2>1 DEF ResultInv
<1>12. ProfileOK(cover')
  BY <1>1, <1>2
<1> QED
  BY <1>8, <1>10, <1>11, <1>12 DEF ProbeInv

(* A record moves from the wire to the recorder; below the freeze nothing  *)
(* changes.                                                                *)
LEMMA NextRead ==
    ASSUME ProbeInv, Read
    PROVE  ProbeInv'
<1>1. /\ ProfileOK(cover) /\ TypeInv /\ TapInv /\ ResultInv
  BY DEF ProbeInv
<1>2. /\ wire # <<>> /\ wire' = Tail(wire)
      /\ tap' = [tap EXCEPT !.recs = Append(@, Head(wire))]
      /\ cover' = cover /\ probe' = probe /\ need' = need
      /\ full' = full /\ range' = range /\ probes' = probes /\ samples' = samples
      /\ sent' = sent
  BY DEF Read, resultVars, historyVars
<1>3. banked' \in BOOLEAN
  BY <1>1 DEF TypeInv, Read
<1>4. /\ wire \in Seq(WireRecords) /\ tap \in TapType /\ need \in Nat
      /\ tap.recs \in Seq(WireRecords) /\ tap.frozen \in -1 .. Len(tap.recs)
      /\ RecordsSoFar \in need .. need + MaxExtra
  BY <1>1 DEF TypeInv, TapType
<1>5. /\ Head(wire) \in WireRecords /\ Tail(wire) \in Seq(WireRecords)
      /\ Len(Tail(wire)) = Len(wire) - 1
  BY <1>2, <1>4, HeadTailProperties
<1>6. /\ tap' \in TapType /\ tap'.recs = Append(tap.recs, Head(wire)) /\ tap'.frozen = tap.frozen
  <2>1. PICK more : more = Append(tap.recs, Head(wire))
    OBVIOUS
  <2>2. more \in Seq(WireRecords)
    BY <1>4, <1>5, <2>1, AppendProperties
  <2>3. tap' = [tap EXCEPT !.recs = more]
    BY <1>2, <2>1
  <2>4. tap' \in TapType /\ tap'.recs = more /\ tap'.frozen = tap.frozen
    BY ONLY <1>4, <2>2, <2>3 DEF TapType
  <2> QED
    BY <2>1, <2>4
<1>7. /\ Len(tap'.recs) = Len(tap.recs) + 1
      /\ \A i \in 1 .. Len(tap.recs) : tap'.recs[i] = tap.recs[i]
  BY <1>4, <1>5, <1>6, AppendProperties
<1>8. TypeInv'
  <2>1. RecordsSoFar' = RecordsSoFar
    BY <1>2, <1>4, <1>5, <1>7 DEF RecordsSoFar
  <2>2. (tap.frozen)' \in -1 .. Len((tap.recs)')
    BY <1>4, <1>6, <1>7
  <2> QED
    BY <1>1, <1>2, <1>3, <1>4, <1>5, <1>6, <2>1, <2>2 DEF TypeInv
<1>9. FullLeg' <=> FullLeg
  BY <1>2 DEF FullLeg
<1>10. TapInv'
  <2>1. tap'.recs \o wire' = tap.recs \o wire
    <3>1. Append(tap.recs, Head(wire)) \o Tail(wire) = tap.recs \o wire
      BY <1>2, <1>4, HeadMoves
    <3> QED
      BY <1>2, <1>6, <3>1
  <2>2. \A i \in 1 .. tap.frozen : tap'.recs[i] = tap.recs[i]
    BY <1>4, <1>7
  <2> QED
    BY <1>1, <1>2, <1>6, <1>9, <2>1, <2>2 DEF TapInv
<1>11. ResultInv'
  <2>1. \A i, len1 : SampledAt(i, len1)' <=> SampledAt(i, len1)
    BY <1>2 DEF SampledAt, AppRecord
  <2> QED
    BY <1>1, <1>2, <1>9, <2>1 DEF ResultInv
<1>12. ProfileOK(cover')
  BY <1>1, <1>2
<1> QED
  BY <1>8, <1>10, <1>11, <1>12 DEF ProbeInv

(* The freeze falls between what was sent before and after the client's    *)
(* Finished.                                                               *)
LEMMA NextHandshakeDone ==
    ASSUME ProbeInv, HandshakeDone
    PROVE  ProbeInv'
<1>1. /\ ProfileOK(cover) /\ TypeInv /\ TapInv /\ ResultInv
  BY DEF ProbeInv
<1>2. /\ probe.pc = "handshake" /\ tap' = [tap EXCEPT !.frozen = Len(tap.recs)]
      /\ probe' = [probe EXCEPT !.pc = IF FullLeg THEN "bank" ELSE "close"]
      /\ cover' = cover /\ wire' = wire /\ need' = need /\ banked' = banked
      /\ full' = full /\ range' = range /\ probes' = probes /\ samples' = samples
      /\ sent' = sent
  BY DEF HandshakeDone, Freeze, resultVars, historyVars
<1>3. /\ wire \in Seq(WireRecords) /\ tap \in TapType /\ tap.recs \in Seq(WireRecords)
      /\ probe \in ProbeType
  BY <1>1 DEF TypeInv, TapType
<1>4. /\ tap' \in TapType /\ tap'.recs = tap.recs /\ tap'.frozen = Len(tap.recs)
  BY <1>2, <1>3 DEF TapType
<1>5. /\ probe' \in ProbeType /\ probe'.pc \in {"bank", "close"}
      /\ probe'.leg = probe.leg /\ probe'.host = probe.host
  BY <1>2, <1>3 DEF ProbeType, Pcs
<1>6. FullLeg' <=> FullLeg
  BY <1>5 DEF FullLeg
<1>7. TypeInv'
  <2>1. RecordsSoFar' = RecordsSoFar
    BY <1>2, <1>4 DEF RecordsSoFar
  <2>2. (tap.frozen)' \in -1 .. Len((tap.recs)')
    BY <1>3, <1>4
  <2> QED
    BY <1>1, <1>2, <1>4, <1>5, <2>1, <2>2 DEF TypeInv
<1>8. TapInv'
  <2>1. ASSUME FullLeg  PROVE Len(tap.recs) <= Len(sent) /\ \A i \in 1 .. Len(tap.recs) : tap.recs[i] = sent[i]
    <3>1. sent = tap.recs \o wire
      BY <1>1, <1>2, <2>1 DEF TapInv
    <3> QED
      BY <1>3, <3>1, ConcatProperties
  <2>2. Len(tap.recs) >= 0
    BY <1>3
  <2> QED
    BY <1>2, <1>4, <1>5, <1>6, <2>1, <2>2 DEF TapInv
<1>9. ResultInv'
  <2>1. \A i, len1 : SampledAt(i, len1)' <=> SampledAt(i, len1)
    BY <1>2 DEF SampledAt, AppRecord
  <2> QED
    BY <1>1, <1>2, <1>5, <1>6, <2>1 DEF ResultInv
<1>10. ProfileOK(cover')
  BY <1>1, <1>2
<1> QED
  BY <1>7, <1>8, <1>9, <1>10 DEF ProbeInv

(* The banking request is over. *)
LEMMA NextBankEnds ==
    ASSUME ProbeInv, BankEnds
    PROVE  ProbeInv'
<1>1. /\ ProfileOK(cover) /\ TypeInv /\ TapInv /\ ResultInv
  BY DEF ProbeInv
<1>2. /\ probe.pc = "bank" /\ probe' = [probe EXCEPT !.pc = "close"]
      /\ cover' = cover /\ wire' = wire /\ tap' = tap /\ need' = need
      /\ full' = full /\ range' = range /\ probes' = probes /\ samples' = samples
      /\ sent' = sent
  BY DEF BankEnds, sessionVars, resultVars, historyVars
<1>3. /\ probe' \in ProbeType /\ probe'.pc = "close"
      /\ probe'.leg = probe.leg /\ probe'.host = probe.host
  BY <1>1, <1>2 DEF TypeInv, ProbeType, Pcs
<1>4. FullLeg' <=> FullLeg
  BY <1>3 DEF FullLeg
<1>5. TypeInv'
  <2>1. RecordsSoFar' = RecordsSoFar
    BY <1>2 DEF RecordsSoFar
  <2>2. banked' \in BOOLEAN
    <3>1. banked' \in {FALSE, Len(tap.recs) > need}
      BY DEF BankEnds
    <3>2. Len(tap.recs) \in Nat /\ need \in Nat
      BY <1>1 DEF TypeInv, TapType
    <3>3. (Len(tap.recs) > need) \in BOOLEAN
      BY ONLY <3>2
    <3> QED
      BY Zenon, <3>1, <3>3
  <2> QED
    BY <1>1, <1>2, <1>3, <2>1, <2>2 DEF TypeInv
<1>6. TapInv'
  BY <1>1, <1>2, <1>3, <1>4 DEF TapInv
<1>7. ResultInv'
  <2>1. \A i, len1 : SampledAt(i, len1)' <=> SampledAt(i, len1)
    BY <1>2 DEF SampledAt, AppRecord
  <2> QED
    BY <1>1, <1>2, <1>3, <1>4, <2>1 DEF ResultInv
<1>8. ProfileOK(cover')
  BY <1>1, <1>2
<1> QED
  BY <1>5, <1>6, <1>7, <1>8 DEF ProbeInv

(* A session fails, or a sample of SampleFull is lost. *)
LEMMA NextSessionFails ==
    ASSUME ProbeInv, SessionFails \/ SampleLost
    PROVE  ProbeInv' /\ cover' = cover
<1>1. Return /\ cover' = cover /\ probes' = probes
  BY DEF SessionFails, SampleLost
<1>2. ProfileOK(cover') /\ probes' \in 0 .. MaxProbes
  BY <1>1 DEF ProbeInv, TypeInv
<1> QED
  BY <1>1, <1>2, ReturnOK

-----------------------------------------------------------------------------
(* Steps of a probe *)

(* What the caller reads are the records below the freeze. *)
LEMMA ServerRecordsFrozen ==
    ASSUME TypeInv, tap.frozen >= 0
    PROVE  /\ ServerRecords \in Seq(WireRecords) /\ Len(ServerRecords) = tap.frozen
           /\ \A i \in 1 .. tap.frozen : ServerRecords[i] = tap.recs[i]
<1>1. PICK recs, n : recs = tap.recs /\ n = tap.frozen
  OBVIOUS
<1>2. recs \in Seq(WireRecords) /\ n \in 0 .. Len(recs)
  BY <1>1 DEF TypeInv, TapType
<1>3. ServerRecords = SubSeq(recs, 1, n)
  BY <1>1, <1>2 DEF ServerRecords
<1>4. \A i \in 1 .. n : recs[i] \in WireRecords
  BY <1>2
<1>5. /\ SubSeq(recs, 1, n) \in Seq(WireRecords)
      /\ Len(SubSeq(recs, 1, n)) = IF 1 <= n THEN n - 1 + 1 ELSE 0
      /\ \A i \in 1 .. n - 1 + 1 : SubSeq(recs, 1, n)[i] = recs[1 + i - 1]
  BY <1>2, <1>4, SubSeqProperties
<1> DEFINE sub == SubSeq(recs, 1, n)
<1> HIDE DEF sub
<1>6. sub \in Seq(WireRecords) /\ Len(sub) = n /\ \A i \in 1 .. n : sub[i] = recs[i]
  BY <1>2, <1>5 DEF sub
<1> QED
  BY <1>1, <1>3, <1>6 DEF sub

(* The remainder of the full session is what the upstream sent. *)
LEMMA NextFullLegDone ==
    ASSUME ProbeInv, FullLegDone
    PROVE  ProbeInv' /\ cover' = cover
<1>1. /\ ProfileOK(cover) /\ TypeInv /\ TapInv /\ ResultInv
  BY DEF ProbeInv
<1>2. /\ probe.pc = "close" /\ FullLeg /\ cover' = cover /\ probes' = probes
  BY DEF FullLegDone
<1>3. CASE ~OpeningRead(ServerRecords, ServerHelloFullLen)
  <2>1. Return
    BY <1>3 DEF FullLegDone
  <2>2. ProfileOK(cover') /\ probes' \in 0 .. MaxProbes
    BY <1>1, <1>2 DEF TypeInv
  <2> QED
    BY <1>2, <2>1, <2>2, ReturnOK
<1>4. CASE OpeningRead(ServerRecords, ServerHelloFullLen)
  <2>1. /\ full' = Remainder(ServerRecords)
        /\ probe' = [probe EXCEPT !.pc = "dial", !.leg = "resumed"]
        /\ wire' = <<>> /\ tap' = NoTap /\ need' = 0
        /\ banked' = banked /\ range' = range /\ sent' = sent /\ samples' = samples
    BY <1>4 DEF FullLegDone
  <2>2. /\ tap.frozen >= 0 /\ tap.frozen <= Len(sent)
        /\ \A i \in 1 .. tap.frozen : tap.recs[i] = sent[i]
    BY <1>1, <1>2 DEF TapInv
  <2>3. PICK recs : recs = ServerRecords
    OBVIOUS
  <2>4. /\ recs \in Seq(WireRecords) /\ Len(recs) <= Len(sent)
        /\ \A i \in 1 .. Len(recs) : recs[i] = sent[i]
    BY <1>1, <2>2, <2>3, ServerRecordsFrozen
  <2>5. sent \in Seq(SentRecords) /\ sent \in Seq(WireRecords)
    <3>1. sent \in Seq(SentRecords)
      BY <1>1 DEF TypeInv
    <3> QED
      BY Zenon, <3>1, SentIsTyped, SeqMonotone
  <2>6. PICK rem : rem = Remainder(recs)
    OBVIOUS
  <2>a. rem \in Seq(Nat) /\ \A i \in DOMAIN rem : AppRecord(recs, i, rem[i])
    BY <1>4, <2>3, <2>4, <2>6, RemainderIsRead
  <2>8. \A i \in DOMAIN rem : AppRecord(sent, i, rem[i])
    BY <2>4, <2>5, <2>a, AppRecordOfPrefix
  <2>b. \A i \in DOMAIN rem : rem[i] \in AppLens
    BY Zenon, <2>5, <2>8, AppRecordSent
  <2>7. rem \in Seq(AppLens)
    BY <2>a, <2>b
  <2>9. full' = rem
    BY <2>1, <2>3, <2>6
  <2>10. /\ probe' \in ProbeType /\ probe'.pc = "dial" /\ probe'.leg = "resumed"
         /\ probe'.host = probe.host
    <3>1. probe \in ProbeType
      BY <1>1 DEF TypeInv
    <3> QED
      BY <2>1, <3>1 DEF ProbeType, Pcs
  <2>11. TypeInv'
    <3>1. NoTap \in TapType /\ NoTap.recs = <<>> /\ NoTap.frozen = -1
      BY DEF NoTap, TapType
    <3>2. (tap.frozen)' \in -1 .. Len((tap.recs)')
      BY <2>1, <3>1
    <3>3. RecordsSoFar' \in need' .. need' + MaxExtra
      BY <2>1, <3>1, ProbeBoundAssumption DEF RecordsSoFar
    <3>4. <<>> \in Seq(WireRecords) /\ 0 \in Nat
      OBVIOUS
    <3> QED
      BY Zenon, <1>1, <1>2, <2>1, <2>7, <2>9, <2>10, <3>1, <3>2, <3>3, <3>4 DEF TypeInv
  <2>12. TapInv'
    BY <2>10 DEF TapInv
  <2>13. ResultInv'
    <3>1. \A i, len1 : SampledAt(i, len1)' <=> SampledAt(i, len1)
      BY <2>1 DEF SampledAt, AppRecord
    <3>2. \A i \in DOMAIN full' : AppRecord(sent', i, full'[i])
      BY <2>1, <2>8, <2>9
    <3> QED
      BY <1>1, <2>1, <2>10, <3>1, <3>2 DEF ResultInv
  <2>14. ProfileOK(cover')
    BY <1>1, <1>2
  <2> QED
    BY <1>2, <2>11, <2>12, <2>13, <2>14 DEF ProbeInv
<1> QED
  BY <1>3, <1>4

(* What a step that adopts a full remainder may adopt. *)
MeasuredStep ==
    <<cover'.full, cover'.jitter>> # <<cover.full, cover.jitter>> =>
        \A i \in DOMAIN cover'.full :
            /\ Measured(i, cover'.full[i])
            /\ cover'.jitter # <<>> => Measured(i, cover'.full[i] + cover'.jitter[i])

(* ProbeBoth returns and its result is adopted. *)
LEMMA NextBothDone ==
    ASSUME ProbeInv, BothDone
    PROVE  ProbeInv' /\ MeasuredStep
<1>1. /\ ProfileOK(cover) /\ TypeInv /\ TapInv /\ ResultInv
  BY DEF ProbeInv
<1>2. probe.pc = "close" /\ ~FullLeg /\ Return /\ probes' = probes
  BY DEF BothDone, ResumedLegOver
<1>3. ProfileOK(cover') /\ MeasuredStep
  <2>1. CASE ~ResumedOK
    <3>1. cover' = cover
      BY <2>1 DEF BothDone
    <3> QED
      BY <1>1, <3>1 DEF MeasuredStep
  <2>2. CASE ResumedOK
    <3>1. PICK rem : rem = Remainder(ServerRecords)
      OBVIOUS
    <3>2. PICK res1 : res1 = Result(FALSE, rem, <<>>)
      OBVIOUS
    <3>3. PICK p : p = Adopt(cover, res1)
      OBVIOUS
    <3>4. PICK res2 : res2 = Result(TRUE, full, <<>>)
      OBVIOUS
    <3>5. cover' = Adopt(p, res2)
      BY Zenon, <2>2, <3>1, <3>2, <3>3, <3>4 DEF BothDone
    <3>6. rem \in Seq(Nat)
      <4>1. ServerRecords \in Seq(WireRecords)
        BY <1>1, <1>2, ServerRecordsFrozen DEF TapInv
      <4>2. OpeningRead(ServerRecords, ServerHelloResumedLen)
        BY <2>2 DEF ResumedOK
      <4> QED
        BY <3>1, <4>1, <4>2, RemainderIsRead
    <3>7. full \in Seq(AppLens) /\ full \in Seq(Nat) /\ \A i \in DOMAIN full : AppRecord(sent, i, full[i])
      <4>1. full \in Seq(AppLens) /\ \A i \in DOMAIN full : AppRecord(sent, i, full[i])
        BY <1>1, <1>2 DEF TypeInv, ResultInv
      <4>2. AppLens \subseteq Nat
        BY LensAreNat
      <4> QED
        BY Zenon, <4>1, <4>2, SeqMonotone
    <3>8. /\ res1.remainder = rem /\ res1.jitter = <<>> /\ res1.full = FALSE
          /\ res2.remainder = full /\ res2.jitter = <<>> /\ res2.host = probe.host
      BY <3>2, <3>4 DEF Result
    <3>9. <<>> \in Seq(Int)
      OBVIOUS
    <3>10. /\ ProfileOK(p) /\ p.host = cover.host
           /\ p.full = cover.full /\ p.jitter = cover.jitter
      <4>1. /\ ProfileOK(p) /\ p.host = cover.host
            /\ \/ p.full = cover.full /\ p.jitter = cover.jitter
               \/ AdoptedFull(cover, res1, p)
        BY Zenon, <1>1, <3>3, <3>6, <3>8, <3>9, AdoptOK
      <4> QED
        BY Zenon, <4>1, <3>8 DEF AdoptedFull
    <3>11. /\ ProfileOK(cover')
           /\ \/ cover'.full = p.full /\ cover'.jitter = p.jitter
              \/ AdoptedFull(p, res2, cover')
      BY Zenon, <3>5, <3>7, <3>8, <3>9, <3>10, AdoptOK
    <3>12. ASSUME AdoptedFull(p, res2, cover')  PROVE MeasuredStep
      <4>1. cover'.full = full /\ cover'.jitter = <<>>
        BY <3>8, <3>12 DEF AdoptedFull
      <4>2. CoverFor(probe.host).host = CoverFor(cover.host).host
        BY Zenon, <3>8, <3>10, <3>12 DEF AdoptedFull, SameCover
      <4>3. PICK w : w = [host |-> probe.host, recs |-> sent]
        OBVIOUS
      <4>4. w \in Witnesses /\ w.host = probe.host /\ w.recs = sent
        BY <4>3 DEF Witnesses
      <4>5. \A i \in DOMAIN full : Measured(i, full[i])
        BY Zenon, <3>7, <4>2, <4>4 DEF Measured
      <4> QED
        BY Zenon, <4>1, <4>5 DEF MeasuredStep
    <3>13. ASSUME cover'.full = p.full /\ cover'.jitter = p.jitter  PROVE MeasuredStep
      BY Zenon, <3>10, <3>13 DEF MeasuredStep
    <3> QED
      BY <3>11, <3>12, <3>13
  <2> QED
    BY <2>1, <2>2
<1>4. probes' \in 0 .. MaxProbes
  BY <1>1, <1>2 DEF TypeInv
<1> QED
  BY <1>2, <1>3, <1>4, ReturnOK

-----------------------------------------------------------------------------
(* SampleFull *)

(* Both ends of the merged range are of a sample, the one in progress      *)
(* included.                                                               *)
LEMMA MergeMeasured ==
    ASSUME ProbeInv, Sampled, NEW r, r = Merge(range)
    PROVE  /\ r.n = range.n + 1
           /\ r.lo \in Seq(AppLens) /\ r.hi \in Seq(AppLens)
           /\ Len(r.lo) = Len(full) /\ Len(r.hi) = Len(full)
           /\ \A i \in DOMAIN r.lo : \E s \in Witnesses : AppRecord(s.recs, i, r.lo[i])
           /\ \A i \in DOMAIN r.hi : \E s \in Witnesses : AppRecord(s.recs, i, r.hi[i])
<1>1. /\ TypeInv /\ ResultInv /\ ~FullLeg /\ SameCount(range)
  BY DEF ProbeInv, Sampled, ResumedLegOver
<1>2. PICK f, lo, hi, n : f = full /\ lo = range.lo /\ hi = range.hi /\ n = range.n
  OBVIOUS
<1>3. /\ f \in Seq(AppLens) /\ lo \in Seq(AppLens) /\ hi \in Seq(AppLens) /\ n \in Nat
      /\ Len(lo) = Len(hi)
  BY <1>1, <1>2, SampleAssumption DEF TypeInv, RangeType
<1>4. n # 0 => Len(f) = Len(lo)
  BY <1>1, <1>2 DEF SameCount
<1>5. PICK w : w = [host |-> probe.host, recs |-> sent]
  OBVIOUS
<1>6. w \in Witnesses /\ w.recs = sent /\ samples \subseteq Witnesses
  BY <1>5 DEF Witnesses
<1>7. ASSUME NEW i \in DOMAIN f  PROVE \E s \in Witnesses : AppRecord(s.recs, i, f[i])
  <2>1. AppRecord(sent, i, f[i])
    BY <1>1, <1>2, <1>7 DEF ResultInv
  <2> QED
    BY Zenon, <1>6, <2>1
<1>8. /\ \A i \in DOMAIN lo : \E s \in Witnesses : AppRecord(s.recs, i, lo[i])
      /\ \A i \in DOMAIN hi : \E s \in Witnesses : AppRecord(s.recs, i, hi[i])
  <2>1. /\ \A i \in DOMAIN lo : \E s \in samples : AppRecord(s.recs, i, lo[i])
        /\ \A i \in DOMAIN hi : \E s \in samples : AppRecord(s.recs, i, hi[i])
    BY Zenon, <1>1, <1>2 DEF ResultInv, SampledAt
  <2> QED
    BY Zenon, <1>6, <2>1
<1>9. /\ r.n = n + 1
      /\ r.lo = IF n = 0 THEN f ELSE [i \in DOMAIN f |-> MinOf(f[i], lo[i])]
      /\ r.hi = IF n = 0 THEN f ELSE [i \in DOMAIN f |-> MaxOf(f[i], hi[i])]
  BY <1>2 DEF Merge
<1>10. CASE n = 0
  <2>1. r.lo = f /\ r.hi = f
    BY <1>9, <1>10
  <2> QED
    BY Zenon, <1>2, <1>3, <1>7, <1>9, <2>1
<1>11. CASE n # 0
  <2>1. DOMAIN f = 1 .. Len(f) /\ DOMAIN lo = DOMAIN f /\ DOMAIN hi = DOMAIN f
    BY <1>3, <1>4, <1>11
  <2>2. /\ r.lo = [i \in 1 .. Len(f) |-> MinOf(f[i], lo[i])]
        /\ r.hi = [i \in 1 .. Len(f) |-> MaxOf(f[i], hi[i])]
    BY <1>9, <1>11, <2>1
  <2>3. \A i \in DOMAIN f : /\ f[i] \in AppLens /\ lo[i] \in AppLens /\ hi[i] \in AppLens
                            /\ MinOf(f[i], lo[i]) \in {f[i], lo[i]}
                            /\ MaxOf(f[i], hi[i]) \in {f[i], hi[i]}
    BY <1>3, <2>1 DEF MinOf, MaxOf
  <2>4. /\ r.lo \in Seq(AppLens) /\ Len(r.lo) = Len(f) /\ DOMAIN r.lo = DOMAIN f
        /\ r.hi \in Seq(AppLens) /\ Len(r.hi) = Len(f) /\ DOMAIN r.hi = DOMAIN f
    <3>1. \A i \in 1 .. Len(f) : MinOf(f[i], lo[i]) \in AppLens /\ MaxOf(f[i], hi[i]) \in AppLens
      BY Zenon, <2>1, <2>3
    <3>2. Len(f) \in Nat
      BY <1>3
    <3>3. PICK a, b : /\ a = [i \in 1 .. Len(f) |-> MinOf(f[i], lo[i])]
                      /\ b = [i \in 1 .. Len(f) |-> MaxOf(f[i], hi[i])]
      OBVIOUS
    <3>4. /\ a \in Seq(AppLens) /\ Len(a) = Len(f) /\ DOMAIN a = 1 .. Len(f)
          /\ b \in Seq(AppLens) /\ Len(b) = Len(f) /\ DOMAIN b = 1 .. Len(f)
      BY ONLY <3>1, <3>2, <3>3
    <3> QED
      BY Zenon, <2>1, <2>2, <3>3, <3>4
  <2>5. ASSUME NEW i \in DOMAIN f
        PROVE  /\ \E s \in Witnesses : AppRecord(s.recs, i, r.lo[i])
               /\ \E s \in Witnesses : AppRecord(s.recs, i, r.hi[i])
    <3>1. r.lo[i] \in {f[i], lo[i]} /\ r.hi[i] \in {f[i], hi[i]}
      BY <2>1, <2>2, <2>3, <2>5
    <3> QED
      BY Zenon, <1>7, <1>8, <2>1, <2>5, <3>1
  <2> QED
    BY Zenon, <1>2, <1>9, <2>4, <2>5
<1> QED
  BY <1>10, <1>11

(* SampleFull merges a sample into the ranges. *)
LEMMA NextNextSample ==
    ASSUME ProbeInv, NextSample
    PROVE  ProbeInv' /\ cover' = cover
<1>1. /\ ProfileOK(cover) /\ TypeInv /\ TapInv /\ ResultInv
  BY DEF ProbeInv
<1>2. /\ Sampled /\ range.n + 1 < Samples /\ range' = Merge(range) /\ samples' = Witnesses
      /\ probe' = [probe EXCEPT !.pc = "dial", !.leg = "full"]
      /\ wire' = <<>> /\ tap' = NoTap /\ need' = 0 /\ banked' = FALSE
      /\ full' = <<>> /\ sent' = <<>> /\ cover' = cover /\ probes' = probes
  BY DEF NextSample
<1>3. PICK r : r = Merge(range)
  OBVIOUS
<1>4. /\ r.n = range.n + 1
      /\ r.lo \in Seq(AppLens) /\ r.hi \in Seq(AppLens)
      /\ Len(r.lo) = Len(full) /\ Len(r.hi) = Len(full)
      /\ \A i \in DOMAIN r.lo : \E s \in Witnesses : AppRecord(s.recs, i, r.lo[i])
      /\ \A i \in DOMAIN r.hi : \E s \in Witnesses : AppRecord(s.recs, i, r.hi[i])
  BY <1>2, <1>3, MergeMeasured
<1>5. range' = r
  BY <1>2, <1>3
<1>6. /\ probe' \in ProbeType /\ probe'.pc = "dial" /\ probe'.leg = "full"
      /\ probe'.host = probe.host
  <2>1. probe \in ProbeType
    BY <1>1 DEF TypeInv
  <2> QED
    BY <1>2, <2>1 DEF ProbeType, Pcs
<1>7. TypeInv'
  <2>1. NoTap \in TapType /\ NoTap.recs = <<>> /\ NoTap.frozen = -1
    BY DEF NoTap, TapType
  <2>2. (tap.frozen)' \in -1 .. Len((tap.recs)')
    BY <1>2, <2>1
  <2>3. RecordsSoFar' \in need' .. need' + MaxExtra
    BY <1>2, <2>1, ProbeBoundAssumption DEF RecordsSoFar
  <2>4. r \in RangeType
    <3>1. range.n \in 0 .. Samples - 1
      BY <1>1 DEF TypeInv, RangeType
    <3>2. range.n + 1 \in 0 .. Samples - 1
      BY <1>2, <3>1, SampleAssumption
    <3>3. r = [n |-> r.n, lo |-> r.lo, hi |-> r.hi]
      BY <1>3 DEF Merge
    <3> QED
      BY <1>4, <3>2, <3>3 DEF RangeType
  <2>5. Len(r.lo) = Len(r.hi) /\ <<>> \in Seq(WireRecords) /\ <<>> \in Seq(SentRecords) /\ <<>> \in Seq(AppLens) /\ 0 \in Nat
    BY <1>4
  <2> QED
    BY Zenon, <1>1, <1>2, <1>5, <1>6, <2>1, <2>2, <2>3, <2>4, <2>5 DEF TypeInv
<1>8. TapInv'
  BY <1>6 DEF TapInv
<1>9. ResultInv'
  <2>1. /\ \A i \in DOMAIN r.lo : SampledAt(i, r.lo[i])'
        /\ \A i \in DOMAIN r.hi : SampledAt(i, r.hi[i])'
    BY Zenon, <1>2, <1>4 DEF SampledAt, AppRecord
  <2>2. \A s \in Witnesses : s.host = probe.host
    BY <1>1 DEF Witnesses, ResultInv
  <2>3. /\ \A i \in DOMAIN (range.lo)' : SampledAt(i, (range.lo)[i])'
        /\ \A i \in DOMAIN (range.hi)' : SampledAt(i, (range.hi)[i])'
    BY Zenon, <1>5, <2>1
  <2>4. \A s \in samples' : s.host = probe'.host
    BY Zenon, <1>2, <1>6, <2>2
  <2> QED
    BY <1>6, <2>3, <2>4 DEF ResultInv, FullLeg
<1>10. ProfileOK(cover')
  BY <1>1, <1>2
<1> QED
  BY <1>2, <1>7, <1>8, <1>9, <1>10 DEF ProbeInv

(* SampleFull returns and its result is adopted. *)
LEMMA NextSampleDone ==
    ASSUME ProbeInv, SampleDone
    PROVE  ProbeInv' /\ MeasuredStep
<1>1. /\ ProfileOK(cover) /\ TypeInv /\ TapInv /\ ResultInv
  BY DEF ProbeInv
<1>2. Sampled /\ Return /\ probes' = probes
  BY DEF SampleDone
<1>3. PICK r : r = Merge(range)
  OBVIOUS
<1>4. /\ r.lo \in Seq(AppLens) /\ r.hi \in Seq(AppLens)
      /\ Len(r.lo) = Len(full) /\ Len(r.hi) = Len(full)
      /\ \A i \in DOMAIN r.lo : \E s \in Witnesses : AppRecord(s.recs, i, r.lo[i])
      /\ \A i \in DOMAIN r.hi : \E s \in Witnesses : AppRecord(s.recs, i, r.hi[i])
  BY <1>2, <1>3, MergeMeasured
<1>5. PICK lo, hi, jit : lo = r.lo /\ hi = r.hi /\ jit = Jitter(r)
  OBVIOUS
<1>6. /\ lo \in Seq(AppLens) /\ hi \in Seq(AppLens) /\ Len(lo) = Len(hi) /\ lo \in Seq(Nat)
      /\ jit = [i \in DOMAIN lo |-> hi[i] - lo[i]]
  <2>1. AppLens \subseteq Nat
    BY LensAreNat
  <2>2. lo \in Seq(Nat)
    BY Zenon, <1>4, <1>5, <2>1, SeqMonotone
  <2> QED
    BY <1>4, <1>5, <2>2 DEF Jitter
<1>7. \A i \in DOMAIN lo : i \in DOMAIN hi /\ lo[i] \in Nat /\ hi[i] \in Nat /\ hi[i] \in AppLens
  <2>1. DOMAIN lo = DOMAIN hi /\ AppLens \subseteq Nat
    BY <1>6, LensAreNat
  <2>2. \A i \in DOMAIN lo : lo[i] \in AppLens /\ hi[i] \in AppLens
    BY <1>6, <2>1
  <2> QED
    BY <2>1, <2>2
<1>8. jit \in Seq(Int) /\ \A i \in DOMAIN lo : lo[i] + jit[i] = hi[i]
  <2>1. jit = [i \in 1 .. Len(lo) |-> hi[i] - lo[i]] /\ Len(lo) \in Nat /\ DOMAIN lo = 1 .. Len(lo)
    BY <1>6
  <2>2. \A i \in 1 .. Len(lo) : hi[i] - lo[i] \in Int
    BY <1>7, <2>1
  <2>3. jit \in Seq(Int)
    BY ONLY <2>1, <2>2
  <2>4. ASSUME NEW i \in DOMAIN lo  PROVE lo[i] + jit[i] = hi[i]
    <3>1. jit[i] = hi[i] - lo[i] /\ lo[i] \in Nat /\ hi[i] \in Nat
      BY <1>6, <1>7, <2>4
    <3> QED
      BY ONLY <3>1
  <2> QED
    BY <2>3, <2>4
<1>9. PICK res : res = Result(TRUE, lo, jit)
  OBVIOUS
<1>10. res.remainder = lo /\ res.jitter = jit /\ res.host = probe.host
  BY <1>9 DEF Result
<1>11. cover' = Adopt(cover, res)
  BY Zenon, <1>3, <1>5, <1>9 DEF SampleDone
<1>12. \A i \in DOMAIN lo : lo[i] + jit[i] \in AppLens
  BY Zenon, <1>7, <1>8
<1>13. /\ ProfileOK(cover')
       /\ \/ cover'.full = cover.full /\ cover'.jitter = cover.jitter
          \/ AdoptedFull(cover, res, cover')
  BY Zenon, <1>1, <1>6, <1>8, <1>10, <1>11, <1>12, AdoptOK
<1>14. ASSUME AdoptedFull(cover, res, cover')  PROVE MeasuredStep
  <2>1. cover'.full = lo /\ cover'.jitter = jit
    BY <1>10, <1>14 DEF AdoptedFull
  <2>2. CoverFor(probe.host).host = CoverFor(cover.host).host
    BY Zenon, <1>10, <1>14 DEF AdoptedFull, SameCover
  <2>3. \A s \in Witnesses : s.host = probe.host
    BY <1>1 DEF Witnesses, ResultInv
  <2>4. \A i \in DOMAIN lo : Measured(i, lo[i]) /\ Measured(i, hi[i])
    BY Zenon, <1>4, <1>5, <1>7, <2>2, <2>3 DEF Measured
  <2>5. \A i \in DOMAIN lo : Measured(i, lo[i] + jit[i])
    BY Zenon, <1>8, <2>4
  <2> QED
    BY Zenon, <2>1, <2>4, <2>5 DEF MeasuredStep
<1>15. ASSUME cover'.full = cover.full /\ cover'.jitter = cover.jitter  PROVE MeasuredStep
  BY Zenon, <1>15 DEF MeasuredStep
<1>16. probes' \in 0 .. MaxProbes
  BY <1>1, <1>2 DEF TypeInv
<1> QED
  BY <1>2, <1>13, <1>14, <1>15, <1>16, ReturnOK

-----------------------------------------------------------------------------
(* The specification *)

(* No step of the prober breaks the profile. *)
LEMMA ProbeNextOK ==
    ASSUME ProbeInv, ProbeNext
    PROVE  ProbeInv' /\ MeasuredStep
<1>1. ASSUME cover' = cover  PROVE MeasuredStep
  BY <1>1 DEF MeasuredStep
<1>2. CASE \E caller \in {"both", "sample"}, host \in ProbeHosts : StartProbe(caller, host)
  <2>1. cover' = cover
    BY <1>2 DEF StartProbe
  <2> QED
    BY <1>1, <1>2, <2>1, NextStartProbe
<1>3. CASE Dial
  BY <1>1, <1>3, NextDial DEF Dial
<1>4. CASE SendEarly
  BY <1>1, <1>4, NextSendEarly DEF SendEarly
<1>5. CASE Read
  BY <1>1, <1>5, NextRead DEF Read
<1>6. CASE HandshakeDone
  BY <1>1, <1>6, NextHandshakeDone DEF HandshakeDone
<1>7. CASE Respond
  BY <1>1, <1>7, NextRespond DEF Respond
<1>8. CASE BankEnds
  BY <1>1, <1>8, NextBankEnds DEF BankEnds
<1>9. CASE SessionFails \/ SampleLost
  BY <1>1, <1>9, NextSessionFails
<1>10. CASE FullLegDone
  BY <1>1, <1>10, NextFullLegDone
<1>11. CASE BothDone
  BY <1>11, NextBothDone
<1>12. CASE NextSample
  BY <1>1, <1>12, NextNextSample
<1>13. CASE SampleDone
  BY <1>13, NextSampleDone
<1> QED
  BY <1>2, <1>3, <1>4, <1>5, <1>6, <1>7, <1>8, <1>9, <1>10, <1>11, <1>12, <1>13 DEF ProbeNext

(* Nothing of the prober changes during an opening. *)
LEMMA ProbeKept ==
    ASSUME UNCHANGED probeVars
    PROVE  /\ cover' = cover /\ probe' = probe /\ wire' = wire /\ tap' = tap /\ need' = need
           /\ banked' = banked /\ full' = full /\ range' = range /\ probes' = probes
           /\ sent' = sent /\ samples' = samples
BY DEF probeVars, sessionVars, resultVars, historyVars

(* No step of an opening does either. *)
LEMMA ProbeStep ==
    ProbeInv /\ [OpeningNext]_openingVars => ProbeInv' /\ (UNCHANGED probeVars \/ MeasuredStep)
<1> SUFFICES ASSUME ProbeInv, [OpeningNext]_openingVars
             PROVE  ProbeInv' /\ (UNCHANGED probeVars \/ MeasuredStep)
  OBVIOUS
<1>1. CASE ProbeNext
  BY <1>1, ProbeNextOK
<1>2. CASE UNCHANGED probeVars
  <2>1. /\ cover' = cover /\ probe' = probe /\ wire' = wire /\ tap' = tap /\ need' = need
        /\ banked' = banked /\ full' = full /\ range' = range /\ probes' = probes
        /\ sent' = sent /\ samples' = samples
    BY <1>2, ProbeKept
  <2>2. ProfileOK(cover')
    BY <2>1 DEF ProbeInv
  <2>3. RecordsSoFar' = RecordsSoFar /\ (FullLeg' <=> FullLeg)
    BY <2>1 DEF RecordsSoFar, FullLeg
  <2>4. TypeInv' /\ TapInv'
    BY <2>1, <2>3 DEF ProbeInv, TypeInv, TapInv
  <2>5. \A i, len1 : SampledAt(i, len1)' <=> SampledAt(i, len1)
    BY <2>1 DEF SampledAt, AppRecord
  <2>6. ResultInv'
    BY <2>1, <2>3, <2>5 DEF ProbeInv, ResultInv
  <2> QED
    BY <1>2, <2>2, <2>4, <2>6 DEF ProbeInv
<1>3. ProbeNext \/ UNCHANGED probeVars
  BY DEF OpeningNext, openingVars
<1> QED
  BY <1>1, <1>2, <1>3

(* The invariant of the prober. *)
LEMMA ProbeInvariant == OpeningSpec => []ProbeInv
<1>1. OpeningInit => ProbeInv
  BY ProbeInitOK DEF OpeningInit
<1>2. ProbeInv /\ [OpeningNext]_openingVars => ProbeInv'
  BY ProbeStep
<1> QED
  BY <1>1, <1>2, PTL DEF OpeningSpec

(* Every variable of the prober has its type, the recorder never holds     *)
(* more than was sent, and the profile has a plausible number of records   *)
(* with one range each (cover.go:408-430).                                 *)
THEOREM ProbeTypesHold == OpeningSpec => []ProbeTypeOK
<1>1. ProbeInv => ProbeTypeOK
  <2> SUFFICES ASSUME ProbeInv  PROVE ProbeTypeOK
    OBVIOUS
  <2>1. /\ Len(cover.full) <= maxRemainderRecords /\ Len(cover.jitter) \in {0, Len(cover.full)}
    BY DEF ProbeInv, ProfileOK, Spans
  <2>2. probe.pc \in Pcs /\ probe.leg \in {"full", "resumed"}
    BY DEF ProbeInv, TypeInv, ProbeType
  <2>3. tap.frozen \in -1 .. Len(tap.recs) /\ tap.resumed \in BOOLEAN
    BY DEF ProbeInv, TypeInv, TapType
  <2>4. range.n \in 0 .. Samples - 1 /\ Len(range.lo) = Len(range.hi)
    BY DEF ProbeInv, TypeInv, RangeType
  <2>5. RecordsSoFar \in need .. need + MaxExtra /\ banked \in BOOLEAN /\ probes \in 0 .. MaxProbes
    BY DEF ProbeInv, TypeInv
  <2> QED
    BY Zenon, <2>1, <2>2, <2>3, <2>4, <2>5 DEF ProbeTypeOK
<1> QED
  BY <1>1, ProbeInvariant, PTL

(* Whatever the upstream sends and whoever answers in its place, the       *)
(* profile of an egress is one that Client and Server accept               *)
(* (cover.go:446-450, handshake.go:265-267).                               *)
THEOREM ProfilesStayValid == OpeningSpec => []ProfileStaysValid
<1>1. ProbeInv => ProfileStaysValid
  BY DEF ProbeInv, ProfileOK, ProfileStaysValid
<1> QED
  BY <1>1, ProbeInvariant, PTL

(* A full remainder that is adopted, and both ends of its range, are       *)
(* lengths that this cover sent at that position before the client's       *)
(* Finished, in a sample of this probe (coverprobe.go:180-185, 298-351).   *)
THEOREM AdoptionIsMeasured == OpeningSpec => AdoptsMeasured
<1>1. ProbeInv /\ [OpeningNext]_openingVars => [MeasuredStep]_probeVars
  BY ProbeStep
<1> QED
  BY <1>1, ProbeInvariant, PTL DEF OpeningSpec, AdoptsMeasured, MeasuredStep

-----------------------------------------------------------------------------
(* Openings *)

(* The hello of an opening keeps its session id, the configuration was     *)
(* accepted, and the remainder to write is of the profile.                 *)
OpenFields == {"pc", "cfg", "full", "drawn", "hello", "left"}

(* The full remainder goes on with a length drawn from a refused record. *)
AtRefused == open.full /\ DrawnFromRefused(RemainderCount(TRUE) - open.left + 1)

InProgress ==
    /\ DOMAIN open = OpenFields
    /\ IsHello(open.hello)
    /\ Valid(open.cfg.cover)
    /\ open.drawn.session # <<>> => open.hello.session # <<>>
    /\ open.pc = "remainder" => open.left \in 0 .. RemainderCount(open.full)
    /\ open.pc = "broken" => open.drawn.session = <<>> \/ AtRefused

OpenInv == open.pc \notin {"idle", "refused"} => InProgress

(* The rewriting steps keep a hello a hello and its session id present. *)
KeepsSession(g, h) == IsHello(g) /\ (h.session # <<>> => g.session # <<>>)

(* An extension is replaced. *)
LEMMA PutKeeps ==
    ASSUME NEW h, IsHello(h), NEW t, NEW d
    PROVE  KeepsSession(Put(h, t, d), h)
<1>1. PICK exts : exts = [h.exts EXCEPT ![Pos(h, t)] = <<t, d>>]
  OBVIOUS
<1>2. Put(h, t, d) = [h EXCEPT !.exts = exts]
  BY <1>1 DEF Put
<1> QED
  BY <1>2 DEF IsHello, KeepsSession

(* An extension is dropped. *)
LEMMA DropKeeps ==
    ASSUME NEW h, IsHello(h), NEW t
    PROVE  KeepsSession(dropExtension(h, t), h)
<1>1. PICK exts : dropExtension(h, t) = [h EXCEPT !.exts = exts]
  BY DEF dropExtension
<1> QED
  BY <1>1 DEF IsHello, KeepsSession

(* The ticket becomes the pre_shared_key. *)
LEMMA PSKKeeps ==
    ASSUME NEW h, IsHello(h), NEW ticket, NEW binder
    PROVE  KeepsSession(setPSK(h, ticket, binder), h)
<1>1. PICK exts : setPSK(h, ticket, binder) = [h EXCEPT !.exts = exts]
  BY DEF setPSK
<1> QED
  BY <1>1 DEF IsHello, KeepsSession

(* The ticket becomes the ECH payload. *)
LEMMA ECHKeeps ==
    ASSUME NEW h, IsHello(h), NEW ticket
    PROVE  KeepsSession(SetECHTicketAuth(h, ticket), h)
<1>1. PICK payload : payload = [Find(h, "ech") EXCEPT !.payload = <<"ticket", ticket.psk>>]
  OBVIOUS
<1>2. PICK carrying : carrying = Put(h, "ech", payload)
  OBVIOUS
<1>3. PICK mac : mac = MAC(carrying, ticket.psk)
  OBVIOUS
<1>4. SetECHTicketAuth(h, ticket) = [carrying EXCEPT !.random = mac]
  BY Zenon, <1>1, <1>2, <1>3 DEF SetECHTicketAuth
<1>5. KeepsSession(carrying, h)
  BY <1>2, PutKeeps
<1> QED
  BY <1>4, <1>5 DEF IsHello, KeepsSession

(* The fields of a connection are drawn anew. *)
LEMMA RerandomizeKeeps ==
    ASSUME NEW h, IsHello(h), NEW d
    PROVE  KeepsSession(Rerandomize(h, d), h)
<1>1. PICK exts : exts = [i \in DOMAIN h.exts |-> Redrawn(h, d, i)]
  OBVIOUS
<1>2. PICK session : session = IF h.session = <<>> THEN <<>> ELSE FreshValue
  OBVIOUS
<1>3. Rerandomize(h, d) = [h EXCEPT !.random = FreshValue, !.session = session, !.exts = exts]
  BY <1>1, <1>2 DEF Rerandomize
<1>4. h.session # <<>> => session # <<>>
  BY <1>2 DEF FreshValue
<1> QED
  BY <1>3, <1>4 DEF IsHello, KeepsSession

(* The extensions change places. *)
LEMMA ShuffleKeeps ==
    ASSUME NEW h, IsHello(h), NEW perm
    PROVE  KeepsSession(Shuffle(h, perm), h)
<1>1. PICK exts : exts = [i \in DOMAIN h.exts |-> IF i \in Interior(h) THEN h.exts[perm[i]] ELSE h.exts[i]]
  OBVIOUS
<1>2. Shuffle(h, perm) = [h EXCEPT !.exts = exts]
  BY <1>1 DEF Shuffle
<1> QED
  BY <1>2 DEF IsHello, KeepsSession

(* The tapped values are blanked. *)
LEMMA SanitizeKeeps ==
    ASSUME NEW h, IsHello(h)
    PROVE  IsHello(Sanitize(h))
<1>1. PICK exts : Sanitize(h) = Blanked(h, exts)
  BY DEF Sanitize
<1> QED
  BY <1>1 DEF Blanked, IsHello

(* What Twiddle's steps make of the hello in progress. *)
LEMMA AuthenticatedKeeps ==
    ASSUME IsHello(open.hello)
    PROVE  KeepsSession(Authenticated, open.hello)
<1>1. PICK t : t = Template
  OBVIOUS
<1>2. KeepsSession(t, open.hello)
  BY <1>1, DropKeeps DEF Template, KeepsSession
<1>3. IsHello(t)
  BY <1>2 DEF KeepsSession
<1>4. PICK g : g = Authenticated
  OBVIOUS
<1>5. KeepsSession(g, t)
  <2>1. CASE open.full
    <3>1. g = SetECHTicketAuth(t, Ticket("psk", open.cfg.cred.companion))
      BY <1>1, <1>4, <2>1 DEF Authenticated
    <3> QED
      BY <1>3, <3>1, ECHKeeps
  <2>2. CASE ~open.full
    <3>1. \E ticket, binder : g = setPSK(t, ticket, binder)
      BY Zenon, <1>1, <1>4, <2>2 DEF Authenticated, SetTicketAuth
    <3> QED
      BY <1>3, <3>1, PSKKeeps
  <2> QED
    BY <2>1, <2>2
<1> QED
  BY <1>2, <1>4, <1>5 DEF KeepsSession

(* What a server may draw, and the client's flight, fit a record. *)
LEMMA TableFits ==
    ASSUME NEW h, HasCover(h)
    PROVE  /\ CoverFor(h).resumed \in {<<64>>, <<32, 74>>}
           /\ CoverFor(h).flight \in {145, 149, 164}
<1> DEFINE n == Lower[h]
<1>1. CASE n \in MeasuredCovers
  <2>1. CoverFor(h) = covers[n]
    BY <1>1 DEF CoverFor
  <2>2. covers[n] \in {Profile(n, "aes128", 32, 176, TRUE, <<64>>, 149),
                       Profile(n, "aes128", 32, 230, TRUE, <<64>>, 145),
                       Profile(n, "aes256", 48, 256, FALSE, <<32, 74>>, 164)}
    <3>1. n \in {"www.cloudflare.com", "www.google.com", "www.microsoft.com"}
      BY <1>1 DEF MeasuredCovers
    <3>2. covers[n] =
             CASE n = "www.cloudflare.com" -> Profile(n, "aes128", 32, 176, TRUE, <<64>>, 149)
               [] n = "www.google.com"     -> Profile(n, "aes128", 32, 230, TRUE, <<64>>, 145)
               [] n = "www.microsoft.com"  -> Profile(n, "aes256", 48, 256, FALSE, <<32, 74>>, 164)
      BY <1>1 DEF covers
    <3> HIDE DEF n
    <3> QED
      BY <3>1, <3>2
  <2> QED
    BY <2>1, <2>2 DEF Profile
<1>2. CASE n \notin MeasuredCovers
  <2>1. CoverFor(h) = Profile(n, "aes128", 32, DefaultTicketLen, FALSE, <<64>>, 149)
    BY <1>2 DEF CoverFor
  <2> QED
    BY <2>1 DEF Profile
<1> QED
  BY <1>1, <1>2

(* What a valid profile sends fits a record. *)
LEMMA ValidFits ==
    ASSUME NEW p, Valid(p)
    PROVE  /\ p.resumed \in {<<64>>, <<32, 74>>}
           /\ p.flight \in {145, 149, 164}
           /\ Fits(ClientEncryptedWire(p))
<1>1. p.resumed = CoverFor(p.host).resumed /\ p.flight = CoverFor(p.host).flight
  BY DEF Valid
<1>2. p.resumed \in {<<64>>, <<32, 74>>} /\ p.flight \in {145, 149, 164}
  BY <1>1, TableFits DEF Valid
<1>3. \A n \in {145, 149, 164} : Fits(n - ChangeCipherSpecLen)
  BY DEF Fits, ChangeCipherSpecLen, recordHeaderLen, tagLen, maxInner
<1> QED
  BY <1>2, <1>3, Zenon DEF ClientEncryptedWire

(* A measured length fits, or is of a record that crypto/tls refused. *)
LEMMA FitsOrRefused ==
    ASSUME NEW n \in AppLens
    PROVE  n \in Nat /\ (Fits(n) \/ n \in RefusedLens)
<1>1. n \in Nat
  BY LensAreNat
<1>2. CASE n \in AcceptedLens
  BY <1>1, <1>2 DEF AcceptedLens
<1>3. CASE n \notin AcceptedLens
  BY <1>1, <1>3 DEF AppLens, EarlyLens, RefusedLens
<1> QED
  BY <1>2, <1>3

(* So does every length drawn from a probed profile, where both ends of    *)
(* its range do.                                                           *)
LEMMA DrawnFits ==
    ASSUME ProbeInv, NEW isFull, NEW i \in 1 .. RemainderCount(isFull), NEW n \in Drawable(isFull, i)
    PROVE  Fits(n) \/ (isFull /\ DrawnFromRefused(i))
<1>1. ProfileOK(cover)
  BY DEF ProbeInv
<1>2. CASE isFull
  <2>1. PICK f, j : f = cover.full /\ j = cover.jitter
    OBVIOUS
  <2>2. f \in Seq(AppLens) /\ j \in Seq(Int) /\ i \in 1 .. Len(f)
    BY <1>1, <1>2, <2>1 DEF ProfileOK, ProfileType, RemainderCount
  <2>3. PICK low, top : low = f[i] /\ top = low + (IF j = <<>> THEN 0 ELSE j[i])
    OBVIOUS
  <2>4. low \in AppLens /\ low \in Nat
    <3>1. low \in AppLens
      BY <2>2, <2>3
    <3> QED
      BY <3>1, FitsOrRefused
  <2>5. top \in AppLens
    <3>1. CASE j = <<>>
      BY <2>3, <2>4, <3>1
    <3>2. CASE j # <<>>
      BY <1>1, <2>1, <2>2, <2>3, <3>2 DEF ProfileOK, Spans
    <3> QED
      BY <3>1, <3>2
  <2>6. n \in low .. top
    BY <1>2, <2>1, <2>3 DEF Drawable, DrawFullRemainder
  <2>7. RangeEnds(i) = {low, top}
    BY <2>1, <2>3 DEF RangeEnds
  <2>8. CASE low \in RefusedLens \/ top \in RefusedLens
    BY <1>2, <2>7, <2>8 DEF DrawnFromRefused
  <2>9. CASE low \notin RefusedLens /\ top \notin RefusedLens
    <3>1. low \in Nat /\ top \in Nat /\ Fits(low) /\ Fits(top)
      BY <2>4, <2>5, <2>9, FitsOrRefused
    <3>2. \A k \in Int : Fits(k) <=> k >= 22 /\ k <= 16406
      BY DEF Fits, recordHeaderLen, tagLen, maxInner
    <3>3. n \in Int /\ n >= low /\ n <= top
      BY ONLY <2>6, <3>1
    <3>4. n >= 22 /\ n <= 16406
      BY ONLY <3>1, <3>2, <3>3
    <3> QED
      BY <3>2, <3>3, <3>4
  <2> QED
    BY <2>8, <2>9
<1>3. CASE ~isFull
  <2>1. cover.resumed \in {<<64>>, <<32, 74>>}
    BY <1>1, ValidFits DEF ProfileOK
  <2>2. n = cover.resumed[i] /\ i \in 1 .. Len(cover.resumed)
    BY <1>3 DEF Drawable, RemainderCount
  <2>3. n \in {64, 32, 74}
    BY <2>1, <2>2
  <2> QED
    BY <2>3 DEF Fits, recordHeaderLen, tagLen, maxInner
<1> QED
  BY <1>2, <1>3

(* A step of an opening: its record keeps its fields and configuration. *)
LEMMA OpenClient ==
    ASSUME Client
    PROVE  OpenInv'
<1>1. PICK capture \in Captures : \E cfg \in Configs(capture) : ClientRefuses(cfg) \/ ClientPicks(cfg)
  BY DEF Client
<1>2. PICK cfg \in Configs(capture) : ClientRefuses(cfg) \/ ClientPicks(cfg)
  BY <1>1
<1>3. CASE ClientRefuses(cfg)
  BY <1>3 DEF ClientRefuses, OpenInv
<1>4. CASE ClientPicks(cfg)
  <2>1. PICK h \in Candidates(cfg) :
           open' = [pc |-> "sni", cfg |-> cfg, full |-> Full(cfg), drawn |-> h, hello |-> h,
                    left |-> 0]
    BY <1>4 DEF ClientPicks
  <2>2. Valid(cfg.cover)
    BY <1>4 DEF ClientPicks, ConfigAccepted
  <2>3. h \in cfg.pool
    BY DEF Candidates, FullHandshakeCarriers
  <2>4. cfg.pool = DevicePool(capture) \/ cfg.pool = capture
    <3>1. \E p \in ClientCovers : \E device \in BOOLEAN, want \in {"resumed", "contacts", "full"},
                                     cred \in Credentials(p) :
             cfg = [pool |-> IF device THEN DevicePool(capture) ELSE capture, device |-> device,
                    want |-> want, cover |-> p, cred |-> cred]
      BY DEF Configs
    <3> QED
      BY <3>1
  <2>5. IsHello(h)
    <3>0. \A c \in capture : IsHello(c)
      BY Zenon, CaptureAssumption DEF IsBrowsers, IsParsed
    <3>1. CASE h \in capture
      BY <3>0, <3>1
    <3>2. CASE h \in DevicePool(capture)
      <4>1. PICK c \in capture : h = Sanitize(c)
        BY <3>2 DEF DevicePool
      <4> QED
        BY <3>0, <4>1, SanitizeKeeps
    <3> QED
      BY <2>3, <2>4, <3>1, <3>2
  <2>6. /\ DOMAIN open' = OpenFields /\ open'.hello = h /\ open'.drawn = h /\ open'.cfg = cfg
        /\ open'.pc = "sni"
    BY <2>1 DEF OpenFields
  <2> QED
    BY <2>2, <2>5, <2>6 DEF OpenInv, InProgress
<1> QED
  BY <1>2, <1>3, <1>4

(* The client builds its hello. *)
LEMMA OpenTwiddle ==
    ASSUME OpenInv, Twiddle
    PROVE  OpenInv'
<1>1. \E pc \in {"sni", "rerandomize", "shuffle", "keyshare", "auth"} : \E h :
         Step(pc, h) /\ (IsHello(open.hello) => KeepsSession(h, open.hello))
  <2>1. CASE Step("sni", SetSNI(open.hello, open.cfg.cover.host))
    BY <2>1, PutKeeps DEF SetSNI
  <2>2. CASE \E d \in Draws(open.hello) : Step("rerandomize", Rerandomize(open.hello, d))
    BY <2>2, RerandomizeKeeps
  <2>3. CASE \E perm \in Bijection(Interior(open.hello), Interior(open.hello)) :
                Step("shuffle", Shuffle(open.hello, perm))
    BY <2>3, ShuffleKeeps
  <2>4. CASE Step("keyshare", SetKeyShare(open.hello))
    BY <2>4, PutKeeps DEF SetKeyShare
  <2>5. CASE Step("auth", Authenticated)
    BY <2>5, AuthenticatedKeeps
  <2> QED
    BY Zenon, <2>1, <2>2, <2>3, <2>4, <2>5 DEF Twiddle
<1>a. PICK pc \in {"sni", "rerandomize", "shuffle", "keyshare", "auth"} : \E h :
         Step(pc, h) /\ (IsHello(open.hello) => KeepsSession(h, open.hello))
  BY <1>1
<1>2. PICK h : Step(pc, h) /\ (IsHello(open.hello) => KeepsSession(h, open.hello))
  BY <1>a
<1>3. open.pc = pc /\ open' = [open EXCEPT !.pc = After(pc), !.hello = h]
  BY <1>2 DEF Step
<1>4. InProgress
  BY <1>2, <1>3 DEF OpenInv
<1>5. After(pc) \in {"rerandomize", "shuffle", "keyshare", "auth", "wire"}
  BY <1>2 DEF After
<1>6. /\ DOMAIN open' = OpenFields /\ open'.pc = After(pc) /\ open'.hello = h
      /\ open'.cfg = open.cfg /\ open'.drawn = open.drawn
  BY <1>3, <1>4 DEF InProgress, OpenFields
<1>7. KeepsSession(h, open.hello)
  BY <1>2, <1>4 DEF InProgress
<1> QED
  BY <1>4, <1>5, <1>6, <1>7 DEF OpenInv, InProgress, KeepsSession

(* A step that only moves on. *)
LEMMA OpenMoves ==
    ASSUME InProgress, NEW pc, open' = [open EXCEPT !.pc = pc],
           pc \notin {"idle", "refused", "remainder"},
           pc = "broken" => open.drawn.session = <<>>
    PROVE  OpenInv'
<1>1. /\ DOMAIN open' = OpenFields /\ open'.pc = pc /\ open'.hello = open.hello
      /\ open'.cfg = open.cfg /\ open'.drawn = open.drawn
  BY DEF InProgress, OpenFields
<1> QED
  BY <1>1 DEF OpenInv, InProgress

(* The egress answers, and the client finishes. *)
LEMMA OpenServer ==
    ASSUME ProbeInv, OpenInv, cover' = cover,
           ServerReads \/ ServerAnswers \/ ServerWritesRemainder \/ ClientFinishes \/ TwiddleFails
    PROVE  OpenInv'
<1>1. InProgress
  BY DEF OpenInv, ServerReads, ServerAnswers, ServerWritesRemainder, ClientFinishes, TwiddleFails
<1>2. CASE ServerReads
  BY <1>1, <1>2, OpenMoves DEF ServerReads
<1>3. CASE TwiddleFails
  BY <1>1, <1>3, OpenMoves DEF TwiddleFails
<1>4. CASE ClientFinishes
  <2>1. Fits(ClientEncryptedWire(open.cfg.cover))
    BY <1>1, ValidFits DEF InProgress
  <2>2. open' = [open EXCEPT !.pc = "complete"]
    BY <1>4, <2>1 DEF ClientFinishes
  <2> QED
    BY <1>1, <2>2, OpenMoves
<1>5. \A isFull : RemainderCount(isFull) \in Nat /\ RemainderCount(isFull)' = RemainderCount(isFull)
  <2>1. cover.full \in Seq(AppLens) /\ cover.resumed \in Seq(Nat)
    BY DEF ProbeInv, ProfileOK, ProfileType
  <2> QED
    BY <2>1 DEF RemainderCount
<1>6. CASE ServerAnswers
  <2>1. CASE CanSynthesize(open.hello)
    <3>1. PICK count : count = RemainderCount(open.full)
      OBVIOUS
    <3>2. open' = [open EXCEPT !.pc = "remainder", !.left = count]
      BY <1>6, <2>1, <3>1 DEF ServerAnswers
    <3>3. /\ DOMAIN open' = OpenFields /\ open'.pc = "remainder" /\ open'.hello = open.hello
          /\ open'.cfg = open.cfg /\ open'.drawn = open.drawn /\ open'.full = open.full
          /\ open'.left = count
      BY <1>1, <3>2 DEF InProgress, OpenFields
    <3>4. count \in Nat /\ RemainderCount(open.full)' = count
      BY <1>5, <3>1, <3>3 DEF RemainderCount
    <3>5. count \in 0 .. count
      BY <3>4
    <3> QED
      BY <1>1, <3>3, <3>4, <3>5 DEF OpenInv, InProgress
  <2>2. CASE ~CanSynthesize(open.hello)
    <3>1. open' = [open EXCEPT !.pc = "broken"]
      BY <1>6, <2>2 DEF ServerAnswers
    <3>2. open.drawn.session = <<>>
      BY <1>1, <2>2 DEF CanSynthesize, InProgress
    <3> QED
      BY <1>1, <3>1, <3>2, OpenMoves
  <2> QED
    BY <2>1, <2>2
<1>7. CASE ServerWritesRemainder
  <2>1. PICK count, left : count = RemainderCount(open.full) /\ left = open.left
    OBVIOUS
  <2>2. count \in Nat /\ left \in 0 .. count /\ left > 0
    BY <1>1, <1>5, <1>7, <2>1 DEF InProgress, ServerWritesRemainder
  <2>3. PICK n \in Drawable(open.full, count - left + 1) :
           open' = IF Fits(n) THEN [open EXCEPT !.left = left - 1] ELSE [open EXCEPT !.pc = "broken"]
    BY <1>7, <2>1 DEF ServerWritesRemainder
  <2>4. count - left + 1 \in 1 .. count
    BY ONLY <2>2
  <2>5. CASE ~Fits(n)
    <3>1. open' = [open EXCEPT !.pc = "broken"]
      BY <2>3, <2>5
    <3>2. /\ DOMAIN open' = OpenFields /\ open'.pc = "broken" /\ open'.hello = open.hello
          /\ open'.cfg = open.cfg /\ open'.drawn = open.drawn /\ open'.full = open.full
          /\ open'.left = left
      BY <1>1, <2>1, <3>1 DEF InProgress, OpenFields
    <3>3. open.full /\ DrawnFromRefused(count - left + 1)
      BY <2>1, <2>3, <2>4, <2>5, DrawnFits
    <3>4. AtRefused'
      <4>1. RemainderCount(open.full) = RemainderCount(TRUE)
        BY <3>3 DEF RemainderCount
      <4>2. \A i : DrawnFromRefused(i)' <=> DrawnFromRefused(i)
        BY DEF DrawnFromRefused, RangeEnds, RefusedLens
      <4>3. RemainderCount(TRUE)' = RemainderCount(TRUE)
        BY DEF RemainderCount
      <4>4. (RemainderCount(TRUE) - open.left + 1)' = count - left + 1
        BY <2>1, <3>2, <4>1, <4>3
      <4> QED
        BY Zenon, <3>2, <3>3, <4>2, <4>4 DEF AtRefused
    <3> QED
      BY <1>1, <3>2, <3>4 DEF OpenInv, InProgress
  <2>6. CASE Fits(n)
    <3>1. open' = [open EXCEPT !.left = left - 1]
      BY <2>3, <2>6
    <3>2. /\ DOMAIN open' = OpenFields /\ open'.pc = open.pc /\ open'.hello = open.hello
          /\ open'.cfg = open.cfg /\ open'.drawn = open.drawn /\ open'.full = open.full
          /\ open'.left = left - 1
      BY <1>1, <3>1 DEF InProgress, OpenFields
    <3>3. left - 1 \in 0 .. count
      BY ONLY <2>2
    <3>4. RemainderCount(open.full)' = count
      BY <1>5, <2>1, <3>2 DEF RemainderCount
    <3>5. open'.pc = "remainder"
      BY <1>7, <3>2 DEF ServerWritesRemainder
    <3> QED
      BY <1>1, <3>2, <3>3, <3>4, <3>5 DEF OpenInv, InProgress
  <2> QED
    BY <2>5, <2>6
<1> QED
  BY <1>2, <1>3, <1>4, <1>6, <1>7

(* No step breaks the opening. *)
LEMMA OpenStep ==
    ProbeInv /\ OpenInv /\ [OpeningNext]_openingVars => OpenInv'
<1> SUFFICES ASSUME ProbeInv, OpenInv, [OpeningNext]_openingVars  PROVE OpenInv'
  OBVIOUS
<1>1. CASE open = NoOpening /\ open' = open
  BY <1>1 DEF NoOpening, OpenInv
<1>2. CASE Client
  BY <1>2, OpenClient
<1>3. CASE Twiddle
  BY <1>3, OpenTwiddle
<1>4. CASE /\ ServerReads \/ ServerAnswers \/ ServerWritesRemainder \/ ClientFinishes \/ TwiddleFails
           /\ UNCHANGED probeVars
  BY <1>4, ProbeKept, OpenServer
<1>5. CASE NextOpening
  BY <1>5 DEF NextOpening, NoOpening, OpenInv
<1>6. CASE UNCHANGED openingVars
  <2>1. open' = open /\ cover' = cover
    BY <1>6 DEF openingVars, probeVars
  <2>2. RemainderCount(open.full)' = RemainderCount(open.full)
    BY <2>1 DEF RemainderCount
  <2>3. AtRefused' <=> AtRefused
    BY <2>1 DEF AtRefused, DrawnFromRefused, RangeEnds, RefusedLens, RemainderCount
  <2> QED
    BY <2>1, <2>2, <2>3 DEF OpenInv, InProgress
<1> QED
  BY <1>1, <1>2, <1>3, <1>4, <1>5, <1>6 DEF OpeningNext

(* Once the ticket is spent, the opening is left unanswered only for a     *)
(* hello without a session id, and at a record whose range has an end that *)
(* the prober read ahead and crypto/tls refused: every other length that   *)
(* the egress may draw from what it probed, and the client's flight, are   *)
(* ones that writeSized accepts (handshake.go:298-354,                     *)
(* coverprobe.go:240-256).                                                 *)
THEOREM SpentTicketsAreAnswered == OpeningSpec => []SpentIsAnswered
<1>1. OpeningInit => OpenInv
  BY DEF OpeningInit, NoOpening, OpenInv
<1>2. ProbeInv /\ OpenInv /\ [OpeningNext]_openingVars => OpenInv'
  BY OpenStep
<1>3. OpenInv => SpentIsAnswered
  BY DEF OpenInv, InProgress, AtRefused, SpentIsAnswered
<1> QED
  BY <1>1, <1>2, <1>3, ProbeInvariant, PTL DEF OpeningSpec
=============================================================================
