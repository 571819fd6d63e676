----------------------------- MODULE CoverProbe -----------------------------
(***************************************************************************)
(* The cover prober (harvest/coverprobe): an egress measures the opening   *)
(* of the server it imitates and adopts what it measured into its profile. *)
(* One session of a probe is a TLS connection through a recorder that cuts *)
(* the inbound bytes into records: a full handshake, after which a request *)
(* banks a ticket, then a handshake that presents the ticket.  SampleFull  *)
(* repeats the pair and keeps the range of every record.                   *)
(*                                                                         *)
(* crypto/tls and the upstream are outside: they choose the records, how   *)
(* far the client reads ahead of the handshake, when a session fails and   *)
(* whether it resumes.  The recorder sits below crypto/tls and counts a    *)
(* record when its bytes arrive, whatever crypto/tls makes of it later.    *)
(***************************************************************************)
EXTENDS FiniteSets, Cover

CONSTANTS
    EgressHosts,    \* hosts of the egress's profile
    ProbeHosts,     \* hosts an egress may ask to be probed
    Openings,       \* full openings of an upstream: sequences of [typ, len]
    Resumptions,    \* resumed openings
    Early,          \* records that arrive behind the opening, before the
                    \* client's Finished: of the server or injected
    Responses,      \* lengths of what answers the banking request
    Samples,        \* n of SampleFull
    MaxExtra,       \* bound: records of one session beyond its opening
    MaxProbes       \* bound: probes of one egress

ASSUME SampleAssumption == Samples \in Nat \ {0, 1}
ASSUME ProbeBoundAssumption == MaxExtra \in Nat /\ MaxProbes \in Nat

(* An egress has a profile: CoverFor returns an error for any other host.  *)
ASSUME EgressAssumption == \A h \in EgressHosts : HasCover(h)

(* The recorder counts any record: its length on the wire is the header    *)
(* and what the header says.  Of the opening crypto/tls has accepted every *)
(* record when the handshake is complete, so that an application record    *)
(* has a tag, a content type and at most 2^14 bytes of content.  Nothing   *)
(* is known of a record that was read ahead of the handshake, or answers   *)
(* the banking request: crypto/tls looks at it after the freeze, and its   *)
(* refusal only ends the banking loop.                                     *)
RecordLens == recordHeaderLen .. recordHeaderLen + 65535
RecordsOf(appLens) == [typ : {"handshake", "ccs", "alert"}, len : RecordLens]
                        \cup [typ : {"app"}, len : appLens]
WireRecords  == RecordsOf(RecordLens)
AcceptedLens == {n \in RecordLens : Fits(n)}
ASSUME UpstreamAssumption == /\ Openings \cup Resumptions \subseteq Seq(RecordsOf(AcceptedLens))
                             /\ Early \subseteq WireRecords /\ Responses \subseteq RecordLens

VARIABLES
    cover,      \* CoverProfile of the egress
    probe,      \* the call in progress: pc, caller ("both" or "sample"), host, leg
    wire,       \* records the upstream sent that the recorder has not read
    tap,        \* recorder: recs, how many are frozen (-1: none), resumed
    need,       \* records crypto/tls reads before the handshake is complete
    banked,     \* the session cache holds a ticket
    full,       \* remainder of ProbeBoth's full result
    range,      \* SampleFull: samples so far, lo, hi
    probes,     \* probes so far
    sent,       \* history: the records of the full session that the upstream
                \* sent before the client's Finished
    samples     \* history: host and sent of every sample of this probe

sessionVars == <<wire, tap, need>>
resultVars  == <<full, range>>
historyVars == <<sent, samples>>
probeVars   == <<cover, probe, sessionVars, banked, resultVars, probes, historyVars>>

Idle     == [pc |-> "idle", caller |-> "none", host |-> "none", leg |-> "full"]
NoTap    == [recs |-> <<>>, frozen |-> -1, resumed |-> FALSE]
NoRange  == [n |-> 0, lo |-> <<>>, hi |-> <<>>]

ProbeInit ==
    /\ cover \in {CoverFor(h) : h \in EgressHosts}
    /\ probe = Idle
    /\ wire = <<>> /\ tap = NoTap /\ need = 0
    /\ banked = FALSE
    /\ full = <<>> /\ range = NoRange
    /\ probes = 0
    /\ sent = <<>> /\ samples = {}

-----------------------------------------------------------------------------
(* session *)

Lengths(recs) == [i \in DOMAIN recs |-> recs[i].len]
FullLeg       == probe.leg = "full"

(* dial: the upstream answers with an opening, a resumed one only to a     *)
(* ticket.  Where it declines, another server answers in full.             *)
Dial ==
    /\ probe.pc = "dial"
    /\ \E resumed \in {FALSE} \cup {banked /\ ~FullLeg} :
       \E opening \in IF resumed THEN Resumptions ELSE Openings :
          /\ wire' = opening
          /\ need' = Len(opening)
          /\ tap' = [NoTap EXCEPT !.resumed = resumed]
          /\ sent' = IF FullLeg THEN opening ELSE sent
    /\ probe' = [probe EXCEPT !.pc = "handshake"]
    /\ UNCHANGED <<cover, banked, resultVars, probes, samples>>

RecordsSoFar == Len(tap.recs) + Len(wire)

(* A record arrives before the upstream has the client's Finished. *)
SendEarly ==
    /\ probe.pc = "handshake" /\ RecordsSoFar < need + MaxExtra
    /\ \E record \in Early :
          /\ wire' = Append(wire, record)
          /\ sent' = IF FullLeg THEN Append(sent, record) ELSE sent
    /\ UNCHANGED <<cover, probe, tap, need, banked, resultVars, probes, samples>>

(* recorder.Read: one more whole record, of whatever type and length. *)
Read ==
    /\ probe.pc \in {"handshake", "bank"}
    /\ wire # <<>>
    /\ tap' = [tap EXCEPT !.recs = Append(@, Head(wire))]
    /\ wire' = Tail(wire)
    /\ UNCHANGED <<cover, probe, need, banked, resultVars, probes, historyVars>>

(* recorder.freeze *)
FreezeNever == -1
Freeze == Len(tap.recs)

(* HandshakeContext returns and the record list is frozen; a session that  *)
(* banks sends its request.                                                *)
HandshakeDone ==
    /\ probe.pc = "handshake"
    /\ Len(tap.recs) >= need
    /\ tap' = [tap EXCEPT !.frozen = Freeze]
    /\ probe' = [probe EXCEPT !.pc = IF FullLeg THEN "bank" ELSE "close"]
    /\ UNCHANGED <<cover, wire, need, banked, resultVars, probes, historyVars>>

(* The upstream issues a ticket or answers the request. *)
Respond ==
    /\ probe.pc = "bank"
    /\ RecordsSoFar < need + MaxExtra
    /\ \E len \in Responses : wire' = Append(wire, [typ |-> "app", len |-> len])
    /\ UNCHANGED <<cover, probe, tap, need, banked, resultVars, probes, historyVars>>

(* The banking loop ends with the response, its two seconds or an error,   *)
(* which is dropped: a record that crypto/tls refuses, read ahead or not,  *)
(* is one.  A record behind the handshake, read ahead or not, may have     *)
(* been a ticket.                                                          *)
BankEnds ==
    /\ probe.pc = "bank"
    /\ probe' = [probe EXCEPT !.pc = "close"]
    /\ banked' \in {FALSE, Len(tap.recs) > need}
    /\ UNCHANGED <<cover, sessionVars, resultVars, probes, historyVars>>

(* The call returns: with an error nothing is adopted. *)
Return ==
    /\ probe' = Idle
    /\ wire' = <<>> /\ tap' = NoTap /\ need' = 0
    /\ banked' = FALSE
    /\ full' = <<>> /\ range' = NoRange
    /\ sent' = <<>> /\ samples' = {}

(* dial, HandshakeContext or Close fails. *)
SessionFails ==
    /\ probe.pc \in {"dial", "handshake", "close"}
    /\ Return
    /\ UNCHANGED <<cover, probes>>

-----------------------------------------------------------------------------
(* ProbeBoth *)

ServerRecords == IF tap.frozen = -1 THEN tap.recs ELSE SubSeq(tap.recs, 1, tap.frozen)

(* readOpening: ServerHello, ChangeCipherSpec, then application records up *)
(* to the first of another type, which is not an alert.                    *)
FirstOther(recs) == SelectInSeq(SubSeq(recs, 3, Len(recs)), LAMBDA r : r.typ # "app")
Remainder(recs) ==
    LET rest == SubSeq(recs, 3, Len(recs))
    IN  Lengths(IF FirstOther(recs) = 0 THEN rest ELSE SubSeq(rest, 1, FirstOther(recs) - 1))

OpeningRead(recs, serverHelloLen) ==
    /\ Len(recs) >= 3
    /\ recs[1] = [typ |-> "handshake", len |-> serverHelloLen]
    /\ recs[2].typ = "ccs"
    /\ FirstOther(recs) # 0 => recs[FirstOther(recs) + 2].typ # "alert"
    /\ Remainder(recs) # <<>>

Result(isFull, remainder, jitter) ==
    LET sh == IF isFull THEN ServerHelloFullLen ELSE ServerHelloResumedLen
    IN  [host |-> probe.host, full |-> isFull, sh |-> sh, remainder |-> remainder,
         jitter |-> jitter, burst |-> sh + ChangeCipherSpecLen + Total(remainder)]

(* history: the samples of this probe with the one in progress. *)
Witnesses == samples \cup {[host |-> probe.host, recs |-> sent]}

(* The full session is over: its opening is read and the resumed one       *)
(* begins, with a recorder of its own.  The cache was empty, so it did not *)
(* resume.                                                                 *)
FullLegDone ==
    /\ probe.pc = "close" /\ FullLeg
    /\ IF OpeningRead(ServerRecords, ServerHelloFullLen)
       THEN /\ full' = Remainder(ServerRecords)
            /\ probe' = [probe EXCEPT !.pc = "dial", !.leg = "resumed"]
            /\ wire' = <<>> /\ tap' = NoTap /\ need' = 0
            /\ UNCHANGED <<banked, range, sent, samples>>
       ELSE Return
    /\ UNCHANGED <<cover, probes>>

ResumedLegOver == probe.pc = "close" /\ ~FullLeg
NoResume  == ~tap.resumed
ResumedOK == tap.resumed /\ OpeningRead(ServerRecords, ServerHelloResumedLen)

(* The caller of ProbeBoth adopts both results, which it has only when the *)
(* session resumed.                                                        *)
BothDone ==
    /\ ResumedLegOver /\ probe.caller = "both"
    /\ IF ResumedOK
       THEN LET withResumed == Adopt(cover, Result(FALSE, Remainder(ServerRecords), <<>>))
            IN  cover' = Adopt(withResumed, Result(TRUE, full, <<>>))
       ELSE UNCHANGED cover
    /\ Return
    /\ UNCHANGED probes

-----------------------------------------------------------------------------
(* SampleFull *)

MinOf(a, b) == IF a < b THEN a ELSE b
MaxOf(a, b) == IF a > b THEN a ELSE b
Merge(r) == [n  |-> r.n + 1,
             lo |-> IF r.n = 0 THEN full ELSE [i \in DOMAIN full |-> MinOf(full[i], r.lo[i])],
             hi |-> IF r.n = 0 THEN full ELSE [i \in DOMAIN full |-> MaxOf(full[i], r.hi[i])]]

SameCount(r) == r.n = 0 \/ Len(full) = Len(r.lo)

(* A sample whose only failure was that the upstream did not resume is     *)
(* still one; any other failure and a change of the record count end the   *)
(* call.                                                                   *)
Sampled == ResumedLegOver /\ probe.caller = "sample" /\ (NoResume \/ ResumedOK) /\ SameCount(range)

SampleLost ==
    /\ ResumedLegOver /\ probe.caller = "sample"
    /\ ~Sampled
    /\ Return
    /\ UNCHANGED <<cover, probes>>

NextSample ==
    /\ Sampled /\ range.n + 1 < Samples
    /\ range' = Merge(range)
    /\ samples' = Witnesses
    /\ probe' = [probe EXCEPT !.pc = "dial", !.leg = "full"]
    /\ wire' = <<>> /\ tap' = NoTap /\ need' = 0
    /\ banked' = FALSE
    /\ full' = <<>> /\ sent' = <<>>
    /\ UNCHANGED <<cover, probes>>

JitterUpToHi(r) == r.hi
Jitter(r) == [i \in DOMAIN r.lo |-> r.hi[i] - r.lo[i]]

(* The last sample: the baseline and its range are adopted together. *)
SampleDone ==
    /\ Sampled /\ range.n + 1 = Samples
    /\ LET r == Merge(range)
       IN  cover' = Adopt(cover, Result(TRUE, r.lo, Jitter(r)))
    /\ Return
    /\ UNCHANGED probes

(* The egress probes its cover; ProbeBoth starts with an empty cache. *)
StartProbe(caller, host) ==
    /\ probe = Idle
    /\ probes < MaxProbes
    /\ probes' = probes + 1
    /\ probe' = [pc |-> "dial", caller |-> caller, host |-> host, leg |-> "full"]
    /\ UNCHANGED <<cover, sessionVars, banked, resultVars, historyVars>>

ProbeNext ==
    \/ \E caller \in {"both", "sample"}, host \in ProbeHosts : StartProbe(caller, host)
    \/ Dial \/ SendEarly \/ Read \/ HandshakeDone \/ Respond \/ BankEnds \/ SessionFails
    \/ FullLegDone \/ BothDone \/ SampleLost \/ NextSample \/ SampleDone

-----------------------------------------------------------------------------
Pcs == {"idle", "dial", "handshake", "bank", "close"}

(* Every variable has its type; the profile of an egress has a plausible   *)
(* number of records with one range each (cover.go:408-430).               *)
ProbeTypeOK ==
    /\ Len(cover.full) <= maxRemainderRecords
    /\ Len(cover.jitter) \in {0, Len(cover.full)}
    /\ probe.pc \in Pcs /\ probe.leg \in {"full", "resumed"}
    /\ RecordsSoFar \in need .. need + MaxExtra
    /\ tap.frozen \in -1 .. Len(tap.recs) /\ tap.resumed \in BOOLEAN
    /\ banked \in BOOLEAN
    /\ range.n \in 0 .. Samples - 1 /\ Len(range.lo) = Len(range.hi)
    /\ probes \in 0 .. MaxProbes

(* An egress never has a profile that Client and Server refuse: whatever   *)
(* the probes return, the profile stays valid (cover.go:446-450,           *)
(* handshake.go:265-267).                                                  *)
ProfileStaysValid == Valid(cover)

(* The range that the egress adopts for its full remainder ends, at every  *)
(* position, in lengths that the cover itself sent there before the        *)
(* client's Finished: nothing of the banking response, of a resumed        *)
(* session or of another host is in it (coverprobe.go:180-185, 298-351).   *)
AppRecord(recs, i, len) ==
    \E k \in DOMAIN recs : /\ recs[k] = [typ |-> "app", len |-> len]
                          /\ Cardinality({j \in 1 .. k : recs[j].typ = "app"}) = i
Measured(i, len) == \E s \in Witnesses : /\ CoverFor(s.host).host = CoverFor(cover.host).host
                                         /\ AppRecord(s.recs, i, len)

AdoptsMeasured ==
    [][<<cover'.full, cover'.jitter>> # <<cover.full, cover.jitter>> =>
        \A i \in DOMAIN cover'.full :
            /\ Measured(i, cover'.full[i])
            /\ cover'.jitter # <<>> => Measured(i, cover'.full[i] + cover'.jitter[i])]_probeVars
=============================================================================
