------------------------------- MODULE Cover -------------------------------
(***************************************************************************)
(* Cover profiles (cover.go): the tuned and the default profile of a host, *)
(* Valid, the opening bursts, the sizes a server may draw for its full     *)
(* remainder, and Adopt, which folds a probe into a profile.               *)
(*                                                                         *)
(* A record is its length on the wire; a host name is an atom with its     *)
(* lower-case spelling.                                                    *)
(***************************************************************************)
EXTENDS Integers, SequencesExt

CONSTANTS
    Hosts,      \* spellings of host names
    Lower,      \* their lower-case forms, for the ASCII ones
    DNSNames    \* lower-case names that validCoverHost accepts

ASSUME HostAssumption == /\ DNSNames \subseteq Hosts
                         /\ \A h \in DNSNames : h \in DOMAIN Lower /\ Lower[h] = h

recordHeaderLen       == 5
ChangeCipherSpecLen   == 6
ServerHelloResumedLen == 1221
ServerHelloFullLen    == 1215
DefaultTicketLen      == 176

Total(lens) == FoldLeft(LAMBDA n, len : n + len, 0, lens)

-----------------------------------------------------------------------------
(* Profiles *)

Profile(host, suite, binder, ticket, pskFirst, resumed, flight) ==
    [host |-> host, suite |-> suite, binder |-> binder, ticket |-> ticket,
     pskFirst |-> pskFirst, resumed |-> resumed, flight |-> flight,
     full |-> <<>>, jitter |-> <<>>]

MeasuredCovers == {"www.cloudflare.com", "www.google.com", "www.microsoft.com"}

covers == [h \in MeasuredCovers |->
    CASE h = "www.cloudflare.com" -> Profile(h, "aes128", 32, 176, TRUE, <<64>>, 149)
      [] h = "www.google.com"     -> Profile(h, "aes128", 32, 230, TRUE, <<64>>, 145)
      [] h = "www.microsoft.com"  -> Profile(h, "aes256", 48, 256, FALSE, <<32, 74>>, 164)]

HasCover(host) == host \in DOMAIN Lower /\ Lower[host] \in DNSNames

CoverFor(host) ==
    LET h == Lower[host]
    IN  IF h \in MeasuredCovers THEN covers[h]
        ELSE Profile(h, "aes128", 32, DefaultTicketLen, FALSE, <<64>>, 149)

Valid(p) ==
    /\ HasCover(p.host)
    /\ LET known == CoverFor(p.host)
       IN  \A f \in {"suite", "binder", "ticket", "pskFirst", "resumed", "flight"} :
              p[f] = known[f]

-----------------------------------------------------------------------------
(* The server's opening *)

ResumedOpeningBurst(p) == ServerHelloResumedLen + ChangeCipherSpecLen + Total(p.resumed)

CanEmitFullHandshake(p) == p.full # <<>>

(* DrawFullRemainder: the lengths it may draw for the record at i. *)
DrawFullRemainder(p, i) ==
    p.full[i] .. p.full[i] + (IF p.jitter = <<>> THEN 0 ELSE p.jitter[i])

(* What follows the client's ChangeCipherSpec. *)
ClientEncryptedWire(p) == p.flight - ChangeCipherSpecLen

(* writeSized without a payload: the header, the tag and one byte of       *)
(* content type fit, and the inner plaintext is not too long.              *)
tagLen   == 16
maxInner == 16385
Fits(n) == n - recordHeaderLen - tagLen \in 1 .. maxInner

-----------------------------------------------------------------------------
(* Adopt *)

maxRemainderRecords == 4
maxBurstDrift == 256
minFullBurst  == 2000
maxFullBurst  == 32768

SameCover(p, res) == /\ HasCover(res.host) /\ HasCover(p.host)
                     /\ CoverFor(res.host).host = CoverFor(p.host).host

PlausibleLengths(res) ==
    \A i \in DOMAIN res.remainder : res.remainder[i] > recordHeaderLen
PlausibleRecords(res) ==
    /\ Len(res.remainder) \in 1 .. maxRemainderRecords
    /\ PlausibleLengths(res)

WithFull(p, res)    == [p EXCEPT !.full = res.remainder, !.jitter = res.jitter]
WithResumed(p, res) == [p EXCEPT !.resumed = res.remainder]

AdoptsFull(p, res) ==
    /\ res.sh = ServerHelloFullLen
    /\ res.burst \in minFullBurst .. maxFullBurst
    /\ Len(res.jitter) \in {0, Len(res.remainder)}

AdoptsResumedUnchecked(p, res) ==
    /\ res.sh = ServerHelloResumedLen
    /\ res.burst - ResumedOpeningBurst(p) \in -maxBurstDrift .. maxBurstDrift
AdoptsResumed(p, res) ==
    /\ AdoptsResumedUnchecked(p, res)
    /\ Valid(WithResumed(p, res))

(* Adopt returns the profile it was called on with every error. *)
Adopt(p, res) ==
    IF ~SameCover(p, res) \/ ~PlausibleRecords(res) THEN p
    ELSE IF res.full
         THEN IF AdoptsFull(p, res) THEN WithFull(p, res) ELSE p
         ELSE IF AdoptsResumed(p, res) THEN WithResumed(p, res) ELSE p
=============================================================================
