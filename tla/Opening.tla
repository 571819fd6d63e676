------------------------------ MODULE Opening ------------------------------
(***************************************************************************)
(* The bytes of an opening, from a tapped hello to the server's answer:    *)
(* Client chooses a shape and a hello of its pool, Twiddle rewrites it step*)
(* by step, Server validates and authenticates what arrives, spends the    *)
(* ticket and answers with the sizes of the profile that its egress        *)
(* probed (CoverProbe).  What happens on the socket after the hello, the   *)
(* keys and the rotation of the credential are in Handshake; the age and   *)
(* the spending of tickets are in ReplayGate.                              *)
(***************************************************************************)
EXTENDS FiniteSets, CoverProbe, Hello

CONSTANTS
    Captures,       \* pools as captured: sets of tapped hellos
    ClientHosts,    \* spellings of the cover in a ClientConfig
    OtherFull,      \* full remainder that another egress of the cover measured
    OtherTicketLen  \* length of a ticket issued for another cover

(* A capture holds parsed hellos. *)
IsHello(h) == DOMAIN h = {"random", "session", "suites", "exts"}

IsExtension(e) ==
    CASE e[1] = "key_share" ->
            /\ DOMAIN e[2] = {"cut", "entries"}
            /\ e[2].entries \in Seq(ToSet(e[2].entries))
      [] e[1] = "supported_groups" -> e[2] \in Seq(ToSet(e[2]))
      [] e[1] = "ech" -> e[2].form \in {"outer", "inner", "short"}
      [] OTHER -> TRUE

IsParsed(h) ==
    /\ IsHello(h)
    /\ h.session \in {<<>>, TappedValue, ZeroValue}
    /\ h.exts \in Seq(ToSet(h.exts))
    /\ \A i \in DOMAIN h.exts : IsExtension(h.exts[i])

(* They are a browser's: no type but GREASE comes twice, and a GREASE key  *)
(* share is of a group that the hello offers (RFC 8446, 4.2 and 4.2.8).    *)
IsSentOnce(h) ==
    \A i, j \in DOMAIN h.exts : h.exts[i][1] = h.exts[j][1] /\ ~IsGREASE(h.exts[i]) => i = j

OffersGroup(h, group) == Contains(Find(h, "supported_groups"), group)
OffersShares(h) ==
    Has(h, "key_share") =>
        \A s \in ToSet(Shares(h)) :
            s.group[1] = "grease" => Has(h, "supported_groups") /\ OffersGroup(h, s.group)

IsBrowsers(h) == IsParsed(h) /\ IsSentOnce(h) /\ OffersShares(h)

ASSUME CaptureAssumption == \A capture \in Captures : \A h \in capture : IsBrowsers(h)

(* Client is not asked to imitate a name that was tapped. *)
ASSUME TappedNameAssumption == "visited" \notin ClientHosts

VARIABLE open       \* the opening in progress

openingVars == <<probeVars, open>>

NoOpening == [pc |-> "idle"]

OpeningInit == ProbeInit /\ open = NoOpening

-----------------------------------------------------------------------------
(* ClientConfig *)

(* A pool, from which a hello is drawn at random, is what Offer kept of    *)
(* the device's traffic or a capture as it is; the profile is the          *)
(* egress's, the table's or another egress's; the credential may lack the  *)
(* companion or be for another cover.                                      *)
DevicePool(capture) == {Sanitize(h) : h \in {c \in capture : Offered(c)}}

ClientProfiles ==
    LET table == CoverFor(cover.host)
    IN  {cover, table, [table EXCEPT !.full = OtherFull]}

ClientCovers ==
    {[p EXCEPT !.host = h] : p \in ClientProfiles,
                             h \in {c \in ClientHosts : Lower[c] = cover.host}}

Credentials(p) == {[ticket |-> t, companion |-> c] : t \in {p.ticket}, c \in {0, FullTicketLen}}
                    \cup {[ticket |-> OtherTicketLen, companion |-> FullTicketLen]}

Configs(capture) ==
    UNION {{[pool |-> IF device THEN DevicePool(capture) ELSE capture, device |-> device,
             want |-> want, cover |-> p, cred |-> cred] :
                 device \in BOOLEAN, want \in {"resumed", "contacts", "full"},
                 cred \in Credentials(p)} : p \in ClientCovers}

-----------------------------------------------------------------------------
(* Client *)

ConfigAccepted(cfg) ==
    /\ cfg.pool # {}
    /\ Valid(cfg.cover)
    /\ cfg.cred.ticket = cfg.cover.ticket
    /\ cfg.want = "full" => /\ CanEmitFullHandshake(cfg.cover)
                            /\ FullHandshakeCarriers(cfg.pool) # {}

(* A choice of the contact memory degrades where something cannot back it. *)
BacksWithoutCredential(cfg) == /\ CanEmitFullHandshake(cfg.cover)
                               /\ FullHandshakeCarriers(cfg.pool) # {}
Backs(cfg) == /\ CanEmitFullHandshake(cfg.cover)
              /\ FullHandshakeCarriers(cfg.pool) # {}
              /\ cfg.cred.companion = FullTicketLen

Full(cfg) == cfg.want = "full" \/ (cfg.want = "contacts" /\ Backs(cfg))
Candidates(cfg) == IF Full(cfg) THEN FullHandshakeCarriers(cfg.pool) ELSE cfg.pool

ClientRefuses(cfg) ==
    /\ ~ConfigAccepted(cfg)
    /\ open' = [pc |-> "refused", cfg |-> cfg]

ClientPicks(cfg) ==
    /\ ConfigAccepted(cfg)
    /\ \E h \in Candidates(cfg) :
          open' = [pc |-> "sni", cfg |-> cfg, full |-> Full(cfg), drawn |-> h, hello |-> h,
                   left |-> 0]

Client ==
    /\ open = NoOpening /\ probe = Idle
    /\ \E capture \in Captures : \E cfg \in Configs(capture) :
          ClientRefuses(cfg) \/ ClientPicks(cfg)

-----------------------------------------------------------------------------
(* Twiddle *)

AfterAuthBeforeShuffle(pc) ==
    CASE pc = "sni" -> "rerandomize" [] pc = "rerandomize" -> "keyshare"
      [] pc = "keyshare" -> "auth"   [] pc = "auth" -> "shuffle" [] pc = "shuffle" -> "wire"
After(pc) ==
    CASE pc = "sni" -> "rerandomize" [] pc = "rerandomize" -> "shuffle"
      [] pc = "shuffle" -> "keyshare" [] pc = "keyshare" -> "auth" [] pc = "auth" -> "wire"

CompanionUsable(cfg) == cfg.cred.companion = FullTicketLen

(* What the step would authenticate: a full hello is stripped first. *)
Template == IF open.full THEN dropExtension(open.hello, "pre_shared_key") ELSE open.hello

(* The step succeeds. *)
StepOK(pc) ==
    CASE pc = "sni"         -> Has(open.hello, "server_name")
      [] pc = "rerandomize" -> CanRerandomize(open.hello)
      [] pc = "shuffle"     -> CanShuffle(open.hello)
      [] pc = "keyshare"    -> CanSetKeyShare(open.hello)
      [] pc = "auth"        -> open.full => /\ CompanionUsable(open.cfg)
                                            /\ CanSetECHTicketAuth(Template)

Authenticated ==
    LET cred == open.cfg.cred
    IN  IF open.full THEN SetECHTicketAuth(Template, Ticket("psk", cred.companion))
        ELSE SetTicketAuth(Template, Ticket("psk", cred.ticket), open.cfg.cover.binder)

Step(pc, h) == /\ open.pc = pc /\ StepOK(pc)
               /\ open' = [open EXCEPT !.pc = After(pc), !.hello = h]

Twiddle ==
    \/ Step("sni", SetSNI(open.hello, open.cfg.cover.host))
    \/ open.pc = "rerandomize" /\ \E d \in Draws(open.hello) : Step("rerandomize", Rerandomize(open.hello, d))
    \/ open.pc = "shuffle" /\ \E perm \in Bijection(Interior(open.hello), Interior(open.hello)) :
                                 Step("shuffle", Shuffle(open.hello, perm))
    \/ Step("keyshare", SetKeyShare(open.hello))
    \/ Step("auth", Authenticated)

TwiddleFails ==
    /\ open.pc \in {"sni", "rerandomize", "shuffle", "keyshare", "auth"}
    /\ ~StepOK(open.pc)
    /\ open' = [open EXCEPT !.pc = "unemitted"]

-----------------------------------------------------------------------------
(* Server *)

(* validateCoverIdentity, validateFullClientHello,                         *)
(* validateResumedClientHello                                              *)
OffersCover(h) == /\ Has(h, "server_name") /\ Lower[Find(h, "server_name")] = Lower[cover.host]
                  /\ cover.suite \in h.suites

ValidClientHello(h) ==
    /\ OffersCover(h)
    /\ IF Has(h, "pre_shared_key")
       THEN LET psk == Find(h, "pre_shared_key")
            IN  psk.ticket.len = cover.ticket /\ psk.binder[2] = cover.binder
       ELSE CanEmitFullHandshake(cover) /\ CarriesTicket(h)

Authentic(h) == IF Has(h, "pre_shared_key") THEN VerifyTicketAuth(h) ELSE VerifyECHTicketAuth(h)

(* Server spends the ticket of what is ours and reports anything else. *)
ServerReads ==
    /\ open.pc = "wire"
    /\ open' = [open EXCEPT !.pc = IF ValidClientHello(open.hello) /\ Authentic(open.hello)
                                   THEN "spent" ELSE "notours"]

(* The records of the remainder and the lengths drawn for each. *)
RemainderCount(isFull) == Len(IF isFull THEN cover.full ELSE cover.resumed)
Drawable(isFull, i) == IF isFull THEN DrawFullRemainder(cover, i) ELSE {cover.resumed[i]}

(* SynthesizeServerHello: the session id is echoed. *)
CanSynthesize(h) == h.session # <<>>

ServerAnswers ==
    /\ open.pc = "spent"
    /\ open' = IF CanSynthesize(open.hello)
               THEN [open EXCEPT !.pc = "remainder", !.left = RemainderCount(open.full)]
               ELSE [open EXCEPT !.pc = "broken"]

ServerWritesRemainder ==
    /\ open.pc = "remainder" /\ open.left > 0
    /\ \E n \in Drawable(open.full, RemainderCount(open.full) - open.left + 1) :
          open' = IF Fits(n) THEN [open EXCEPT !.left = @ - 1]
                  ELSE [open EXCEPT !.pc = "broken"]

(* The client's flight is what Server waits for. *)
ClientFinishes ==
    /\ open.pc = "remainder" /\ open.left = 0
    /\ open' = [open EXCEPT !.pc = IF Fits(ClientEncryptedWire(open.cfg.cover))
                                   THEN "complete" ELSE "broken"]

Ends == {"refused", "unemitted", "notours", "broken", "complete"}

NextOpening ==
    /\ open.pc \in Ends
    /\ open' = NoOpening

OpeningNext ==
    \/ open = NoOpening /\ ProbeNext /\ UNCHANGED open
    \/ /\ \/ Client \/ Twiddle \/ TwiddleFails
          \/ ServerReads \/ ServerAnswers \/ ServerWritesRemainder \/ ClientFinishes
          \/ NextOpening
       /\ UNCHANGED probeVars

OpeningSpec == OpeningInit /\ [][OpeningNext]_openingVars
-----------------------------------------------------------------------------
(* What the pool was admitted for: a hello that passes Usable is refused   *)
(* by Twiddle only if its key_share has no X25519 entry of 32 bytes or is  *)
(* malformed, or if a full handshake was asked for with a credential that  *)
(* cannot open one; a choice of the contact memory never refuses           *)
(* (source.go:256-264, handshake.go:137-146).                              *)
UsableSurvives ==
    open.pc = "unemitted" /\ Usable(open.drawn) =>
        \/ ~CanSetKeyShare(open.drawn) \/ IsCut(open.drawn)
        \/ open.cfg.want = "full" /\ ~CompanionUsable(open.cfg)

(* Server takes every hello that Twiddle emits for it, except one that     *)
(* never offered the cover's suite, one whose first X25519 entry is not a  *)
(* key, and a full one that reaches an egress which was never probed: the  *)
(* authenticator covers the bytes as they are sent (twiddle.go:416-433).   *)
EmittedIsOurs ==
    open.pc = "notours" =>
        \/ cover.suite \notin open.drawn.suites
        \/ FirstShare(open.drawn) # OurShare(open.drawn)
        \/ open.full /\ ~CanEmitFullHandshake(cover)

(* Once the ticket is spent the opening is answered, with two exceptions:  *)
(* a hello without a session id, and a full opening at a record whose      *)
(* range the egress measured from a record that crypto/tls never accepted. *)
(* The prober counts what it reads ahead, drops the refusal and Adopt asks *)
(* for more than a header only, so that writeSized refuses the length when *)
(* the ticket is gone.  Everything that was sent as a TLS record, and      *)
(* everything drawn between two such lengths, is answered                  *)
(* (handshake.go:298-354, coverprobe.go:180-195, 240-256, cover.go:412).   *)
RefusedLens == {r.len : r \in {early \in Early : early.typ = "app"}} \ AcceptedLens
RangeEnds(i) == {cover.full[i], cover.full[i] + (IF cover.jitter = <<>> THEN 0 ELSE cover.jitter[i])}
DrawnFromRefused(i) == RangeEnds(i) \cap RefusedLens # {}

SpentIsAnswered ==
    open.pc = "broken" =>
        \/ open.drawn.session = <<>>
        \/ open.full /\ DrawnFromRefused(RemainderCount(TRUE) - open.left + 1)

(* An emitted hello has the shape of a browser's: GREASE pinned at both    *)
(* ends with two codepoints, a pre_shared_key behind it exactly when it    *)
(* resumes, and a GREASE share only of a group it offers                   *)
(* (twiddle.go:190-215).                                                   *)
Ended(h) == Len(h.exts) + 1 - Pinned(h)

LooksLikeChrome ==
    open.pc = "wire" =>
        LET h == open.hello
        IN  /\ IsGREASE(h.exts[1]) /\ IsGREASE(h.exts[Ended(h)])
            /\ h.exts[1] # h.exts[Ended(h)]
            /\ Has(h, "pre_shared_key") <=> ~open.full
            /\ \A i \in 1 .. Ended(h) : h.exts[i][1] # "pre_shared_key"
            /\ \A s \in ToSet(Shares(h)) : s.group[1] = "grease" => OffersGroup(h, s.group)

(* Nothing that contributionKey counts is changed by the emitter: up to    *)
(* the authenticator the hello has the key of the entry it was drawn from, *)
(* unless the entry has an ECH extension cut before its suite              *)
(* (harvester.go:249-254).                                                 *)
KeySurvivesEmitter ==
    open.pc \in {"rerandomize", "shuffle", "keyshare", "auth"} =>
        \/ canonicalForm(open.hello) = canonicalForm(open.drawn)
        \/ Has(open.drawn, "ech") /\ Find(open.drawn, "ech").form = "short"

(* Nothing of the user's own connection leaves the device: a hello emitted *)
(* from the device pool carries no name, ticket, random, session id, key   *)
(* or ECH payload of the connection it was tapped from, and Server gets    *)
(* the one key that Client holds (source.go:294-316, harvester.go:86-90).  *)
TappedPart(e) ==
    CASE e[1] = "server_name" -> e[2] = "visited"
      [] e[1] = "key_share" -> \E s \in ToSet(e[2].entries) : s.key = TappedValue
      [] e[1] = "ech" -> e[2].form # "inner" /\ e[2].payload = TappedValue
      [] e[1] = "pre_shared_key" -> e[2].binder = TappedValue
      [] e[1] \in {"session_ticket", "early_data"} -> e[2] = TappedValue
      [] OTHER -> FALSE

NothingTapped ==
    open.pc = "wire" /\ open.cfg.device =>
        /\ TappedValue \notin {open.hello.random, open.hello.session}
        /\ \A i \in DOMAIN open.hello.exts : ~TappedPart(open.hello.exts[i])
        /\ Cardinality({s \in ToSet(Shares(open.hello)) : s.key = OurKey}) = 1
=============================================================================
