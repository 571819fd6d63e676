------------------------------- MODULE Hello -------------------------------
(***************************************************************************)
(* A ClientHello and what the library does to one: the screening and       *)
(* cleaning of a tapped hello (source.go, harvester.go), the steps of      *)
(* Twiddle (twiddle.go, auth.go, echcarrier.go) and the authenticators     *)
(* that Server checks.                                                     *)
(*                                                                         *)
(* A hello is a record of its random, its session id (<<>> or one value),  *)
(* the cipher suites it offers and the sequence of its extensions, each    *)
(* <<type, data>>.  A random, a key or a payload is where it came from: a  *)
(* tapped connection, zeroing, a fresh draw, a ticket or a MAC over a      *)
(* hello.  Of the GREASE slots the three with a rule are kept: the two     *)
(* outer extensions and the group shared by two of them.                   *)
(***************************************************************************)
EXTENDS Integers, SequencesExt

CONSTANT Grease     \* GREASE codepoints

ASSUME GreaseAssumption == \E g, h \in Grease : g # h

FullTicketLen == 144
echGREASELengths == {144, 176, 208, 240}

TappedValue == <<"tapped">>
ZeroValue   == <<"zero">>
FreshValue  == <<"fresh">>

-----------------------------------------------------------------------------
(* Extensions *)

IsGREASE(e) == e[1] = "grease"

Pos(h, t)    == SelectInSeq(h.exts, LAMBDA e : e[1] = t)
Has(h, t)    == Pos(h, t) # 0
Find(h, t)   == h.exts[Pos(h, t)][2]
Put(h, t, d) == [h EXCEPT !.exts[Pos(h, t)] = <<t, d>>]

(* The extensions but those of some types, in the same order. *)
Without(exts, types) ==
    LET out[i \in 0 .. Len(exts)] ==
            IF i = 0 THEN <<>>
            ELSE IF exts[i][1] \in types THEN out[i - 1] ELSE Append(out[i - 1], exts[i])
    IN  out[Len(exts)]

dropExtension(h, t) == [h EXCEPT !.exts = Without(@, {t})]

SetSNI(h, name) == Put(h, "server_name", name)

(* A key_share: its whole entries, and whether one cut short follows. *)
X25519 == <<"x25519">>
Hybrid == <<"hybrid">>
Share(group, len, key) == [group |-> group, len |-> len, key |-> key]
Shares(h) == Find(h, "key_share").entries
IsCut(h)  == Find(h, "key_share").cut

(* SetKeyShare looks for an entry of 32 bytes, KeyShare takes the first    *)
(* of the group; both are 0 where there is none.                           *)
OurShare(h)   == SelectInSeq(Shares(h), LAMBDA s : s.group = X25519 /\ s.len = 32)
FirstShare(h) == SelectInSeq(Shares(h), LAMBDA s : s.group = X25519)

-----------------------------------------------------------------------------
(* The screening of a tapped hello *)

Usable(h) ==
    /\ Has(h, "server_name") /\ Has(h, "key_share") /\ ~Has(h, "pre_shared_key")
    /\ Len(h.exts) >= 3
    /\ IsGREASE(Head(h.exts)) /\ IsGREASE(Last(h.exts))

(* The server name keeps its length, a session ticket becomes empty, the   *)
(* resumption carriers go.                                                 *)
Zeroed(session) == IF session = <<>> THEN <<>> ELSE ZeroValue
Unticketed(e)   == IF e[1] = "session_ticket" THEN <<e[1], ZeroValue>> ELSE e
ResumptionExts  == {"pre_shared_key", "early_data"}

Blanked(h, exts) == [h EXCEPT !.exts = exts, !.random = ZeroValue, !.session = Zeroed(@)]

SanitizeKeepingTickets(h) ==
    Blanked(h, Without(SetSNI(h, "placeholder").exts, ResumptionExts))

Sanitize(h) ==
    LET kept == Without(SetSNI(h, "placeholder").exts, ResumptionExts)
    IN  Blanked(h, [i \in DOMAIN kept |-> Unticketed(kept[i])])

(* Offer: what of the tapped traffic may enter the pool. *)
Offered(h) == Has(h, "server_name") /\ Usable(Sanitize(h))

(* canonicalForm: what the emitter regenerates is blanked; the order of    *)
(* the extensions does not count.                                          *)
Sentinel(group) == IF group[1] = "grease" THEN <<"grease", "any">> ELSE group

Canonical(e) ==
    CASE e[1] = "grease" -> <<"grease", "any">>
      [] e[1] = "server_name" -> <<e[1], "any">>
      [] e[1] = "ech" -> <<e[1], IF e[2].form = "short" THEN <<>> ELSE <<e[2].form, e[2].suite>>>>
      [] e[1] = "key_share" ->
            <<e[1], [i \in DOMAIN e[2].entries |->
                        <<Sentinel(e[2].entries[i].group), e[2].entries[i].len>>]>>
      [] e[1] = "supported_groups" -> <<e[1], [i \in DOMAIN e[2] |-> Sentinel(e[2][i])]>>
      [] OTHER -> e

canonicalForm(h) == [session |-> Len(h.session), suites |-> h.suites,
                     exts |-> ToBag([i \in DOMAIN h.exts |-> Canonical(h.exts[i])])]

-----------------------------------------------------------------------------
(* Rerandomize *)

(* The draws of one call: the codepoints of the two ends, of the group and *)
(* of extensions in between, and the bucket of the ECH payload.            *)
Greased(h) == {i \in DOMAIN h.exts : IsGREASE(h.exts[i])}
Between(h) == {i \in Greased(h) : (\E j \in Greased(h) : j < i) /\ (\E j \in Greased(h) : j > i)}

DrawsAliased(h) == [first : Grease, last : Grease, group : Grease,
                    between : [Between(h) -> Grease], bucket : echGREASELengths]
Draws(h) == {d \in DrawsAliased(h) : d.last # d.first}

(* rerandGREASE *)
GreaseExt(h, d, i) ==
    <<"grease", IF i \in Between(h) THEN d.between[i]
                ELSE IF \E j \in Greased(h) : j < i THEN d.last ELSE d.first>>

Group(group, d) == IF group[1] = "grease" THEN <<"grease", d.group>> ELSE group

(* rerandKeyShare, freshKeyShare: a valid key for the two groups of the    *)
(* right length, zeros for any other.                                      *)
mlkem768EncapKeyLen == 1184
Fresh(s, d) ==
    Share(Group(s.group, d), s.len,
          IF <<s.group, s.len>> \in {<<X25519, 32>>, <<Hybrid, mlkem768EncapKeyLen + 32>>}
          THEN FreshValue ELSE ZeroValue)

(* rerandECHGrease: only the outer form; the advertised suite is kept, one *)
(* cut short before it gets the default.                                   *)
FreshECHDefault(e, d) ==
    [form |-> "outer", suite |-> "default", payload |-> FreshValue, len |-> d.bucket]
FreshECH(e, d) ==
    IF e.form = "inner" THEN e
    ELSE [form |-> "outer", suite |-> IF e.form = "short" THEN "default" ELSE e.suite,
          payload |-> FreshValue, len |-> d.bucket]

(* Only the first extension of a type is rewritten. *)
Redrawn(h, d, i) ==
    LET e == h.exts[i]
    IN  CASE IsGREASE(e) -> GreaseExt(h, d, i)
          [] e[1] = "supported_groups" /\ i = Pos(h, e[1]) ->
                <<e[1], [j \in DOMAIN e[2] |-> Group(e[2][j], d)]>>
          [] e[1] = "key_share" /\ i = Pos(h, e[1]) ->
                <<e[1], [e[2] EXCEPT !.entries = [j \in DOMAIN @ |-> Fresh(@[j], d)]]>>
          [] e[1] = "ech" /\ i = Pos(h, e[1]) -> <<e[1], FreshECH(e[2], d)>>
          [] OTHER -> e

CanRerandomize(h) == Has(h, "key_share") => ~IsCut(h)

Rerandomize(h, d) ==
    [h EXCEPT !.random = FreshValue,
              !.session = IF @ = <<>> THEN <<>> ELSE FreshValue,
              !.exts = [i \in DOMAIN @ |-> Redrawn(h, d, i)]]

-----------------------------------------------------------------------------
(* Shuffle *)

(* How many extensions are pinned at the end. *)
Pinned(h) == IF Last(h.exts)[1] = "pre_shared_key" THEN 2 ELSE 1

CanShuffle(h) ==
    /\ Len(h.exts) >= 3
    /\ IsGREASE(Head(h.exts)) /\ IsGREASE(h.exts[Len(h.exts) + 1 - Pinned(h)])

Interior(h) == 2 .. Len(h.exts) - Pinned(h)

Shuffle(h, perm) ==
    [h EXCEPT !.exts = [i \in DOMAIN @ |-> IF i \in Interior(h) THEN @[perm[i]] ELSE @[i]]]

-----------------------------------------------------------------------------
(* The key and the authenticator *)

CanSetKeyShare(h) == Has(h, "key_share") /\ OurShare(h) # 0
OurKey == <<"ours">>
SetKeyShare(h) ==
    Put(h, "key_share", [Find(h, "key_share") EXCEPT !.entries[OurShare(h)].key = OurKey])

(* Issue: a credential is its PSK with the length of its ticket and of the *)
(* companion, 0 where it has none.                                         *)
Ticket(psk, len) == [psk |-> psk, len |-> len]

(* setPSK: any pre_shared_key goes and one is appended. *)
setPSK(h, ticket, binder) ==
    [h EXCEPT !.exts = Append(dropExtension(h, "pre_shared_key").exts,
                              <<"pre_shared_key", [ticket |-> ticket, binder |-> binder]>>)]

(* The HMAC over the hello with an empty binder, of the cover's hash. *)
Blank(len) == <<"blank", len>>
Binder(h, ticket, len) == <<"binder", len, ticket.psk, setPSK(h, ticket, Blank(len))>>
SetTicketAuth(h, ticket, len) == setPSK(h, ticket, Binder(h, ticket, len))

(* echPayload, ECHPayloadLen *)
CarriesTicket(h) == Has(h, "ech") /\ Find(h, "ech").form = "outer" /\ Find(h, "ech").len >= FullTicketLen
FullHandshakeCarriers(pool) == {h \in pool : CarriesTicket(h)}

(* The HMAC over the whole hello with random cleared. *)
MAC(h, psk) == <<"mac", psk, [h EXCEPT !.random = ZeroValue]>>
CanSetECHTicketAuth(h) == ~Has(h, "pre_shared_key") /\ CarriesTicket(h)
SetECHTicketAuth(h, ticket) ==
    LET carrying == Put(h, "ech", [Find(h, "ech") EXCEPT !.payload = <<"ticket", ticket.psk>>])
    IN  [carrying EXCEPT !.random = MAC(carrying, ticket.psk)]

(* What Server authenticates, with a key that opens every ticket here. *)
KeyShare(h) == Has(h, "key_share") /\ FirstShare(h) # 0 /\ Shares(h)[FirstShare(h)].len = 32

VerifyTicketAuth(h) ==
    LET psk == Find(h, "pre_shared_key")
    IN  psk.binder = Binder(h, psk.ticket, psk.binder[2]) /\ KeyShare(h)

VerifyECHTicketAuth(h) ==
    LET payload == Find(h, "ech").payload
    IN  payload[1] = "ticket" /\ h.random = MAC(h, payload[2]) /\ KeyShare(h)
=============================================================================
