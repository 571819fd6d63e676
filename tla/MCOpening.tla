----------------------------- MODULE MCOpening -----------------------------
(* Model checking Opening and CoverProbe: upstreams at the edges of what a *)
(* TLS record may be and of what Adopt takes, and hellos that each miss    *)
(* one thing the pipeline needs.                                           *)
EXTENDS Opening

Microsoft == "www.microsoft.com"
Spelled   == "WWW.Microsoft.com"
Other     == "cover.example"
Address   == "192.0.2.1"
HostNames == {Microsoft, Spelled, Other, Address}
DNSNameSet == {Microsoft, Other}
EgressHostSet == {Microsoft}
ProbeHostSet == {Spelled, Other}
ClientHostSet == {Spelled}
OtherRemainder == <<3847>>
LowerOf   == [h \in HostNames |-> IF h = Spelled THEN Microsoft ELSE h]

Records(sh, lens) ==
    <<[typ |-> "handshake", len |-> sh], [typ |-> "ccs", len |-> 6]>>
        \o [i \in DOMAIN lens |-> [typ |-> "app", len |-> lens[i]]]

(* Two flights of one server with as many records as Adopt takes, one of   *)
(* another and one too short, a ServerHello of another key exchange, no    *)
(* ChangeCipherSpec.                                                       *)
FullOpenings ==
    {Records(1215, lens) : lens \in {<<22, 16406, 60, 60>>, <<23, 16405, 60, 60>>, <<3847>>, <<500>>}}
        \cup {Records(127, <<3847>>), SelectSeq(Records(1215, <<900, 900>>), LAMBDA r : r.typ # "ccs")}

(* Behind the opening: a record of the server and one that is no TLS       *)
(* record, which make a flight of one record too many.                     *)
EarlyRecords == {[typ |-> "app", len |-> len] : len \in {10, 41}}

ResumedOpenings == {Records(1221, lens) : lens \in {<<32, 74>>, <<33, 74>>, <<400, 74>>}}

-----------------------------------------------------------------------------
g1 == <<"grease", "g1">>
g2 == <<"grease", "g2">>
Sni    == <<"server_name", "visited">>
Groups == <<"supported_groups", <<g1, X25519>>>>
Keys(entries) == <<"key_share", [cut |-> FALSE, entries |-> entries]>>
GreaseShare == Share(g1, 1, TappedValue)
OwnShare    == Share(X25519, 32, TappedValue)
Chrome == Keys(<<GreaseShare, Share(Hybrid, 1216, TappedValue), OwnShare>>)
ECH(form, len) == <<"ech", [form |-> form, suite |-> "aes", payload |-> TappedValue, len |-> len]>>
PSK  == <<"pre_shared_key", [ticket |-> Ticket("site", 200), binder |-> TappedValue]>>
Site == <<"session_ticket", TappedValue>>

Tap(session, suites, exts) ==
    [random |-> TappedValue, session |-> session, suites |-> suites, exts |-> exts]
Both == {"aes128", "aes256"}
Plain(exts) == Tap(TappedValue, Both, exts)

Carrier    == Plain(<<g1, Sni, Keys(<<OwnShare>>), ECH("outer", 208), g2>>)
Resumption == Plain(<<g1, Sni, Chrome, Groups, g2, PSK>>)
Ticketed   == Plain(<<g1, Site, Sni, Keys(<<OwnShare>>), <<"early_data", TappedValue>>, g2>>)
SmallECH   == Plain(<<g1, Sni, Keys(<<OwnShare>>), ECH("outer", 112), g2>>)
ShortECH   == Plain(<<g1, Sni, Keys(<<OwnShare>>), ECH("short", 0), g2>>)
InnerECH   == Plain(<<g1, Sni, Keys(<<OwnShare>>), ECH("inner", 0), g2>>)
MidGrease  == Plain(<<g1, Sni, g2, Keys(<<OwnShare>>), g2>>)
NoX25519   == Plain(<<g1, Sni, Keys(<<Share(Hybrid, 1216, TappedValue)>>), g2>>)
OddFirst   == Plain(<<g1, Sni, Keys(<<Share(X25519, 31, TappedValue), OwnShare>>), g2>>)
CutShare   == Plain(<<g1, Sni, <<"key_share", [cut |-> TRUE, entries |-> <<OwnShare>>]>>, g2>>)
NoName     == Plain(<<g1, Keys(<<OwnShare>>), g2>>)
NoGrease   == Plain(<<Sni, Keys(<<OwnShare>>), g2>>)
OpenEnd    == Plain(<<g1, Sni, Keys(<<OwnShare>>)>>)
NoSession  == Tap(<<>>, Both, <<g1, Sni, Keys(<<OwnShare>>), ECH("outer", 144), g2>>)
OneSuite   == Tap(TappedValue, {"aes128"}, <<g1, Sni, Keys(<<OwnShare>>), g2>>)

(* One hello each, and a pool of which only one can carry a ticket. *)
CapturedPools ==
    {{Carrier, SmallECH}, {Resumption}, {Ticketed}, {ShortECH}, {InnerECH},
     {MidGrease}, {NoX25519}, {OddFirst}, {CutShare}, {NoName}, {NoGrease},
     {OpenEnd}, {NoSession}, {OneSuite}}
=============================================================================
