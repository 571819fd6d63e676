------------------------------ MODULE Handshake ------------------------------
(***************************************************************************)
(* The opening (handshake.go): Client on one end of a socket, Server on    *)
(* the other, in both shapes, and the rotation of the credential from one  *)
(* connection to the next.  Each read or write of a record is a step; the  *)
(* socket may be cut at any point and a record may be altered in flight.   *)
(*                                                                         *)
(* Records are what the two ends tell apart: the shape and the credential  *)
(* of a ClientHello, the keys, the number and the body of an encrypted     *)
(* record.  Keys are what they were derived from: the transcript.          *)
(***************************************************************************)
EXTENDS Integers, FiniteSets, Sequences

CONSTANTS
    Resumed,        \* length of CoverProfile.ResumedRemainder, one per host
    ClientFull,     \* length of FullRemainder as the client was provisioned
    ServerFulls,    \* lengths the egress may have probed; 0: never probed
    MaxDials,       \* bound: openings, one after the other
    MaxAlter,       \* bound: kinds of records altered in one opening
    MaxApp          \* bound: application records per end and connection

ASSUME CoverAssumption == Resumed \in Nat \ {0} /\ ClientFull \in Nat /\ ServerFulls \subseteq Nat
ASSUME BoundAssumption == MaxDials \in Nat /\ MaxAlter \in Nat /\ MaxApp \in Nat

VARIABLES
    serverFull, \* length of the egress's FullRemainder
    cl,         \* the call of Client: pc, shape, records to read, keys, counters
    sv,         \* the call of Server, likewise
    c2s, s2c,   \* records in flight
    cut,        \* the socket was reset or closed
    cred,       \* ClientConfig.Credential: [ticket, companion], each the number
                \* of the Issue that minted it
    next,       \* the credential that readTickets is putting together
    spent,      \* tickets the replay gate admitted: <<issue, shape>>
    issued,     \* calls of TicketKey.Issue so far, the first one out of band
    dials,      \* openings so far
    altered,    \* history: what was altered in this opening
    tried,      \* history: shapes in which the credential was presented
    clean       \* history: this opening is the first of its shape with this
                \* credential, and was neither cut nor altered

ends  == <<cl, sv>>
wires == <<c2s, s2c, cut>>
creds == <<cred, next, spent, issued>>
vars  == <<serverFull, ends, wires, creds, dials, altered, tried, clean>>

-----------------------------------------------------------------------------
(* Records and keys *)

Hello(full)  == [kind |-> "hello", altered |-> FALSE, full |-> full,
                 ticket |-> IF full THEN cred.companion ELSE cred.ticket]
Plain(kind)  == [kind |-> kind, altered |-> FALSE]
Sealed(end, body, n) == [kind |-> "sealed", altered |-> FALSE,
                         key |-> end.key, seq |-> end.send, body |-> body, issue |-> n]

(* What both ends hash into their keys: the hello as sent or as received,  *)
(* the ServerHello likewise.                                               *)
TranscriptHelloOnly(h, s) == <<h, FALSE>>
Transcript(h, s) == <<h, s>>
NoKey    == <<>>
CoverKey == <<"cover">>

(* The record decrypts at this end. *)
Opens(r, end) ==
    /\ r.kind = "sealed" /\ ~r.altered
    /\ r.key = end.key /\ r.seq = end.recv

End(pc, full, rem, key) ==
    [pc |-> pc, full |-> full, rem |-> rem, key |-> key, send |-> 0, recv |-> 0]

Ended == {"idle", "done", "failed", "notours", "spliced"}

(* raw.Write: a socket that was cut takes the bytes and loses them, or     *)
(* refuses them (WriteFails).                                              *)
Put(wire, r) == IF cut THEN wire ELSE Append(wire, r)

Init ==
    /\ serverFull \in ServerFulls
    /\ cl = End("idle", FALSE, 0, NoKey)
    /\ sv = End("idle", FALSE, 0, NoKey)
    /\ c2s = <<>> /\ s2c = <<>> /\ cut = FALSE
    /\ cred = [ticket |-> 1, companion |-> 1]
    /\ next = [ticket |-> 0, companion |-> 0]
    /\ spent = {}
    /\ issued = 1
    /\ dials = 0
    /\ altered = {}
    /\ tried = {}
    /\ clean = TRUE

-----------------------------------------------------------------------------
(* Client *)

(* The caller dials and Client writes its hello.  full: the shape Client   *)
(* settled on, which a client without a full profile never chooses.        *)
ClientHello(full) ==
    /\ cl.pc \in Ended /\ sv.pc \in Ended
    /\ dials < MaxDials
    /\ full => ClientFull > 0
    /\ dials' = dials + 1
    /\ cl' = End("sh", full, IF full THEN ClientFull ELSE Resumed, NoKey)
    /\ sv' = End("hello", FALSE, 0, NoKey)
    /\ c2s' = <<Hello(full)>> /\ s2c' = <<>> /\ cut' = FALSE
    /\ altered' = {}
    /\ clean' = (full \notin tried)
    /\ tried' = tried \cup {full}
    /\ UNCHANGED <<serverFull, creds>>

(* A read of Client: the next record, taken off the wire. *)
ClientReads(pc) == /\ cl.pc = pc
                   /\ s2c # <<>>
                   /\ s2c' = Tail(s2c)
                   /\ UNCHANGED <<serverFull, sv, c2s, cut, spent, issued, dials, altered, clean>>

(* ServerEphemeralFromShare may or may not notice an alteration. *)
ClientReadServerHello ==
    /\ ClientReads("sh")
    /\ LET r == Head(s2c)
       IN  cl' \in {[cl EXCEPT !.pc = "ccs", !.key = Transcript(FALSE, r.altered)]}
                     \cup (IF r.altered THEN {[cl EXCEPT !.pc = "failed"]} ELSE {})
    /\ UNCHANGED <<cred, next, tried>>

ClientReadCCS ==
    /\ ClientReads("ccs")
    /\ cl' = [cl EXCEPT !.pc = IF Head(s2c).altered THEN "failed" ELSE "rem"]
    /\ UNCHANGED <<cred, next, tried>>

MoreAlways(end) == TRUE
More(end) == end.rem > 0

(* consumeRecord; neither the type nor the payload of a remainder record   *)
(* is looked at.                                                           *)
ClientReadRemainder ==
    /\ ClientReads("rem")
    /\ More(cl)
    /\ cl' = IF Opens(Head(s2c), cl)
             THEN [cl EXCEPT !.rem = @ - 1, !.recv = @ + 1]
             ELSE [cl EXCEPT !.pc = "failed"]
    /\ UNCHANGED <<cred, next, tried>>

ClientSendCCS ==
    /\ cl.pc = "rem" /\ ~More(cl)
    /\ cl' = [cl EXCEPT !.pc = "fin"]
    /\ c2s' = Put(c2s, Plain("clientccs"))
    /\ UNCHANGED <<serverFull, sv, s2c, cut, creds, dials, altered, tried, clean>>

ClientSendFinished ==
    /\ cl.pc = "fin"
    /\ cl' = [cl EXCEPT !.pc = "nst1", !.send = @ + 1]
    /\ c2s' = Put(c2s, Sealed(cl, "pad", 0))
    /\ UNCHANGED <<serverFull, sv, s2c, cut, creds, dials, altered, tried, clean>>

(* readTickets: the type and the exact length tell a ticket record from    *)
(* any other.                                                              *)
AnyBody(r, body) == TRUE
IsBody(r, body) == r.body = body

ClientReadTicket ==
    /\ ClientReads("nst1")
    /\ LET r == Head(s2c)
       IN  IF Opens(r, cl) /\ IsBody(r, "ticket")
           THEN /\ cl' = [cl EXCEPT !.pc = "nst2", !.recv = @ + 1]
                /\ next' = [next EXCEPT !.ticket = r.issue]
           ELSE /\ cl' = [cl EXCEPT !.pc = "failed"]
                /\ UNCHANGED next
    /\ UNCHANGED <<cred, tried>>

(* The opening is complete: Client returns the connection and the new      *)
(* credential, which the caller keeps in place of the one it used.         *)
ClientReadCompanion ==
    /\ ClientReads("nst2")
    /\ LET r == Head(s2c)
       IN  IF Opens(r, cl) /\ IsBody(r, "companion")
           THEN /\ cl' = [cl EXCEPT !.pc = "done", !.recv = @ + 1]
                /\ next' = [next EXCEPT !.companion = r.issue]
                /\ cred' = next' /\ tried' = {}
           ELSE /\ cl' = [cl EXCEPT !.pc = "failed"]
                /\ UNCHANGED <<cred, next, tried>>

(* A read or write of Client returns an error. *)
ClientError ==
    /\ cut
    /\ \/ cl.pc \in {"sh", "ccs", "nst1", "nst2"} /\ s2c = <<>>
       \/ cl.pc = "rem" /\ (More(cl) => s2c = <<>>)
       \/ cl.pc = "fin"
    /\ cl' = [cl EXCEPT !.pc = "failed"]
    /\ UNCHANGED <<serverFull, sv, wires, creds, dials, altered, tried, clean>>

ClientStep ==
    \/ ClientReadServerHello \/ ClientReadCCS \/ ClientReadRemainder
    \/ ClientSendCCS \/ ClientSendFinished
    \/ ClientReadTicket \/ ClientReadCompanion \/ ClientError

-----------------------------------------------------------------------------
(* Server *)

(* The MAC of a full hello covers all of it.  The binder covers the hello  *)
(* with pre_shared_key rebuilt, so some alterations of that extension pass.*)
VerifyECHTicketAuth(r) == {~r.altered}
VerifyTicketAuth(r) == IF r.altered THEN BOOLEAN ELSE {TRUE}

Verifies(r) == IF r.full THEN VerifyECHTicketAuth(r) ELSE VerifyTicketAuth(r)

(* validateClientHello: a full hello needs a profile to answer with. *)
Answerable(r) == r.full => serverFull > 0

(* Consume: what the gate promises for one client that spends its newest   *)
(* credential (ReplayGate).                                                *)
ConsumeCredential(r) == \A full \in BOOLEAN : <<r.ticket, full>> \notin spent
Consume(r) == <<r.ticket, r.full>> \notin spent

(* One record per entry of the drawn remainder. *)
DrawnShort(full) == IF full THEN serverFull - 1 ELSE Resumed
Drawn(full) == IF full THEN serverFull ELSE Resumed

(* Server reads the hello, validates and verifies it and spends its ticket *)
(* or returns ErrNotOurs.                                                  *)
ServerReadHello ==
    /\ sv.pc = "hello"
    /\ c2s # <<>>
    /\ c2s' = Tail(c2s)
    /\ LET r == Head(c2s)
       IN  \E verified \in Verifies(r) :
              IF verified /\ Answerable(r) /\ Consume(r)
              THEN /\ spent' = spent \cup {<<r.ticket, r.full>>}
                   /\ sv' = End("sh", r.full, Drawn(r.full), Transcript(r.altered, FALSE))
              ELSE /\ sv' = [sv EXCEPT !.pc = "notours"]
                   /\ UNCHANGED spent
    /\ UNCHANGED <<serverFull, cl, s2c, cut, cred, next, issued, dials, altered, tried, clean>>

(* A write of Server. *)
ServerWrites(r) == /\ s2c' = Put(s2c, r)
                   /\ UNCHANGED <<serverFull, cl, c2s, cut, cred, next, spent, dials, altered, tried, clean>>

ServerSendHello ==
    /\ sv.pc = "sh"
    /\ ServerWrites(Plain("sh"))
    /\ sv' = [sv EXCEPT !.pc = "ccs"]
    /\ UNCHANGED issued

ServerSendCCS ==
    /\ sv.pc = "ccs"
    /\ ServerWrites(Plain("ccs"))
    /\ sv' = [sv EXCEPT !.pc = "rem"]
    /\ UNCHANGED issued

ServerSendRemainder ==
    /\ sv.pc = "rem" /\ More(sv)
    /\ ServerWrites(Sealed(sv, "pad", 0))
    /\ sv' = [sv EXCEPT !.rem = @ - 1, !.send = @ + 1]
    /\ UNCHANGED issued

(* The client's ChangeCipherSpec is read and not looked at. *)
ServerReadCCS ==
    /\ sv.pc = "rem" /\ ~More(sv)
    /\ c2s # <<>>
    /\ c2s' = Tail(c2s)
    /\ sv' = [sv EXCEPT !.pc = "fin"]
    /\ UNCHANGED <<serverFull, cl, s2c, cut, creds, dials, altered, tried, clean>>

ServerReadFinished ==
    /\ sv.pc = "fin"
    /\ c2s # <<>>
    /\ c2s' = Tail(c2s)
    /\ sv' = IF Opens(Head(c2s), sv)
             THEN [sv EXCEPT !.pc = "nst1", !.recv = @ + 1]
             ELSE [sv EXCEPT !.pc = "failed"]
    /\ UNCHANGED <<serverFull, cl, s2c, cut, creds, dials, altered, tried, clean>>

(* The number of the credential that Issue mints. *)
IssueSame == issued
Issue == issued + 1

ServerSendTicket ==
    /\ sv.pc = "nst1"
    /\ issued' = Issue
    /\ ServerWrites(Sealed(sv, "ticket", issued'))
    /\ sv' = [sv EXCEPT !.pc = "nst2", !.send = @ + 1]

ServerSendCompanion ==
    /\ sv.pc = "nst2"
    /\ ServerWrites(Sealed(sv, "companion", issued))
    /\ sv' = [sv EXCEPT !.pc = "done", !.send = @ + 1]
    /\ UNCHANGED issued

(* A read or write of Server returns an error. *)
ServerError ==
    /\ cut
    /\ \/ sv.pc = "hello" /\ c2s = <<>> /\ sv' = [sv EXCEPT !.pc = "notours"]
       \/ /\ \/ sv.pc \in {"sh", "ccs", "nst1", "nst2"}
             \/ sv.pc = "rem" /\ (More(sv) \/ c2s = <<>>)
             \/ sv.pc = "fin" /\ c2s = <<>>
          /\ sv' = [sv EXCEPT !.pc = "failed"]
    /\ UNCHANGED <<serverFull, cl, wires, creds, dials, altered, tried, clean>>

ServerStep ==
    \/ ServerReadHello \/ ServerSendHello \/ ServerSendCCS \/ ServerSendRemainder
    \/ ServerReadCCS \/ ServerReadFinished
    \/ ServerSendTicket \/ ServerSendCompanion \/ ServerError

-----------------------------------------------------------------------------
(* The callers and the socket *)

(* The adapter forwards a hello that is not ours to the cover, which       *)
(* answers with an opening of its own.                                     *)
CoverAnswers ==
    /\ sv.pc = "notours"
    /\ sv' = [sv EXCEPT !.pc = "spliced"]
    /\ s2c' = IF cut THEN s2c
              ELSE <<[Plain("sh") EXCEPT !.altered = TRUE], Plain("ccs"),
                     Sealed([sv EXCEPT !.key = CoverKey], "pad", 0)>>
    /\ UNCHANGED <<serverFull, cl, c2s, cut, creds, dials, altered, tried, clean>>

(* The caller of an end that failed closes the socket. *)
HangUp ==
    /\ ~cut /\ "failed" \in {cl.pc, sv.pc}
    /\ cut' = TRUE
    /\ UNCHANGED <<serverFull, ends, c2s, s2c, creds, dials, altered, tried, clean>>

(* The connection breaks; what is in flight arrives or is lost. *)
Cut ==
    /\ ~cut /\ ~(cl.pc \in Ended /\ sv.pc \in Ended)
    /\ cut' = TRUE
    /\ c2s' \in {c2s, <<>>} /\ s2c' \in {s2c, <<>>}
    /\ clean' = FALSE
    /\ UNCHANGED <<serverFull, ends, creds, dials, altered, tried>>

(* The payload of a record in flight is altered. *)
Alter ==
    /\ Cardinality(altered) < MaxAlter
    /\ \/ \E i \in DOMAIN c2s : /\ c2s' = [c2s EXCEPT ![i].altered = TRUE]
                               /\ altered' = altered \cup {c2s[i].kind}
                               /\ UNCHANGED s2c
       \/ \E i \in DOMAIN s2c : /\ s2c' = [s2c EXCEPT ![i].altered = TRUE]
                               /\ altered' = altered \cup {s2c[i].kind}
                               /\ UNCHANGED c2s
    /\ clean' = FALSE
    /\ UNCHANGED <<serverFull, ends, cut, creds, dials, tried>>

(* An end that has its connection writes application data. *)
ClientWrites ==
    /\ cl.pc = "done" /\ cl.send < MaxApp + 1
    /\ c2s' = Put(c2s, Sealed(cl, "app", 0))
    /\ cl' = [cl EXCEPT !.send = @ + 1]
    /\ ~cut
    /\ UNCHANGED <<serverFull, sv, s2c, cut, creds, dials, altered, tried, clean>>

ServerWritesApp ==
    /\ sv.pc = "done" /\ sv.send < MaxApp + Drawn(sv.full) + 2
    /\ ServerWrites(Sealed(sv, "app", 0))
    /\ sv' = [sv EXCEPT !.send = @ + 1]
    /\ ~cut
    /\ UNCHANGED issued

Next ==
    \/ \E full \in BOOLEAN : ClientHello(full)
    \/ ClientStep \/ ServerStep
    \/ CoverAnswers \/ HangUp \/ Cut \/ Alter
    \/ ClientWrites \/ ServerWritesApp

Spec == Init /\ [][Next]_vars

(* Both ends keep running, a failed end is closed by its caller and the    *)
(* adapter forwards what is not ours.                                      *)
Fairness == /\ WF_vars(ClientStep) /\ WF_vars(ServerStep)
            /\ WF_vars(HangUp) /\ WF_vars(CoverAnswers)

FairSpec == Spec /\ Fairness

-----------------------------------------------------------------------------
Pcs == Ended \cup {"hello", "sh", "ccs", "rem", "fin", "nst1", "nst2"}
Ends == [pc : Pcs, full : BOOLEAN, rem : Nat, send : Nat, recv : Nat,
         key : {NoKey} \cup (BOOLEAN \X BOOLEAN)]
Credentials == [ticket : Nat, companion : Nat]

(* Every variable has its type; no end reads or sends more remainder       *)
(* records than its profile has.                                           *)
TypeOK ==
    /\ serverFull \in ServerFulls
    /\ cl \in Ends /\ sv \in Ends
    /\ cut \in BOOLEAN /\ clean \in BOOLEAN /\ tried \subseteq BOOLEAN
    /\ cred \in Credentials /\ next \in Credentials
    /\ spent \subseteq Nat \X BOOLEAN
    /\ issued \in Nat /\ dials \in 0..MaxDials

(* When Client returns a connection, Server has returned one too, both     *)
(* derived their keys from one transcript in one shape, and the client     *)
(* holds the whole credential that Server minted for this opening; Server  *)
(* returns only to a client that holds its keys (handshake.go:231-246,     *)
(* 354-369).                                                               *)
CompletionAgrees ==
    /\ cl.pc = "done" => /\ sv.pc = "done"
                         /\ cl.full = sv.full
                         /\ cred = [ticket |-> issued, companion |-> issued]
    /\ sv.pc = "done" => cl.key = sv.key /\ cl.pc \in {"nst1", "nst2", "done", "failed"}

(* An opening whose hello, ServerHello or ChangeCipherSpec was altered     *)
(* never yields a connection, at either end (conn.go:70-77,                *)
(* handshake.go:200-202).                                                  *)
AlteredNeverCompletes ==
    (altered \cap {"hello", "sh", "ccs"} # {}) => cl.pc # "done" /\ sv.pc # "done"

(* When an opening is over, only application data is left on the wire, and *)
(* every record of it carries the number its reader expects: no opening    *)
(* record is left for Read, whatever profiles the ends have                *)
(* (handshake.go:218-222).                                                 *)
InStep(wire, end) ==
    \A i \in DOMAIN wire : /\ wire[i].kind = "sealed"
                           /\ wire[i].body = "app"
                           /\ wire[i].key = end.key
                           /\ wire[i].seq = end.recv + i - 1

StreamsAligned ==
    /\ cl.pc = "done" => InStep(s2c, cl)
    /\ sv.pc = "done" => InStep(c2s, sv)

(* Both ends have the same number of remainder records for this opening. *)
ProfilesAgree == cl.full => serverFull = ClientFull

(* Neither end waits for the other forever: with one profile on both ends, *)
(* every opening ends at both, whatever is cut or altered on the way.      *)
OpeningEnds ==
    (cl.pc = "sh" /\ ProfilesAgree) ~> (cl.pc \in Ended /\ sv.pc \in Ended)

(* Rotation sustains itself and a broken opening costs one ticket: every   *)
(* opening that is neither cut nor altered completes at both ends if it is *)
(* the first of its shape with this credential, whatever became of the     *)
(* openings before it; so after a cut the other ticket of the credential   *)
(* still opens (handshake.go:298-300, 362-369, auth.go:117-121).           *)
CleanOpeningsComplete ==
    (cl.pc = "sh" /\ clean /\ ProfilesAgree) ~> (~clean \/ (cl.pc = "done" /\ sv.pc = "done"))
=============================================================================
