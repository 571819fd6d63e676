--------------------------- MODULE HandshakeProofs ---------------------------
(***************************************************************************)
(* The opening, proved for any profiles, any number of openings and any    *)
(* cuts and alterations: the types, what two ends that complete agree on,  *)
(* that an altered opening completes at neither end, and that the streams  *)
(* start in step.                                                          *)
(***************************************************************************)
EXTENDS Handshake, SequenceTheorems, TLAPS

-----------------------------------------------------------------------------
(* Records *)

Keys == {NoKey} \cup (BOOLEAN \X BOOLEAN)

HelloRecords == [kind : {"hello"}, altered : BOOLEAN, full : BOOLEAN, ticket : Nat]
PlainRecords(kinds) == [kind : kinds, altered : BOOLEAN]
SealedRecords == [kind : {"sealed"}, altered : BOOLEAN, key : Keys \cup {CoverKey},
                  seq : Nat, body : {"pad", "ticket", "companion", "app"}, issue : Nat]

ClientRecords == HelloRecords \cup PlainRecords({"clientccs"}) \cup SealedRecords
ServerRecords == PlainRecords({"sh", "ccs"}) \cup SealedRecords

(* The types, with those of the records in flight: the inductive invariant *)
(* behind TypeOK.  Server takes its shape and its ticket from the first    *)
(* record it reads, which is a ClientHello: Client writes no other before  *)
(* it has read the answer.                                                 *)
TypeInv ==
    /\ TypeOK
    /\ c2s \in Seq(ClientRecords)
    /\ s2c \in Seq(ServerRecords)
    /\ sv.pc = "hello" => /\ c2s \in Seq(HelloRecords) /\ s2c = <<>>
                         /\ cl.pc \in {"sh", "failed"}

-----------------------------------------------------------------------------
(* Where each end is *)

(* The place of a record among those its sender writes. *)
At(r) == IF r.kind \in {"hello", "sh"} THEN 0
         ELSE IF r.kind \in {"ccs", "clientccs"} THEN 1 ELSE r.seq + 2

(* A stretch of one end's records, from the one at p on. *)
Contiguous(wire, p) == \A i \in 1..Len(wire) : At(wire[i]) = p + i - 1

(* How many records each end has read and written. *)
ClientRead  == IF cl.pc = "sh" THEN 0 ELSE IF cl.pc = "ccs" THEN 1 ELSE cl.recv + 2
ServerRead  == IF sv.pc = "hello" THEN 0 ELSE IF sv.pc \in {"sh", "ccs", "rem"} THEN 1 ELSE sv.recv + 2
ClientWrote == IF cl.pc \in {"sh", "ccs", "rem"} THEN 1 ELSE cl.send + 2
ServerWrote == IF sv.pc \in {"hello", "sh", "notours"} THEN 0 ELSE IF sv.pc = "ccs" THEN 1 ELSE sv.send + 2

(* The remainder each end counts on in this opening. *)
Expected == IF cl.full THEN ClientFull ELSE Resumed
Planned  == Drawn(sv.full)

(* The ends that still read and write. *)
ClientLive == cl.pc \notin {"idle", "failed"}
ServerLive == sv.pc \notin {"idle", "failed", "notours", "spliced"}

(* Client: the counters at each place. *)
ClientInv ==
    /\ cl.full => ClientFull > 0
    /\ cl.key \in {NoKey, <<FALSE, FALSE>>, <<FALSE, TRUE>>}
    /\ cl.pc \in {"idle", "sh"} => cl.key = NoKey
    /\ cl.pc \in {"ccs", "rem", "fin", "nst1", "nst2", "done"} => cl.key # NoKey
    /\ cl.pc \in {"sh", "ccs"} => cl.recv = 0
    /\ cl.pc \in {"sh", "ccs", "rem"} => cl.recv + cl.rem = Expected
    /\ cl.pc \in {"idle", "sh", "ccs", "rem", "fin"} => cl.send = 0
    /\ cl.pc \in {"fin", "nst1"} => cl.recv = Expected
    /\ cl.pc = "nst2" => cl.recv = Expected + 1
    /\ cl.pc = "done" => cl.recv = Expected + 2
    /\ cl.pc \in {"nst1", "nst2", "done"} => cl.send >= 1
    /\ cl.pc \notin {"hello", "notours", "spliced"}

(* Server: the counters at each place. *)
ServerInv ==
    /\ sv.pc \in {"idle", "hello", "notours", "spliced"} =>
           sv.key = NoKey /\ sv.send = 0 /\ sv.recv = 0
    /\ sv.pc \notin {"idle", "hello", "notours", "spliced"} =>
           sv.key \in {<<FALSE, FALSE>>, <<TRUE, FALSE>>} /\ sv.full = cl.full
    /\ sv.pc \in {"sh", "ccs"} => sv.send = 0
    /\ sv.pc \in {"sh", "ccs", "rem"} => sv.send + sv.rem = Planned
    /\ sv.pc \in {"sh", "ccs", "rem", "fin"} => sv.recv = 0
    /\ sv.pc \in {"fin", "nst1"} => sv.send = Planned
    /\ sv.pc \in {"nst1", "nst2", "done"} => sv.recv = 1
    /\ sv.pc = "nst2" => sv.send = Planned + 1
    /\ sv.pc = "done" => sv.send >= Planned + 2
    /\ sv.pc = "failed" => sv.send <= Planned + 1

(* The two ends against each other. *)
BothInv ==
    /\ cl.pc = "idle" <=> sv.pc = "idle"
    /\ sv.pc = "hello" => Len(c2s) <= 1
    /\ sv.pc \in {"hello", "sh", "notours"} => s2c = <<>> /\ (cut \/ cl.pc = "sh")
    /\ sv.pc = "ccs" => cut \/ (cl.pc \in {"sh", "ccs", "failed"} /\ cl.send = 0)
    /\ sv.pc \in {"nst1", "nst2", "done"} => cl.key = sv.key /\ cl.send >= 1
    /\ cl.pc = "nst2" => /\ cl.key = sv.key /\ sv.send > Planned /\ Expected = Planned
                         /\ next.ticket = issued
    /\ cl.pc = "done" => /\ cl.key = sv.key /\ sv.pc = "done" /\ Expected = Planned
                         /\ cred = [ticket |-> issued, companion |-> issued]

-----------------------------------------------------------------------------
(* What is in flight *)

(* What the i-th sealed record of Server carries. *)
ServerBody(n) == IF n < Planned THEN "pad"
                 ELSE IF n = Planned THEN "ticket"
                 ELSE IF n = Planned + 1 THEN "companion" ELSE "app"

(* The records that can be in flight now: what Client wrote, and what      *)
(* Server or the cover wrote.                                              *)
SentByClient ==
    {r \in ClientRecords :
        /\ r.kind = "hello" => /\ sv.pc = "hello" /\ r.full = cl.full
                               /\ "hello" \in altered => r.altered
        /\ r.kind = "sealed" => /\ r.key = cl.key /\ r.seq < cl.send
                                /\ r.seq > 0 => r.body = "app"}

SentByServer ==
    {r \in ServerRecords :
        /\ r.kind = "sh" => cl.pc = "sh" /\ ("sh" \in altered => r.altered)
        /\ r.kind = "ccs" => /\ sv.pc # "ccs"
                             /\ cl.pc \in {"sh", "ccs", "failed"} /\ cl.send = 0
                             /\ "ccs" \in altered /\ cl.pc # "failed" => r.altered
        /\ r.kind = "sealed" /\ sv.pc = "spliced" => r.key = CoverKey
        /\ r.kind = "sealed" /\ sv.pc # "spliced" =>
               /\ r.key = sv.key /\ r.seq < sv.send
               /\ r.body = ServerBody(r.seq)
               /\ r.body \in {"ticket", "companion"} => r.issue = issued}

(* The wires: nothing is lost from the middle, and without a cut nothing   *)
(* is lost at all.                                                         *)
ToServerInv ==
    /\ c2s \in Seq(SentByClient)
    /\ ServerLive => Contiguous(c2s, ServerRead)
    /\ ServerLive /\ ClientLive /\ ~cut => ServerRead + Len(c2s) = ClientWrote

ToClientInv ==
    /\ s2c \in Seq(SentByServer)
    /\ ClientLive => Contiguous(s2c, ClientRead)
    /\ ServerLive /\ ClientLive /\ ~cut => ClientRead + Len(s2c) = ServerWrote

(* What an alteration has done, or is about to do. *)
AlteredInv ==
    /\ "hello" \in altered => \/ sv.pc \in {"hello", "notours", "spliced"}
                              \/ sv.key = <<TRUE, FALSE>>
    /\ "sh" \in altered => /\ sv.pc \notin {"hello", "sh", "notours"}
                           /\ cl.pc = "sh" \/ cl.key \in {NoKey, <<FALSE, TRUE>>}
    /\ "ccs" \in altered => /\ sv.pc \notin {"hello", "sh", "ccs", "notours"}
                            /\ cl.pc \in {"sh", "ccs", "failed"} /\ cl.send = 0

(* The inductive invariant behind CompletionAgrees, AlteredNeverCompletes  *)
(* and StreamsAligned.                                                     *)
OpeningInv ==
    /\ TypeInv
    /\ ClientInv
    /\ ServerInv
    /\ BothInv
    /\ ToServerInv
    /\ ToClientInv
    /\ AlteredInv

-----------------------------------------------------------------------------
(* Sequences *)

(* Taking the first element off a sequence. *)
LEMMA TailFacts ==
    ASSUME NEW S, NEW s \in Seq(S), s # <<>>
    PROVE  /\ Head(s) = s[1] /\ Head(s) \in S /\ 1 \in 1..Len(s)
           /\ Tail(s) \in Seq(S) /\ Len(Tail(s)) = Len(s) - 1 /\ Len(s) \in Nat
           /\ \A i \in 1..(Len(s) - 1) : i + 1 \in 1..Len(s) /\ Tail(s)[i] = s[i + 1]
<1>1. Len(s) \in Nat /\ Len(s) # 0
  BY EmptySeq, LenProperties
<1>2. Head(s) = s[1] /\ Head(s) \in S /\ 1 \in 1..Len(s)
  BY <1>1, HeadTailProperties, ElementOfSeq
<1>3. Tail(s) \in Seq(S) /\ Len(Tail(s)) = Len(s) - 1 /\ \A i \in 1..Len(Tail(s)) : Tail(s)[i] = s[i + 1]
  BY HeadTailProperties
<1>4. \A i \in 1..(Len(s) - 1) : i + 1 \in 1..Len(s)
  BY ONLY <1>1
<1> QED
  BY <1>1, <1>2, <1>3, <1>4

(* A sequence over S whose elements are all in T. *)
LEMMA SeqNarrow ==
    ASSUME NEW S, NEW T, NEW s \in Seq(S), \A i \in 1..Len(s) : s[i] \in T
    PROVE  s \in Seq(T)
BY LenProperties, SeqDef

(* One record of a sequence is altered. *)
LEMMA AlterFacts ==
    ASSUME NEW S, NEW s \in Seq(S), NEW i \in DOMAIN s
    PROVE  /\ i \in 1..Len(s)
           /\ Len([s EXCEPT ![i].altered = TRUE]) = Len(s)
           /\ DOMAIN [s EXCEPT ![i].altered = TRUE] = 1..Len(s)
           /\ \A j \in 1..Len(s) : [s EXCEPT ![i].altered = TRUE][j] =
                  IF j = i THEN [s[i] EXCEPT !.altered = TRUE] ELSE s[j]
<1>1. Len(s) \in Nat /\ DOMAIN s = 1..Len(s)
  BY LenProperties
<1>2. [s EXCEPT ![i].altered = TRUE] =
          [j \in 1..Len(s) |-> IF j = i THEN [s[i] EXCEPT !.altered = TRUE] ELSE s[j]]
  BY <1>1
<1>3. Len([j \in 1..Len(s) |-> IF j = i THEN [s[i] EXCEPT !.altered = TRUE] ELSE s[j]]) = Len(s)
  BY <1>1, IsASeq
<1> QED
  BY <1>1, <1>2, <1>3

(* One record of a wire is altered. *)
LEMMA AlterSeq ==
    ASSUME NEW S, NEW s \in Seq(S), NEW i \in DOMAIN s, NEW T,
           \A j \in 1..Len(s) : j # i => s[j] \in T,
           [s[i] EXCEPT !.altered = TRUE] \in T
    PROVE  [s EXCEPT ![i].altered = TRUE] \in Seq(T)
<1>1. Len(s) \in Nat /\ DOMAIN s = 1..Len(s)
  BY LenProperties
<1>2. [s EXCEPT ![i].altered = TRUE] \in [1..Len(s) -> T]
  BY <1>1
<1> DEFINE f == [s EXCEPT ![i].altered = TRUE]
<1> HIDE DEF f
<1>3. \E n \in Nat : f \in [1..n -> T]
  BY <1>1, <1>2, Zenon DEF f
<1>4. f \in Seq(T)
  BY <1>3, SeqDef
<1> QED
  BY <1>4 DEF f

(* Writing to a socket. *)
LEMMA PutSeq ==
    ASSUME NEW S, NEW s \in Seq(S), NEW r \in S
    PROVE  Put(s, r) \in Seq(S)
BY AppendProperties DEF Put

-----------------------------------------------------------------------------
(* Proof of the types *)

(* The records the two ends write. *)
LEMMA RecordTypes ==
    ASSUME TypeOK
    PROVE  /\ \A full \in BOOLEAN : Hello(full) \in ClientRecords
           /\ Plain("clientccs") \in ClientRecords
           /\ Plain("sh") \in ServerRecords /\ Plain("ccs") \in ServerRecords
           /\ \A body \in {"pad", "ticket", "companion", "app"}, n \in Nat :
                 /\ Sealed(cl, body, n) \in SealedRecords
                 /\ Sealed(sv, body, n) \in SealedRecords
                 /\ Sealed([sv EXCEPT !.key = CoverKey], body, n) \in SealedRecords
<1>1. /\ cl.key \in Keys /\ cl.send \in Nat /\ sv \in Ends /\ sv.key \in Keys /\ sv.send \in Nat
      /\ cred.ticket \in Nat /\ cred.companion \in Nat
  BY DEF TypeOK, Ends, Keys, Credentials
<1>2. \A full \in BOOLEAN : Hello(full) \in HelloRecords
  BY <1>1 DEF Hello, HelloRecords
<1>3. /\ Plain("clientccs") \in PlainRecords({"clientccs"})
      /\ Plain("sh") \in PlainRecords({"sh", "ccs"}) /\ Plain("ccs") \in PlainRecords({"sh", "ccs"})
  BY DEF Plain, PlainRecords
<1>4. \A body \in {"pad", "ticket", "companion", "app"}, n \in Nat :
          Sealed(cl, body, n) \in SealedRecords /\ Sealed(sv, body, n) \in SealedRecords
  BY <1>1 DEF Sealed, SealedRecords
<1>5. [sv EXCEPT !.key = CoverKey].key = CoverKey /\ [sv EXCEPT !.key = CoverKey].send = sv.send
  BY <1>1 DEF Ends
<1>6. \A body \in {"pad", "ticket", "companion", "app"}, n \in Nat :
          Sealed([sv EXCEPT !.key = CoverKey], body, n) \in SealedRecords
  BY <1>1, <1>5 DEF Sealed, SealedRecords
<1> QED
  BY <1>2, <1>3, <1>4, <1>6 DEF ClientRecords, ServerRecords

(* An alteration keeps the type of a record. *)
LEMMA AlterTypes ==
    /\ \A r \in ClientRecords : [r EXCEPT !.altered = TRUE] \in ClientRecords
    /\ \A r \in ServerRecords : [r EXCEPT !.altered = TRUE] \in ServerRecords
<1>1. \A r \in HelloRecords : [r EXCEPT !.altered = TRUE] \in HelloRecords
  BY DEF HelloRecords
<1>2. \A kinds : \A r \in PlainRecords(kinds) : [r EXCEPT !.altered = TRUE] \in PlainRecords(kinds)
  BY DEF PlainRecords
<1>3. \A r \in SealedRecords : [r EXCEPT !.altered = TRUE] \in SealedRecords
  BY DEF SealedRecords
<1> QED
  BY <1>1, <1>2, <1>3 DEF ClientRecords, ServerRecords

(* The lengths of the remainders. *)
LEMMA ProfileTypes ==
    ASSUME TypeOK
    PROVE  /\ \A full \in BOOLEAN : Drawn(full) \in Nat
           /\ Expected \in Nat /\ Planned \in Nat
<1>1. serverFull \in Nat /\ cl.full \in BOOLEAN /\ sv.full \in BOOLEAN
  BY CoverAssumption DEF TypeOK, Ends
<1> QED
  BY <1>1, CoverAssumption DEF Drawn, Expected, Planned

(* Initial states have the types. *)
LEMMA TypesInit == Init => TypeInv
<1> SUFFICES ASSUME Init PROVE TypeInv
  OBVIOUS
<1>1. End("idle", FALSE, 0, NoKey) \in Ends
  BY DEF End, Ends, Pcs, Ended, NoKey
<1>2. cred \in Credentials /\ next \in Credentials /\ issued \in Nat /\ dials \in 0..MaxDials
  BY BoundAssumption DEF Init, Credentials
<1>3. cut \in BOOLEAN /\ clean \in BOOLEAN /\ tried \subseteq BOOLEAN /\ spent \subseteq Nat \X BOOLEAN
  BY Zenon DEF Init
<1>4. serverFull \in ServerFulls /\ cl \in Ends /\ sv \in Ends
  BY <1>1 DEF Init
<1>5. c2s \in Seq(ClientRecords) /\ s2c \in Seq(ServerRecords)
  BY EmptySeq DEF Init
<1>6. sv.pc # "hello"
  BY DEF Init, End
<1> QED
  BY <1>2, <1>3, <1>4, <1>5, <1>6 DEF TypeInv, TypeOK

(* The updates of an end that the steps make. *)
LEMMA EndTypes ==
    ASSUME NEW e \in Ends, NEW pc \in Pcs, NEW key \in Keys
    PROVE  /\ e.send \in Nat /\ e.recv \in Nat /\ e.rem \in Nat /\ e.full \in BOOLEAN /\ e.key \in Keys
           /\ [e EXCEPT !.send = @ + 1] \in Ends
           /\ e.rem > 0 => [e EXCEPT !.rem = @ - 1, !.recv = @ + 1] \in Ends
           /\ e.rem > 0 => [e EXCEPT !.rem = @ - 1, !.send = @ + 1] \in Ends
           /\ [e EXCEPT !.pc = pc] \in Ends
           /\ [e EXCEPT !.pc = pc, !.send = @ + 1] \in Ends
           /\ [e EXCEPT !.pc = pc, !.recv = @ + 1] \in Ends
           /\ [e EXCEPT !.pc = pc, !.key = key] \in Ends
<1> DEFINE s == e.send + 1
           v == e.recv + 1
           m == e.rem - 1
<1>0. Ends = [pc : Pcs, full : BOOLEAN, rem : Nat, send : Nat, recv : Nat, key : Keys]
  BY DEF Ends, Keys
<1>1. e.send \in Nat /\ e.recv \in Nat /\ e.rem \in Nat /\ e.full \in BOOLEAN /\ e.key \in Keys
  BY <1>0
<1>2. s \in Nat /\ v \in Nat /\ (e.rem > 0 => m \in Nat)
  BY <1>1
<1> HIDE DEF s, v, m
<1>3. [e EXCEPT !.send = s] \in Ends
  BY <1>0, <1>2
<1>4. e.rem > 0 => [e EXCEPT !.rem = m, !.recv = v] \in Ends
  BY <1>0, <1>2
<1>5. e.rem > 0 => [e EXCEPT !.rem = m, !.send = s] \in Ends
  BY <1>0, <1>2
<1>6. [e EXCEPT !.pc = pc] \in Ends
  BY <1>0
<1>7. [e EXCEPT !.pc = pc, !.send = s] \in Ends
  BY <1>0, <1>2
<1>8. [e EXCEPT !.pc = pc, !.recv = v] \in Ends
  BY <1>0, <1>2
<1>9. [e EXCEPT !.pc = pc, !.key = key] \in Ends
  BY <1>0
<1> QED
  BY <1>1, <1>3, <1>4, <1>5, <1>6, <1>7, <1>8, <1>9 DEF s, v, m

(* A fresh end. *)
LEMMA FreshEnd ==
    \A pc \in Pcs, full \in BOOLEAN, rem \in Nat, key \in Keys : End(pc, full, rem, key) \in Ends
BY DEF End, Ends, Keys

(* Every step keeps the types of the two ends. *)
LEMMA EndsNext == TypeInv /\ [Next]_vars => cl' \in Ends /\ sv' \in Ends
<1> SUFFICES ASSUME TypeInv, [Next]_vars PROVE cl' \in Ends /\ sv' \in Ends
  OBVIOUS
<1>a. /\ cl \in Ends /\ sv \in Ends /\ c2s \in Seq(ClientRecords) /\ s2c \in Seq(ServerRecords)
  BY DEF TypeInv, TypeOK
<1>b. /\ "sh" \in Pcs /\ "ccs" \in Pcs /\ "rem" \in Pcs /\ "fin" \in Pcs /\ "nst1" \in Pcs
      /\ "nst2" \in Pcs /\ "done" \in Pcs /\ "failed" \in Pcs /\ "hello" \in Pcs
      /\ "notours" \in Pcs /\ "spliced" \in Pcs
  BY DEF Pcs, Ended
<1>c. \A h, s \in BOOLEAN : Transcript(h, s) \in Keys
  BY DEF Transcript, Keys
<1>d. NoKey \in Keys
  BY DEF Keys
<1>1. ASSUME NEW full \in BOOLEAN, ClientHello(full) PROVE cl' \in Ends /\ sv' \in Ends
  BY <1>1, <1>b, <1>d, FreshEnd, CoverAssumption DEF ClientHello
<1>2. ASSUME ClientReadServerHello PROVE cl' \in Ends /\ sv' = sv
  <2>1. Head(s2c).altered \in BOOLEAN /\ sv' = sv
    <3>1. Head(s2c) \in ServerRecords /\ sv' = sv
      BY <1>2, <1>a, TailFacts DEF ClientReadServerHello, ClientReads
    <3> QED
      BY <3>1 DEF ServerRecords, PlainRecords, SealedRecords
  <2>2. \/ cl' = [cl EXCEPT !.pc = "ccs", !.key = Transcript(FALSE, Head(s2c).altered)]
        \/ cl' = [cl EXCEPT !.pc = "failed"]
    BY <1>2 DEF ClientReadServerHello
  <2>3. Transcript(FALSE, Head(s2c).altered) \in Keys
    BY <1>c, <2>1
  <2>4. CASE cl' = [cl EXCEPT !.pc = "ccs", !.key = Transcript(FALSE, Head(s2c).altered)]
    BY <1>a, <1>b, <2>1, <2>3, <2>4, EndTypes, Zenon
  <2>5. CASE cl' = [cl EXCEPT !.pc = "failed"]
    BY <1>a, <1>b, <1>d, <2>1, <2>5, EndTypes, Zenon
  <2> QED
    BY <2>2, <2>4, <2>5
<1>3. ASSUME ClientReadCCS \/ ClientSendCCS \/ ClientSendFinished \/ ClientReadTicket
             \/ ClientReadCompanion \/ ClientError
      PROVE  cl' \in Ends /\ sv' = sv
  <2>1. /\ sv' = sv
        /\ \E pc \in Pcs : \/ cl' = [cl EXCEPT !.pc = pc]
                           \/ cl' = [cl EXCEPT !.pc = pc, !.send = @ + 1]
                           \/ cl' = [cl EXCEPT !.pc = pc, !.recv = @ + 1]
    BY <1>3, <1>b
    DEF ClientReads, ClientReadCCS, ClientSendCCS, ClientSendFinished,
        ClientReadTicket, ClientReadCompanion, ClientError
  <2>2. PICK pc \in Pcs : \/ cl' = [cl EXCEPT !.pc = pc]
                          \/ cl' = [cl EXCEPT !.pc = pc, !.send = @ + 1]
                          \/ cl' = [cl EXCEPT !.pc = pc, !.recv = @ + 1]
    BY <2>1, Zenon
  <2>3. cl.key \in Keys
    BY <1>a DEF Ends, Keys
  <2>4. /\ [cl EXCEPT !.pc = pc] \in Ends
        /\ [cl EXCEPT !.pc = pc, !.send = @ + 1] \in Ends
        /\ [cl EXCEPT !.pc = pc, !.recv = @ + 1] \in Ends
    BY <1>a, <2>3, EndTypes, Zenon
  <2> QED
    BY <2>1, <2>2, <2>4, Zenon
<1>4. ASSUME ClientReadRemainder PROVE cl' \in Ends /\ sv' = sv
  <2>1. /\ sv' = sv /\ cl.rem > 0
        /\ \/ cl' = [cl EXCEPT !.pc = "failed"]
           \/ cl' = [cl EXCEPT !.rem = @ - 1, !.recv = @ + 1]
    BY <1>4 DEF ClientReads, ClientReadRemainder, More
  <2>2. CASE cl' = [cl EXCEPT !.pc = "failed"]
    BY <1>a, <1>b, <1>d, <2>1, <2>2, EndTypes, Zenon
  <2>3. CASE cl' = [cl EXCEPT !.rem = @ - 1, !.recv = @ + 1]
    BY <1>a, <1>b, <1>d, <2>1, <2>3, EndTypes, Zenon
  <2> QED
    BY <2>1, <2>2, <2>3
<1>5. ASSUME ServerReadHello PROVE cl' = cl /\ sv' \in Ends
  <2>1. c2s # <<>> /\ cl' = cl /\ Head(c2s) \in HelloRecords
    BY <1>5, TailFacts DEF ServerReadHello, TypeInv
  <2>2. \/ sv' = End("sh", Head(c2s).full, Drawn(Head(c2s).full), Transcript(Head(c2s).altered, FALSE))
        \/ sv' = [sv EXCEPT !.pc = "notours"]
    BY <1>5 DEF ServerReadHello
  <2>3. CASE sv' = [sv EXCEPT !.pc = "notours"]
    BY <1>a, <1>b, <1>d, <2>1, <2>3, EndTypes, Zenon
  <2>4. CASE sv' = End("sh", Head(c2s).full, Drawn(Head(c2s).full), Transcript(Head(c2s).altered, FALSE))
    <3>1. Head(c2s).full \in BOOLEAN /\ Head(c2s).altered \in BOOLEAN
      BY <2>1 DEF HelloRecords
    <3>2. Drawn(Head(c2s).full) \in Nat /\ Transcript(Head(c2s).altered, FALSE) \in Keys
      BY <1>c, <3>1, ProfileTypes DEF TypeInv
    <3> QED
      BY <1>b, <2>1, <2>4, <3>1, <3>2, FreshEnd, Zenon
  <2> QED
    BY <2>2, <2>3, <2>4
<1>6. ASSUME \/ ServerSendHello \/ ServerSendCCS \/ ServerReadCCS \/ ServerReadFinished
             \/ ServerSendTicket \/ ServerSendCompanion \/ ServerError \/ CoverAnswers
      PROVE cl' = cl /\ sv' \in Ends
  <2>1. /\ cl' = cl
        /\ \E pc \in Pcs : \/ sv' = [sv EXCEPT !.pc = pc]
                           \/ sv' = [sv EXCEPT !.pc = pc, !.send = @ + 1]
                           \/ sv' = [sv EXCEPT !.pc = pc, !.recv = @ + 1]
    BY <1>6, <1>b
    DEF ServerWrites, ServerSendHello, ServerSendCCS, ServerReadCCS, CoverAnswers,
        ServerReadFinished, ServerSendTicket, ServerSendCompanion, ServerError
  <2> QED
    BY <1>a, <1>d, <2>1, EndTypes, Zenon
<1>7. ASSUME ServerSendRemainder PROVE cl' = cl /\ sv' \in Ends
  <2>1. cl' = cl /\ sv.rem > 0 /\ sv' = [sv EXCEPT !.rem = @ - 1, !.send = @ + 1]
    BY <1>7 DEF ServerWrites, ServerSendRemainder, More
  <2> QED
    BY <1>a, <1>b, <1>d, <2>1, EndTypes, Zenon
<1>8. ASSUME HangUp \/ Cut \/ Alter \/ UNCHANGED vars PROVE cl' = cl /\ sv' = sv
  BY <1>8 DEF HangUp, Cut, Alter, vars, ends
<1>9. ASSUME ClientWrites \/ ServerWritesApp PROVE cl' \in Ends /\ sv' \in Ends
  <2>1. \/ sv' = sv /\ cl' = [cl EXCEPT !.send = @ + 1]
        \/ cl' = cl /\ sv' = [sv EXCEPT !.send = @ + 1]
    BY <1>9 DEF ClientWrites, ServerWritesApp, ServerWrites
  <2> QED
    BY <1>a, <1>b, <1>d, <2>1, EndTypes, Zenon
<1> QED
  BY <1>a, <1>1, <1>2, <1>3, <1>4, <1>5, <1>6, <1>7, <1>8, <1>9 DEF Next, ClientStep, ServerStep

(* Every step keeps the types of the records in flight. *)
LEMMA WiresNext ==
    TypeInv /\ [Next]_vars => c2s' \in Seq(ClientRecords) /\ s2c' \in Seq(ServerRecords)
<1> SUFFICES ASSUME TypeInv, [Next]_vars
             PROVE  c2s' \in Seq(ClientRecords) /\ s2c' \in Seq(ServerRecords)
  OBVIOUS
<1>a. TypeOK /\ c2s \in Seq(ClientRecords) /\ s2c \in Seq(ServerRecords) /\ issued \in Nat
  BY DEF TypeInv, TypeOK
<1>b. /\ Plain("clientccs") \in ClientRecords
      /\ Plain("sh") \in ServerRecords /\ Plain("ccs") \in ServerRecords
      /\ \A body \in {"pad", "ticket", "companion", "app"}, n \in Nat :
            Sealed(cl, body, n) \in ClientRecords /\ Sealed(sv, body, n) \in ServerRecords
  BY <1>a, RecordTypes DEF ClientRecords, ServerRecords
<1>c. <<>> \in Seq(ClientRecords) /\ <<>> \in Seq(ServerRecords)
  BY EmptySeq
<1>1. ASSUME NEW full \in BOOLEAN, ClientHello(full)
      PROVE  c2s' \in Seq(ClientRecords) /\ s2c' \in Seq(ServerRecords)
  <2>1. c2s' = <<Hello(full)>> /\ s2c' = <<>>
    BY <1>1 DEF ClientHello
  <2>2. Hello(full) \in ClientRecords
    BY <1>a, RecordTypes
  <2> QED
    BY <1>c, <2>1, <2>2
<1>2. ASSUME \/ ClientReadServerHello \/ ClientReadCCS \/ ClientReadRemainder
             \/ ClientReadTicket \/ ClientReadCompanion
      PROVE  c2s' = c2s /\ s2c' \in Seq(ServerRecords)
  <2>1. c2s' = c2s /\ s2c # <<>> /\ s2c' = Tail(s2c)
    BY <1>2 DEF ClientReadServerHello, ClientReadCCS, ClientReadRemainder, ClientReadTicket,
                ClientReadCompanion, ClientReads
  <2> QED
    BY <1>a, <2>1, TailFacts
<1>3. ASSUME ClientSendCCS \/ ClientSendFinished \/ ClientWrites
      PROVE  c2s' \in Seq(ClientRecords) /\ s2c' = s2c
  <2>1. /\ s2c' = s2c
        /\ \E r \in ClientRecords : c2s' = Put(c2s, r)
    BY <1>3, <1>b DEF ClientSendCCS, ClientSendFinished, ClientWrites
  <2> QED
    BY <1>a, <2>1, PutSeq
<1>4. ASSUME ServerReadHello \/ ServerReadCCS \/ ServerReadFinished
      PROVE  c2s' \in Seq(ClientRecords) /\ s2c' = s2c
  <2>1. s2c' = s2c /\ c2s # <<>> /\ c2s' = Tail(c2s)
    BY <1>4 DEF ServerReadHello, ServerReadCCS, ServerReadFinished
  <2> QED
    BY <1>a, <2>1, TailFacts
<1>5. ASSUME \/ ServerSendHello \/ ServerSendCCS \/ ServerSendRemainder \/ ServerSendTicket
             \/ ServerSendCompanion \/ ServerWritesApp
      PROVE  c2s' = c2s /\ s2c' \in Seq(ServerRecords)
  <2>1. issued + 1 \in Nat
    BY <1>a
  <2>2. /\ c2s' = c2s
        /\ \E r \in ServerRecords : s2c' = Put(s2c, r)
    BY <1>5, <1>a, <1>b, <2>1
    DEF ServerSendHello, ServerSendCCS, ServerSendRemainder, ServerSendTicket,
        ServerSendCompanion, ServerWritesApp, ServerWrites, Issue
  <2> QED
    BY <1>a, <2>2, PutSeq
<1>6. ASSUME CoverAnswers PROVE c2s' = c2s /\ s2c' \in Seq(ServerRecords)
  <2> DEFINE x == [Plain("sh") EXCEPT !.altered = TRUE]
             y == Plain("ccs")
             z == Sealed([sv EXCEPT !.key = CoverKey], "pad", 0)
  <2>1. x \in ServerRecords /\ y \in ServerRecords /\ z \in ServerRecords
    BY <1>a, RecordTypes, AlterTypes DEF ServerRecords
  <2>2. c2s' = c2s /\ s2c' = IF cut THEN s2c ELSE <<x, y, z>>
    BY <1>6 DEF CoverAnswers
  <2> HIDE DEF x, y, z
  <2>3. <<x, y, z>> \in Seq(ServerRecords)
    BY <2>1
  <2> QED
    BY <1>a, <2>2, <2>3
<1>7. ASSUME ClientError \/ ServerError \/ HangUp \/ Cut \/ UNCHANGED vars
      PROVE  c2s' \in {c2s, <<>>} /\ s2c' \in {s2c, <<>>}
  BY <1>7 DEF ClientError, ServerError, HangUp, Cut, vars, wires
<1>8. ASSUME Alter PROVE c2s' \in Seq(ClientRecords) /\ s2c' \in Seq(ServerRecords)
  <2>1. ASSUME NEW i \in DOMAIN c2s, c2s' = [c2s EXCEPT ![i].altered = TRUE]
        PROVE  c2s' \in Seq(ClientRecords)
    <3>1. \A j \in 1..Len(c2s) : c2s[j] \in ClientRecords
      BY <1>a, ElementOfSeq
    <3>2. c2s[i] \in ClientRecords
      BY <1>a, <3>1, LenProperties
    <3> QED
      BY <1>a, <2>1, <3>1, <3>2, AlterTypes, AlterSeq
  <2>2. ASSUME NEW i \in DOMAIN s2c, s2c' = [s2c EXCEPT ![i].altered = TRUE]
        PROVE  s2c' \in Seq(ServerRecords)
    <3>1. \A j \in 1..Len(s2c) : s2c[j] \in ServerRecords
      BY <1>a, ElementOfSeq
    <3>2. s2c[i] \in ServerRecords
      BY <1>a, <3>1, LenProperties
    <3> QED
      BY <1>a, <2>2, <3>1, <3>2, AlterTypes, AlterSeq
  <2> QED
    BY <1>8, <1>a, <2>1, <2>2 DEF Alter
<1> QED
  BY <1>a, <1>c, <1>1, <1>2, <1>3, <1>4, <1>5, <1>6, <1>7, <1>8 DEF Next, ClientStep, ServerStep

(* A credential with one ticket replaced. *)
LEMMA CredentialTypes ==
    ASSUME NEW c \in Credentials, NEW n \in Nat
    PROVE  /\ [c EXCEPT !.ticket = n] \in Credentials /\ [c EXCEPT !.companion = n] \in Credentials
BY DEF Credentials

(* Every step keeps the types of the credentials and of the counters. *)
LEMMA CountersNext ==
    TypeInv /\ [Next]_vars =>
        /\ serverFull' \in ServerFulls
        /\ cut' \in BOOLEAN /\ clean' \in BOOLEAN /\ tried' \subseteq BOOLEAN
        /\ cred' \in Credentials /\ next' \in Credentials
        /\ spent' \subseteq Nat \X BOOLEAN
        /\ issued' \in Nat /\ dials' \in 0..MaxDials
<1> SUFFICES ASSUME TypeInv, [Next]_vars
             PROVE  /\ serverFull' \in ServerFulls
                    /\ cut' \in BOOLEAN /\ clean' \in BOOLEAN /\ tried' \subseteq BOOLEAN
                    /\ cred' \in Credentials /\ next' \in Credentials
                    /\ spent' \subseteq Nat \X BOOLEAN
                    /\ issued' \in Nat /\ dials' \in 0..MaxDials
  OBVIOUS
<1>a. /\ serverFull \in ServerFulls
      /\ cut \in BOOLEAN /\ clean \in BOOLEAN /\ tried \subseteq BOOLEAN
      /\ cred \in Credentials /\ next \in Credentials
      /\ spent \subseteq Nat \X BOOLEAN
      /\ issued \in Nat /\ dials \in 0..MaxDials
  BY DEF TypeInv, TypeOK
<1>1. serverFull' = serverFull
  BY DEF Next, ClientStep, ServerStep, ClientHello, ClientReads, ClientReadServerHello, ClientReadCCS,
         ClientReadRemainder, ClientSendCCS, ClientSendFinished, ClientReadTicket,
         ClientReadCompanion, ClientError, ServerReadHello, ServerWrites, ServerSendHello,
         ServerSendCCS, ServerSendRemainder, ServerReadCCS, ServerReadFinished,
         ServerSendTicket, ServerSendCompanion, ServerError, CoverAnswers, HangUp, Cut,
         Alter, ClientWrites, ServerWritesApp, vars
<1>2. ASSUME NEW full \in BOOLEAN, ClientHello(full)
      PROVE  /\ cut' = FALSE /\ clean' \in BOOLEAN /\ tried' \subseteq BOOLEAN
             /\ UNCHANGED <<cred, next, spent, issued>> /\ dials' \in 0..MaxDials
  <2>1. /\ cut' = FALSE /\ clean' = (full \notin tried) /\ tried' = tried \cup {full}
        /\ UNCHANGED <<cred, next, spent, issued>> /\ dials' = dials + 1 /\ dials < MaxDials
    BY <1>2 DEF ClientHello, creds
  <2>2. dials' \in 0..MaxDials
    BY <1>a, <2>1, BoundAssumption
  <2>3. clean' \in BOOLEAN /\ tried' \subseteq BOOLEAN
    BY <1>a, <2>1, Zenon
  <2> QED
    BY <2>1, <2>2, <2>3
<1>3. ASSUME \/ ClientReadServerHello \/ ClientReadCCS \/ ClientReadRemainder
             \/ ClientReadTicket \/ ClientReadCompanion
      PROVE  /\ UNCHANGED <<cut, clean, spent, issued, dials>>
             /\ tried' \in {tried, {}} /\ cred' \in Credentials /\ next' \in Credentials
  <2>1. UNCHANGED <<cut, clean, spent, issued, dials>> /\ tried' \in {tried, {}}
    BY <1>3 DEF ClientReadServerHello, ClientReadCCS, ClientReadRemainder, ClientReadTicket,
                ClientReadCompanion, ClientReads
  <2>2. CASE UNCHANGED <<cred, next>>
    BY <1>a, <2>1, <2>2
  <2>3. CASE ~UNCHANGED <<cred, next>>
    <3> DEFINE r == Head(s2c)
    <3>1. /\ r.kind = "sealed" /\ s2c # <<>>
          /\ \/ next' = [next EXCEPT !.ticket = r.issue] /\ cred' = cred
             \/ next' = [next EXCEPT !.companion = r.issue] /\ cred' = next'
      BY <1>3, <2>3 DEF ClientReadServerHello, ClientReadCCS, ClientReadRemainder,
                        ClientReadTicket, ClientReadCompanion, ClientReads, Opens
    <3>2. r \in ServerRecords
      BY <3>1, TailFacts DEF TypeInv
    <3>3. r.issue \in Nat
      BY <3>1, <3>2 DEF ServerRecords, PlainRecords, SealedRecords
    <3> QED
      BY <1>a, <2>1, <3>1, <3>3, CredentialTypes
  <2> QED
    BY <2>2, <2>3
<1>4. ASSUME ClientSendCCS \/ ClientSendFinished \/ ClientError \/ ClientWrites \/ ServerReadCCS
             \/ ServerReadFinished \/ ServerError \/ CoverAnswers \/ UNCHANGED vars
      PROVE  UNCHANGED <<cut, clean, tried, cred, next, spent, issued, dials>>
  BY <1>4 DEF ClientSendCCS, ClientSendFinished, ClientError, ClientWrites, ServerReadCCS,
              ServerReadFinished, ServerError, CoverAnswers, creds, wires, vars
<1>5. ASSUME ServerReadHello
      PROVE  UNCHANGED <<cut, clean, tried, cred, next, issued, dials>> /\ spent' \subseteq Nat \X BOOLEAN
  <2>1. /\ UNCHANGED <<cut, clean, tried, cred, next, issued, dials>> /\ c2s # <<>> /\ sv.pc = "hello"
        /\ \/ spent' = spent
           \/ spent' = spent \cup {<<Head(c2s).ticket, Head(c2s).full>>}
    BY <1>5 DEF ServerReadHello
  <2>2. Head(c2s) \in HelloRecords
    BY <2>1, TailFacts DEF TypeInv
  <2>3. Head(c2s).ticket \in Nat /\ Head(c2s).full \in BOOLEAN
    BY <2>2 DEF HelloRecords
  <2>4. <<Head(c2s).ticket, Head(c2s).full>> \in Nat \X BOOLEAN
    BY <2>3
  <2> QED
    BY <1>a, <2>1, <2>4
<1>6. ASSUME \/ ServerSendHello \/ ServerSendCCS \/ ServerSendRemainder \/ ServerSendTicket
             \/ ServerSendCompanion \/ ServerWritesApp
      PROVE  UNCHANGED <<cut, clean, tried, cred, next, spent, dials>> /\ issued' \in {issued, issued + 1}
  BY <1>6
  DEF ServerSendHello, ServerSendCCS, ServerSendRemainder, ServerSendTicket,
      ServerSendCompanion, ServerWritesApp, ServerWrites, Issue
<1>7. ASSUME HangUp \/ Cut \/ Alter
      PROVE  /\ UNCHANGED <<tried, cred, next, spent, issued, dials>>
             /\ cut' \in {cut, TRUE} /\ clean' \in {clean, FALSE}
  BY <1>7 DEF HangUp, Cut, Alter, creds
<1>8. ASSUME \/ UNCHANGED <<cred, next, spent, issued, dials, cut, clean, tried>>
             \/ \E full \in BOOLEAN : ClientHello(full)
             \/ HangUp \/ Cut \/ Alter
      PROVE  cut' \in BOOLEAN /\ clean' \in BOOLEAN
  BY <1>8, <1>2, <1>7, <1>a, Zenon
<1>9. CASE \E full \in BOOLEAN : ClientHello(full)
  BY <1>9, <1>1, <1>2, <1>8, <1>a
<1>10. CASE \/ ClientReadServerHello \/ ClientReadCCS \/ ClientReadRemainder
            \/ ClientReadTicket \/ ClientReadCompanion
  BY <1>10, <1>1, <1>3, <1>a
<1>11. CASE ClientSendCCS \/ ClientSendFinished \/ ClientError \/ ClientWrites \/ ServerReadCCS
            \/ ServerReadFinished \/ ServerError \/ CoverAnswers \/ UNCHANGED vars
  BY <1>11, <1>1, <1>4, <1>a
<1>12. CASE ServerReadHello
  BY <1>12, <1>1, <1>5, <1>a
<1>13. CASE \/ ServerSendHello \/ ServerSendCCS \/ ServerSendRemainder \/ ServerSendTicket
            \/ ServerSendCompanion \/ ServerWritesApp
  BY <1>13, <1>1, <1>6, <1>a
<1>14. CASE HangUp \/ Cut \/ Alter
  BY <1>14, <1>1, <1>7, <1>8, <1>a
<1> QED
  BY <1>9, <1>10, <1>11, <1>12, <1>13, <1>14 DEF Next, ClientStep, ServerStep

(* Server does not come back to its first read. *)
LEMMA ServerLeavesHello ==
    ASSUME sv \in Ends, ServerStep \/ CoverAnswers
    PROVE  sv'.pc # "hello"
<1>1. ASSUME ServerReadHello PROVE sv'.pc \in {"sh", "notours"}
  <2>1. \/ sv' = End("sh", Head(c2s).full, Drawn(Head(c2s).full), Transcript(Head(c2s).altered, FALSE))
        \/ sv' = [sv EXCEPT !.pc = "notours"]
    BY <1>1 DEF ServerReadHello
  <2>2. [sv EXCEPT !.pc = "notours"].pc = "notours"
    BY DEF Ends
  <2>3. End("sh", Head(c2s).full, Drawn(Head(c2s).full), Transcript(Head(c2s).altered, FALSE)).pc = "sh"
    BY DEF End
  <2> QED
    BY <2>1, <2>2, <2>3
<1>2. ASSUME ServerSendHello \/ ServerSendCCS \/ ServerReadCCS PROVE sv'.pc \in {"ccs", "rem", "fin"}
  BY <1>2 DEF ServerSendHello, ServerSendCCS, ServerReadCCS, Ends
<1>3. ASSUME ServerSendRemainder PROVE sv'.pc = "rem"
  <2>1. sv.pc = "rem" /\ sv' = [sv EXCEPT !.rem = @ - 1, !.send = @ + 1]
    BY <1>3 DEF ServerSendRemainder
  <2> QED
    BY <2>1 DEF Ends
<1>4. ASSUME ServerReadFinished PROVE sv'.pc \in {"nst1", "failed"}
  BY <1>4 DEF ServerReadFinished, Ends
<1>5. ASSUME ServerSendTicket \/ ServerSendCompanion PROVE sv'.pc \in {"nst2", "done"}
  <2>1. \/ sv' = [sv EXCEPT !.pc = "nst2", !.send = @ + 1]
        \/ sv' = [sv EXCEPT !.pc = "done", !.send = @ + 1]
    BY <1>5 DEF ServerSendTicket, ServerSendCompanion
  <2> QED
    BY <2>1 DEF Ends
<1>6. ASSUME ServerError \/ CoverAnswers PROVE sv'.pc \in {"notours", "failed", "spliced"}
  BY <1>6 DEF ServerError, CoverAnswers, Ends
<1> QED
  BY <1>1, <1>2, <1>3, <1>4, <1>5, <1>6 DEF ServerStep

(* While Server waits for its first record, only the hello can arrive. *)
LEMMA HelloFirstNext ==
    ASSUME TypeInv, [Next]_vars, sv'.pc = "hello"
    PROVE  c2s' \in Seq(HelloRecords) /\ s2c' = <<>> /\ cl'.pc \in {"sh", "failed"}
<1>a. cl \in Ends /\ sv \in Ends /\ TypeOK
  BY DEF TypeInv, TypeOK
<1>1. ASSUME NEW full \in BOOLEAN, ClientHello(full)
      PROVE  c2s' \in Seq(HelloRecords) /\ s2c' = <<>> /\ cl'.pc \in {"sh", "failed"}
  <2>1. c2s' = <<Hello(full)>> /\ s2c' = <<>> /\ cl'.pc = "sh"
    BY <1>1 DEF ClientHello, End
  <2>2. Hello(full) \in HelloRecords
    BY <1>a, RecordTypes DEF TypeOK, Credentials, Hello, HelloRecords
  <2> QED
    BY <2>1, <2>2
<1>2. ASSUME \A full \in BOOLEAN : ~ClientHello(full) PROVE sv.pc = "hello"
  <2>1. ASSUME ClientStep \/ HangUp \/ Cut \/ Alter \/ ClientWrites \/ UNCHANGED vars PROVE sv' = sv
    BY <2>1 DEF ClientStep, ClientReads, ClientReadServerHello, ClientReadCCS, ClientReadRemainder,
                ClientSendCCS, ClientSendFinished, ClientReadTicket, ClientReadCompanion,
                ClientError, HangUp, Cut, Alter, ClientWrites, vars, ends
  <2>2. ASSUME ServerStep \/ CoverAnswers PROVE sv'.pc # "hello"
    BY <2>2, <1>a, ServerLeavesHello
  <2>3. ASSUME ServerWritesApp PROVE sv'.pc # "hello"
    BY <2>3, <1>a DEF ServerWritesApp, Ends
  <2> QED
    BY <1>2, <2>1, <2>2, <2>3 DEF Next
<1>3. CASE sv.pc = "hello"
  <2>1. c2s \in Seq(HelloRecords) /\ s2c = <<>> /\ cl.pc \in {"sh", "failed"}
    BY <1>3 DEF TypeInv
  <2>2. ASSUME ClientStep PROVE c2s' = c2s /\ s2c' = s2c /\ cl'.pc = "failed"
    BY <2>1, <2>2, <1>a
    DEF ClientStep, ClientReads, ClientReadServerHello, ClientReadCCS, ClientReadRemainder,
        ClientSendCCS, ClientSendFinished, ClientReadTicket, ClientReadCompanion,
        ClientError, wires, Ends
  <2>3. ASSUME HangUp \/ Cut \/ UNCHANGED vars PROVE c2s' \in {c2s, <<>>} /\ s2c' = <<>> /\ cl' = cl
    BY <2>1, <2>3 DEF HangUp, Cut, vars, ends, wires
  <2>4. ASSUME Alter PROVE c2s' \in Seq(HelloRecords) /\ s2c' = <<>> /\ cl' = cl
    <3>1. PICK i \in DOMAIN c2s : c2s' = [c2s EXCEPT ![i].altered = TRUE] /\ s2c' = s2c /\ cl' = cl
      BY <2>1, <2>4 DEF Alter, ends
    <3>2. (\A j \in 1..Len(c2s) : c2s[j] \in HelloRecords) /\ c2s[i] \in HelloRecords
      BY <2>1, <3>1, LenProperties, ElementOfSeq
    <3>3. [c2s[i] EXCEPT !.altered = TRUE] \in HelloRecords
      BY <3>2 DEF HelloRecords
    <3>4. c2s' \in Seq(HelloRecords)
      BY <2>1, <3>1, <3>2, <3>3, AlterSeq
    <3> QED
      BY <2>1, <3>1, <3>4
  <2>5. ~CoverAnswers /\ ~ClientWrites /\ ~ServerWritesApp /\ (\A full \in BOOLEAN : ~ClientHello(full))
    BY <1>3, <2>1 DEF CoverAnswers, ClientWrites, ServerWritesApp, ClientHello, Ended
  <2>6. ~ServerStep
    BY <1>a, ServerLeavesHello
  <2> QED
    BY <2>1, <2>2, <2>3, <2>4, <2>5, <2>6, EmptySeq DEF Next
<1> QED
  BY <1>1, <1>2, <1>3

(* Every step keeps the types. *)
LEMMA TypesNext == TypeInv /\ [Next]_vars => TypeInv'
<1> SUFFICES ASSUME TypeInv, [Next]_vars PROVE TypeInv'
  OBVIOUS
<1>1. TypeOK'
  BY EndsNext, CountersNext DEF TypeOK
<1> QED
  BY <1>1, WiresNext, HelloFirstNext DEF TypeInv

(* Every variable of the opening keeps its type, whatever the profiles.    *)
THEOREM TypeCorrect == Spec => []TypeOK
<1>1. TypeInv => TypeOK
  BY DEF TypeInv
<1> QED
  BY <1>1, TypesInit, TypesNext, PTL DEF Spec

-----------------------------------------------------------------------------
(* Proof of OpeningInv *)

(* Keys from different transcripts differ. *)
LEMMA KeyFacts ==
    /\ NoKey # <<FALSE, FALSE>> /\ NoKey # <<FALSE, TRUE>> /\ NoKey # <<TRUE, FALSE>> /\ NoKey # CoverKey
    /\ <<FALSE, FALSE>> # <<FALSE, TRUE>> /\ <<FALSE, FALSE>> # <<TRUE, FALSE>>
    /\ <<FALSE, TRUE>> # <<TRUE, FALSE>>
    /\ CoverKey # <<FALSE, FALSE>> /\ CoverKey # <<FALSE, TRUE>> /\ CoverKey # <<TRUE, FALSE>>
BY DEF NoKey, CoverKey

(* The fields of an end, with the keys in one piece. *)
LEMMA EndShape == Ends = [pc : Pcs, full : BOOLEAN, rem : Nat, send : Nat, recv : Nat, key : Keys]
BY DEF Ends, Keys

(* A record that is taken off a stretch of records. *)
LEMMA ContiguousTail ==
    ASSUME NEW S, NEW w \in Seq(S), w # <<>>, NEW p \in Nat, Contiguous(w, p)
    PROVE  At(Head(w)) = p /\ Contiguous(Tail(w), p + 1)
<1>1. At(w[1]) = p + 1 - 1 /\ Head(w) = w[1]
  BY TailFacts DEF Contiguous
<1>2. p + 1 - 1 = p
  OBVIOUS
<1>3. ASSUME NEW i \in 1..Len(Tail(w)) PROVE At(Tail(w)[i]) = (p + 1) + i - 1
  <2>1. i \in 1..(Len(w) - 1)
    BY TailFacts, Zenon
  <2>2. i + 1 \in 1..Len(w) /\ Tail(w)[i] = w[i + 1]
    BY <2>1, TailFacts
  <2>3. At(Tail(w)[i]) = p + (i + 1) - 1
    BY <2>2, Zenon DEF Contiguous
  <2>4. i \in Int
    BY <2>1, TailFacts
  <2>5. p + (i + 1) - 1 = (p + 1) + i - 1
    BY ONLY <2>4, p \in Nat
  <2> QED
    BY <2>3, <2>5, Zenon
<1> QED
  BY <1>1, <1>2, <1>3 DEF Contiguous

(* A record is added to one. *)
LEMMA ContiguousAppend ==
    ASSUME NEW S, NEW w \in Seq(S), NEW r \in S, NEW p \in Nat, Contiguous(w, p), At(r) = p + Len(w)
    PROVE  Contiguous(Append(w, r), p) /\ Len(Append(w, r)) = Len(w) + 1
<1> DEFINE n == Len(w)
           v == Append(w, r)
<1>1. n \in Nat /\ Len(v) = n + 1 /\ (\A i \in 1..n : v[i] = w[i]) /\ v[n + 1] = r
  BY LenProperties, AppendProperties
<1> HIDE DEF v
<1>2. (\A i \in 1..n : At(w[i]) = p + i - 1) /\ At(r) = p + n
  BY DEF Contiguous
<1> HIDE DEF n
<1>3. ASSUME NEW i \in 1..(n + 1) PROVE At(v[i]) = p + i - 1
  <2>1. i \in 1..n \/ (i = n + 1 /\ p + n = p + i - 1)
    BY ONLY <1>1, i \in 1..(n + 1), p \in Nat
  <2> QED
    BY <1>1, <1>2, <2>1, Zenon
<1> QED
  BY <1>1, <1>3, Zenon DEF Contiguous, v, n

(* An altered record keeps its place. *)
LEMMA ContiguousAlter ==
    ASSUME NEW S, NEW w \in Seq(S), NEW i \in DOMAIN w, NEW p,
           [w[i] EXCEPT !.altered = TRUE].kind = w[i].kind,
           w[i].kind = "sealed" => [w[i] EXCEPT !.altered = TRUE].seq = w[i].seq,
           w[i].kind \in {"hello", "sh", "ccs", "clientccs", "sealed"},
           Contiguous(w, p)
    PROVE  Contiguous([w EXCEPT ![i].altered = TRUE], p)
<1>1. At([w[i] EXCEPT !.altered = TRUE]) = At(w[i])
  BY DEF At
<1>2. \A j \in 1..Len(w) : At([w EXCEPT ![i].altered = TRUE][j]) = At(w[j])
  BY <1>1, AlterFacts, Zenon
<1> QED
  BY <1>2, AlterFacts, Zenon DEF Contiguous

(* Records in flight are numbered with naturals. *)
LEMMA SealedTypes ==
    /\ \A r \in ClientRecords : /\ r.kind \in {"hello", "clientccs", "sealed"}
                                /\ r.kind = "sealed" => r.seq \in Nat
    /\ \A r \in ServerRecords : /\ r.kind \in {"sh", "ccs", "sealed"}
                                /\ r.kind = "sealed" => r.seq \in Nat
BY DEF ClientRecords, ServerRecords, HelloRecords, PlainRecords, SealedRecords

(* How far the ends are is a natural number. *)
LEMMA PlaceTypes ==
    ASSUME TypeOK
    PROVE  ClientRead \in Nat /\ ServerRead \in Nat /\ ClientWrote \in Nat /\ ServerWrote \in Nat
<1>1. cl.recv \in Nat /\ cl.send \in Nat /\ sv.recv \in Nat /\ sv.send \in Nat
  BY DEF TypeOK, Ends
<1> QED
  BY <1>1 DEF ClientRead, ServerRead, ClientWrote, ServerWrote

(* Client takes a record: what stays in flight. *)
LEMMA ClientTakes ==
    ASSUME OpeningInv, s2c # <<>>, s2c' = Tail(s2c),
           serverFull' = serverFull, sv' = sv, c2s' = c2s, cut' = cut, issued' = issued,
           altered' = altered,
           cl'.full = cl.full, cl'.send = cl.send, cl'.key = cl.key \/ cl.send = 0,
           ClientLive, cl'.pc \notin {"idle", "sh"},
           cl.pc = "sh" => cl'.pc \in {"ccs", "failed"},
           cl'.pc = "failed" \/ (ClientRead' = ClientRead + 1 /\ ClientWrote' = ClientWrote)
    PROVE  ToServerInv' /\ ToClientInv'
<1>a. /\ TypeOK /\ c2s \in Seq(ClientRecords) /\ s2c \in Seq(ServerRecords)
      /\ c2s \in Seq(SentByClient) /\ s2c \in Seq(SentByServer) /\ ClientRead \in Nat
  BY PlaceTypes DEF OpeningInv, TypeInv, ToServerInv, ToClientInv
<1>1. ToServerInv'
  <2>1. SentByClient \subseteq SentByClient'
    BY SealedTypes DEF SentByClient
  <2>2. c2s' \in Seq(SentByClient')
    BY <1>a, <2>1, SeqMonotonic
  <2>3. ServerRead' = ServerRead /\ (ServerLive' <=> ServerLive)
    BY DEF ServerRead, ServerLive
  <2>4. (ServerLive => Contiguous(c2s, ServerRead))'
    BY <2>3 DEF OpeningInv, ToServerInv, Contiguous
  <2>5. (ServerLive /\ ClientLive /\ ~cut => ServerRead + Len(c2s) = ClientWrote)'
    BY <2>3 DEF OpeningInv, ToServerInv, ClientLive
  <2> QED
    BY <2>2, <2>4, <2>5, Zenon DEF ToServerInv
<1>2. Contiguous(s2c, ClientRead)
  BY DEF OpeningInv, ToClientInv
<1>3. Contiguous(s2c', ClientRead + 1)
  BY <1>a, <1>2, ContiguousTail
<1>4. s2c' \in Seq(SentByServer) /\ Len(s2c') = Len(s2c) - 1 /\ Len(s2c) \in Nat
  BY <1>a, TailFacts
<1>5. ASSUME NEW i \in 1..Len(s2c') PROVE s2c'[i] \in SentByServer'
  <2> DEFINE r == s2c'[i]
  <2>1. r \in SentByServer /\ At(r) = (ClientRead + 1) + i - 1
    BY <1>3, <1>4, ElementOfSeq DEF Contiguous
  <2>2. (ClientRead + 1) + i - 1 > ClientRead /\ i \in Int
    BY <1>a, <1>4
  <2>3. r.kind # "sh"
    BY <1>a, <2>1, <2>2 DEF At
  <2>4. r.kind = "ccs" => cl.pc = "sh"
    <3> SUFFICES ASSUME r.kind = "ccs" PROVE cl.pc = "sh"
      OBVIOUS
    <3>1. At(r) = 1
      BY DEF At
    <3>2. ClientRead = 0
      BY ONLY <1>a, <1>4, <2>1, <3>1, i \in 1..Len(s2c')
    <3>3. cl.recv \in Nat
      BY <1>a DEF TypeOK, Ends
    <3> QED
      BY ONLY <3>2, <3>3 DEF ClientRead
  <2> HIDE DEF r
  <2> QED
    BY <2>1, <2>3, <2>4 DEF SentByServer, ServerBody, Planned, Drawn, r
<1>6. s2c' \in Seq(SentByServer')
  BY <1>4, <1>5, SeqNarrow
<1>7. (ClientLive => Contiguous(s2c, ClientRead))'
  BY <1>3 DEF ClientLive
<1>8. (ServerLive /\ ClientLive /\ ~cut => ClientRead + Len(s2c) = ServerWrote)'
  <2> SUFFICES ASSUME ServerLive', ClientLive', ~cut' PROVE ClientRead' + Len(s2c') = ServerWrote'
    OBVIOUS
  <2>1. ServerLive /\ ServerWrote' = ServerWrote
    BY DEF ServerLive, ServerWrote
  <2>2. ClientRead + Len(s2c) = ServerWrote
    BY <2>1 DEF OpeningInv, ToClientInv
  <2>3. ClientRead' = ClientRead + 1
    BY DEF ClientLive
  <2> QED
    BY <1>a, <1>4, <2>1, <2>2, <2>3
<1> QED
  BY <1>1, <1>6, <1>7, <1>8, Zenon DEF ToClientInv

(* A step that leaves Server and the shape alone. *)
LEMMA ServerKept ==
    ASSUME ServerInv, sv' = sv, serverFull' = serverFull, cl'.full = cl.full
    PROVE  ServerInv'
BY DEF ServerInv, Planned, Drawn

(* Client takes a record: what the two ends agree on, except for what the  *)
(* tickets add.                                                            *)
LEMMA ClientTakesBoth ==
    ASSUME OpeningInv, s2c # <<>>, sv' = sv, c2s' = c2s, cut' = cut, altered' = altered,
           serverFull' = serverFull, issued' = issued,
           cl'.full = cl.full, cl'.send = cl.send, cl'.key = cl.key \/ cl.send = 0,
           ClientLive, cl'.pc \notin {"idle", "sh"},
           sv.pc = "ccs" => cut \/ cl'.pc \in {"ccs", "failed"},
           cl'.pc = "nst2" => /\ cl'.key = sv.key /\ sv.send > Planned /\ Expected = Planned
                              /\ next'.ticket = issued,
           cl'.pc = "done" => /\ cl'.key = sv.key /\ sv.pc = "done" /\ Expected = Planned
                              /\ cred' = [ticket |-> issued, companion |-> issued],
           "sh" \in altered => cl'.key \in {NoKey, <<FALSE, TRUE>>},
           "ccs" \in altered => cl'.pc \in {"sh", "ccs", "failed"}
    PROVE  BothInv' /\ AlteredInv'
<1>a. cl.send \in Nat /\ BothInv /\ AlteredInv /\ cl.pc # "idle"
  BY DEF OpeningInv, TypeInv, TypeOK, Ends, ClientLive
<1>b. sv.pc \notin {"hello", "sh", "notours"}
  BY <1>a DEF BothInv
<1>c. Planned' = Planned /\ Expected' = Expected
  BY DEF Planned, Drawn, Expected
<1>1. BothInv'
  BY <1>a, <1>b, <1>c DEF BothInv
<1>2. AlteredInv'
  BY <1>a DEF AlteredInv
<1> QED
  BY <1>1, <1>2

(* Client reads the ServerHello. *)
LEMMA NextReadServerHello ==
    ASSUME OpeningInv, TypeInv', ClientReadServerHello
    PROVE  OpeningInv'
<1>a. /\ cl \in Ends /\ TypeOK /\ s2c \in Seq(SentByServer) /\ ClientInv /\ ServerInv
      /\ Contiguous(s2c, ClientRead) /\ AlteredInv /\ BothInv
  BY DEF OpeningInv, TypeInv, TypeOK, ToClientInv, ClientLive, ClientReadServerHello, ClientReads
<1>b. /\ cl.pc = "sh" /\ s2c # <<>> /\ s2c' = Tail(s2c)
      /\ serverFull' = serverFull /\ sv' = sv /\ c2s' = c2s /\ cut' = cut /\ issued' = issued
      /\ altered' = altered
  BY DEF ClientReadServerHello, ClientReads
<1>c. Head(s2c) \in SentByServer /\ At(Head(s2c)) = 0
  BY <1>a, <1>b, TailFacts, ContiguousTail DEF ClientRead
<1>d. Head(s2c).kind = "sh" /\ Head(s2c).altered \in BOOLEAN /\ ("sh" \in altered => Head(s2c).altered)
  <2>1. Head(s2c) \in ServerRecords
    BY <1>c DEF SentByServer
  <2>2. Head(s2c).kind = "sh"
    BY <1>c, <2>1, SealedTypes DEF At
  <2>3. Head(s2c).altered \in BOOLEAN
    BY <2>1 DEF ServerRecords, PlainRecords, SealedRecords
  <2> QED
    BY <1>c, <2>2, <2>3 DEF SentByServer
<1>e. /\ cl'.full = cl.full /\ cl'.send = cl.send /\ cl'.recv = cl.recv /\ cl'.rem = cl.rem
      /\ \/ cl'.pc = "ccs" /\ cl'.key = <<FALSE, Head(s2c).altered>>
         \/ cl'.pc = "failed" /\ cl'.key = cl.key
  <2>1. \/ cl' = [cl EXCEPT !.pc = "ccs", !.key = <<FALSE, Head(s2c).altered>>]
        \/ cl' = [cl EXCEPT !.pc = "failed"]
    BY DEF ClientReadServerHello, Transcript
  <2>2. cl \in Ends
    BY <1>a
  <2> QED
    BY ONLY <2>1, <2>2, EndShape
<1>f. cl.send = 0 /\ cl.key = NoKey /\ cl.recv = 0 /\ ClientLive
  BY <1>a, <1>b DEF ClientInv, ClientLive
<1>1. ClientInv'
  <2>1. Expected' = Expected
    BY <1>e DEF Expected
  <2>2. cl'.key \in {NoKey, <<FALSE, FALSE>>, <<FALSE, TRUE>>}
    BY <1>d, <1>e, <1>f
  <2>3. cl'.pc = "ccs" => cl'.key # NoKey
    BY <1>d, <1>e, KeyFacts
  <2> QED
    BY <1>a, <1>b, <1>e, <1>f, <2>1, <2>2, <2>3 DEF ClientInv
<1>2. ServerInv'
  BY <1>a, <1>b, <1>e, ServerKept
<1>3. BothInv' /\ AlteredInv'
  <2>1. "sh" \in altered => cl'.key \in {NoKey, <<FALSE, TRUE>>}
    BY <1>d, <1>e, <1>f
  <2> QED
    BY <1>b, <1>e, <1>f, <2>1, ClientTakesBoth
<1>4. ToServerInv' /\ ToClientInv'
  <2>1. cl'.pc = "ccs" => ClientRead' = ClientRead + 1 /\ ClientWrote' = ClientWrote
    BY <1>b, <1>e DEF ClientRead, ClientWrote
  <2> QED
    BY <1>b, <1>e, <1>f, <2>1, ClientTakes
<1> QED
  BY <1>1, <1>2, <1>3, <1>4, Zenon DEF OpeningInv

(* Client reads the ChangeCipherSpec. *)
LEMMA NextReadCCS ==
    ASSUME OpeningInv, TypeInv', ClientReadCCS
    PROVE  OpeningInv'
<1>a. /\ cl \in Ends /\ TypeOK /\ s2c \in Seq(SentByServer) /\ ClientInv /\ ServerInv
      /\ Contiguous(s2c, ClientRead) /\ AlteredInv /\ BothInv /\ ToClientInv
  BY DEF OpeningInv, TypeInv, TypeOK, ToClientInv, ClientLive, ClientReadCCS, ClientReads
<1>b. /\ cl.pc = "ccs" /\ s2c # <<>> /\ s2c' = Tail(s2c)
      /\ serverFull' = serverFull /\ sv' = sv /\ c2s' = c2s /\ cut' = cut /\ issued' = issued
      /\ altered' = altered
  BY DEF ClientReadCCS, ClientReads
<1>c. Head(s2c) \in SentByServer /\ At(Head(s2c)) = 1
  BY <1>a, <1>b, TailFacts, ContiguousTail DEF ClientRead
<1>d. Head(s2c).kind = "ccs" /\ ("ccs" \in altered => Head(s2c).altered)
  <2>1. Head(s2c) \in ServerRecords
    BY <1>c DEF SentByServer
  <2>2. Head(s2c).kind = "ccs"
    BY <1>c, <2>1, SealedTypes DEF At
  <2> QED
    BY <1>b, <1>c, <2>2 DEF SentByServer
<1>e. /\ cl'.full = cl.full /\ cl'.send = cl.send /\ cl'.recv = cl.recv /\ cl'.rem = cl.rem
      /\ cl'.key = cl.key
      /\ \/ cl'.pc = "rem" /\ ~Head(s2c).altered
         \/ cl'.pc = "failed"
  <2>1. \/ cl' = [cl EXCEPT !.pc = "rem"] /\ ~Head(s2c).altered
        \/ cl' = [cl EXCEPT !.pc = "failed"]
    BY DEF ClientReadCCS
  <2>2. cl \in Ends
    BY <1>a
  <2> QED
    BY ONLY <2>1, <2>2, EndShape
<1>f. cl.send = 0 /\ cl.recv = 0 /\ ClientLive
  BY <1>a, <1>b DEF ClientInv, ClientLive
<1>1. ClientInv'
  <2>1. Expected' = Expected
    BY <1>e DEF Expected
  <2> QED
    BY <1>a, <1>b, <1>e, <1>f, <2>1 DEF ClientInv
<1>2. ServerInv'
  BY <1>a, <1>b, <1>e, ServerKept
<1>3. BothInv' /\ AlteredInv'
  <2>1. "ccs" \in altered => cl'.pc = "failed"
    BY <1>d, <1>e
  <2>2. "sh" \in altered => cl'.key \in {NoKey, <<FALSE, TRUE>>}
    BY <1>a, <1>b, <1>e DEF AlteredInv
  <2>3. sv.pc = "ccs" => cut
    <3> SUFFICES ASSUME sv.pc = "ccs", ~cut PROVE FALSE
      OBVIOUS
    <3>1. ClientRead + Len(s2c) = ServerWrote
      BY <1>a, <1>f DEF ToClientInv, ServerLive
    <3>2. 1 + Len(s2c) = 1 /\ Len(s2c) \in Nat \ {0}
      BY <1>a, <1>b, <3>1, EmptySeq DEF ClientRead, ServerWrote
    <3> QED
      BY <3>2
  <2> QED
    BY <1>b, <1>e, <1>f, <2>1, <2>2, <2>3, ClientTakesBoth
<1>4. ToServerInv' /\ ToClientInv'
  <2>1. cl'.pc = "rem" => ClientRead' = ClientRead + 1 /\ ClientWrote' = ClientWrote
    BY <1>b, <1>e, <1>f DEF ClientRead, ClientWrote
  <2> QED
    BY <1>b, <1>e, <1>f, <2>1, ClientTakes
<1> QED
  BY <1>1, <1>2, <1>3, <1>4, Zenon DEF OpeningInv

(* Client reads a record of the remainder. *)
LEMMA NextReadRemainder ==
    ASSUME OpeningInv, TypeInv', ClientReadRemainder
    PROVE  OpeningInv'
<1>a. /\ cl \in Ends /\ TypeOK /\ s2c \in Seq(SentByServer) /\ ClientInv /\ ServerInv
      /\ Contiguous(s2c, ClientRead) /\ AlteredInv /\ BothInv /\ ToClientInv
  BY DEF OpeningInv, TypeInv, TypeOK, ToClientInv, ClientLive, ClientReadRemainder, ClientReads
<1>b. /\ cl.pc = "rem" /\ s2c # <<>> /\ s2c' = Tail(s2c)
      /\ serverFull' = serverFull /\ sv' = sv /\ c2s' = c2s /\ cut' = cut /\ issued' = issued
      /\ altered' = altered
  BY DEF ClientReadRemainder, ClientReads
<1>c. Head(s2c) \in SentByServer
  BY <1>a, <1>b, TailFacts
<1>d. cl \in Ends /\ cl.recv \in Nat /\ cl.send \in Nat /\ cl.rem \in Nat /\ Expected \in Nat /\ Planned \in Nat
  BY <1>a, EndShape, ProfileTypes
<1>e. /\ cl'.full = cl.full /\ cl'.send = cl.send /\ cl'.key = cl.key
      /\ \/ cl'.pc = "rem" /\ cl'.recv = cl.recv + 1 /\ cl'.rem = cl.rem - 1
         \/ cl'.pc = "failed"
  <2>1. \/ cl' = [cl EXCEPT !.rem = @ - 1, !.recv = @ + 1]
        \/ cl' = [cl EXCEPT !.pc = "failed"]
    BY DEF ClientReadRemainder
  <2> QED
    BY ONLY <1>b, <1>d, <2>1, EndShape
<1>f. ClientLive
  BY <1>b DEF ClientLive
<1>1. ClientInv'
  <2>1. Expected' = Expected
    BY <1>e DEF Expected
  <2>2. cl'.pc = "rem" => cl'.recv + cl'.rem = Expected
    BY <1>a, <1>b, <1>d, <1>e DEF ClientInv
  <2> QED
    BY <1>a, <1>b, <1>e, <2>1, <2>2 DEF ClientInv
<1>2. ServerInv'
  BY <1>a, <1>b, <1>e, ServerKept
<1>3. BothInv' /\ AlteredInv'
  <2>1. "ccs" \notin altered /\ ("sh" \in altered => cl'.key \in {NoKey, <<FALSE, TRUE>>})
    BY <1>a, <1>b, <1>e DEF AlteredInv
  <2>2. sv.pc = "ccs" => cut
    BY <1>a, <1>b DEF BothInv
  <2> QED
    BY <1>b, <1>e, <1>f, <2>1, <2>2, ClientTakesBoth
<1>4. ToServerInv' /\ ToClientInv'
  <2>1. cl'.pc = "rem" => ClientRead' = ClientRead + 1 /\ ClientWrote' = ClientWrote
    BY <1>b, <1>d, <1>e DEF ClientRead, ClientWrote
  <2> QED
    BY <1>b, <1>e, <1>f, <2>1, ClientTakes
<1> QED
  BY <1>1, <1>2, <1>3, <1>4, Zenon DEF OpeningInv

(* A record that opens at Client is the one Server wrote in its place. *)
LEMMA OpenedByClient ==
    ASSUME TypeOK, ClientInv, ServerInv, NEW r \in SentByServer, Opens(r, cl)
    PROVE  /\ sv.pc # "spliced" /\ cl.key = sv.key /\ cl.recv < sv.send
           /\ r.body = ServerBody(cl.recv)
           /\ r.body \in {"ticket", "companion"} => r.issue = issued
<1>1. r.kind = "sealed" /\ r.key = cl.key /\ r.seq = cl.recv
  BY DEF Opens
<1>2. sv.pc # "spliced"
  BY <1>1, KeyFacts DEF SentByServer, ClientInv
<1> QED
  BY <1>1, <1>2 DEF SentByServer

(* Client reads the first NewSessionTicket. *)
LEMMA NextReadTicket ==
    ASSUME OpeningInv, TypeInv', ClientReadTicket
    PROVE  OpeningInv'
<1>a. /\ cl \in Ends /\ TypeOK /\ s2c \in Seq(SentByServer) /\ ClientInv /\ ServerInv
      /\ Contiguous(s2c, ClientRead) /\ AlteredInv /\ BothInv /\ ToClientInv
  BY DEF OpeningInv, TypeInv, TypeOK, ToClientInv, ClientLive, ClientReadTicket, ClientReads
<1>b. /\ cl.pc = "nst1" /\ s2c # <<>> /\ s2c' = Tail(s2c)
      /\ serverFull' = serverFull /\ sv' = sv /\ c2s' = c2s /\ cut' = cut /\ issued' = issued
      /\ altered' = altered
  BY DEF ClientReadTicket, ClientReads
<1>c. Head(s2c) \in SentByServer
  BY <1>a, <1>b, TailFacts
<1>d. cl \in Ends /\ cl.recv \in Nat /\ cl.send \in Nat /\ cl.rem \in Nat /\ Expected \in Nat /\ Planned \in Nat
  BY <1>a, EndShape, ProfileTypes
<1>e. /\ cl'.full = cl.full /\ cl'.send = cl.send /\ cl'.key = cl.key
      /\ \/ /\ cl'.pc = "nst2" /\ cl'.recv = cl.recv + 1
            /\ Opens(Head(s2c), cl) /\ Head(s2c).body = "ticket" /\ next'.ticket = Head(s2c).issue
         \/ cl'.pc = "failed"
  <2>1. \/ /\ cl' = [cl EXCEPT !.pc = "nst2", !.recv = @ + 1]
           /\ Opens(Head(s2c), cl) /\ Head(s2c).body = "ticket"
           /\ next' = [next EXCEPT !.ticket = Head(s2c).issue]
        \/ cl' = [cl EXCEPT !.pc = "failed"]
    BY DEF ClientReadTicket, IsBody
  <2>2. next \in Credentials
    BY <1>a DEF TypeOK
  <2>3. [next EXCEPT !.ticket = Head(s2c).issue].ticket = Head(s2c).issue
    BY ONLY <2>2 DEF Credentials
  <2>4. CASE cl' = [cl EXCEPT !.pc = "failed"]
    BY ONLY <1>d, <2>4, EndShape
  <2>5. CASE cl' = [cl EXCEPT !.pc = "nst2", !.recv = @ + 1]
    <3>1. /\ cl'.full = cl.full /\ cl'.send = cl.send /\ cl'.key = cl.key
          /\ cl'.pc = "nst2" /\ cl'.recv = cl.recv + 1
      BY ONLY <1>d, <2>5, EndShape
    <3> QED
      BY <2>1, <2>3, <2>4, <3>1
  <2> QED
    BY <2>1, <2>4, <2>5
<1>f. ClientLive /\ cl.recv = Expected
  BY <1>a, <1>b DEF ClientLive, ClientInv
<1>g. cl'.pc = "nst2" => /\ cl'.key = sv.key /\ sv.send > Planned /\ Expected = Planned
                         /\ next'.ticket = issued
  <2> SUFFICES ASSUME cl'.pc = "nst2"
               PROVE  cl'.key = sv.key /\ sv.send > Planned /\ Expected = Planned /\ next'.ticket = issued
    OBVIOUS
  <2>1. /\ cl.key = sv.key /\ cl.recv < sv.send /\ "ticket" = ServerBody(cl.recv)
        /\ next'.ticket = issued
    BY <1>a, <1>c, <1>e, OpenedByClient
  <2>2. cl.recv = Planned
    BY <2>1 DEF ServerBody
  <2>3. sv.send \in Nat
    BY <1>a DEF TypeOK, Ends
  <2> QED
    BY <1>d, <1>e, <1>f, <2>1, <2>2, <2>3
<1>1. ClientInv'
  <2>1. Expected' = Expected
    BY <1>e DEF Expected
  <2> QED
    BY <1>a, <1>b, <1>e, <1>f, <2>1 DEF ClientInv
<1>2. ServerInv'
  BY <1>a, <1>b, <1>e, ServerKept
<1>3. BothInv' /\ AlteredInv'
  <2>1. "ccs" \notin altered /\ ("sh" \in altered => cl'.key \in {NoKey, <<FALSE, TRUE>>})
    BY <1>a, <1>b, <1>e DEF AlteredInv
  <2>2. sv.pc = "ccs" => cut
    BY <1>a, <1>b DEF BothInv
  <2> QED
    BY <1>b, <1>e, <1>f, <1>g, <2>1, <2>2, ClientTakesBoth
<1>4. ToServerInv' /\ ToClientInv'
  <2>1. cl'.pc = "nst2" => ClientRead' = ClientRead + 1 /\ ClientWrote' = ClientWrote
    BY <1>b, <1>d, <1>e DEF ClientRead, ClientWrote
  <2> QED
    BY <1>b, <1>e, <1>f, <2>1, ClientTakes
<1> QED
  BY <1>1, <1>2, <1>3, <1>4, Zenon DEF OpeningInv

(* Client reads the second NewSessionTicket and returns. *)
LEMMA NextReadCompanion ==
    ASSUME OpeningInv, TypeInv', ClientReadCompanion
    PROVE  OpeningInv'
<1>a. /\ cl \in Ends /\ TypeOK /\ s2c \in Seq(SentByServer) /\ ClientInv /\ ServerInv
      /\ Contiguous(s2c, ClientRead) /\ AlteredInv /\ BothInv /\ ToClientInv
  BY DEF OpeningInv, TypeInv, TypeOK, ToClientInv, ClientLive, ClientReadCompanion, ClientReads
<1>b. /\ cl.pc = "nst2" /\ s2c # <<>> /\ s2c' = Tail(s2c)
      /\ serverFull' = serverFull /\ sv' = sv /\ c2s' = c2s /\ cut' = cut /\ issued' = issued
      /\ altered' = altered
  BY DEF ClientReadCompanion, ClientReads
<1>c. Head(s2c) \in SentByServer
  BY <1>a, <1>b, TailFacts
<1>d. cl \in Ends /\ cl.recv \in Nat /\ cl.send \in Nat /\ cl.rem \in Nat /\ Expected \in Nat /\ Planned \in Nat
  BY <1>a, EndShape, ProfileTypes
<1>e. /\ cl'.full = cl.full /\ cl'.send = cl.send /\ cl'.key = cl.key
      /\ \/ /\ cl'.pc = "done" /\ cl'.recv = cl.recv + 1
            /\ Opens(Head(s2c), cl) /\ Head(s2c).body = "companion"
            /\ cred' = [next EXCEPT !.companion = Head(s2c).issue]
         \/ cl'.pc = "failed"
  <2>1. \/ /\ cl' = [cl EXCEPT !.pc = "done", !.recv = @ + 1]
           /\ Opens(Head(s2c), cl) /\ Head(s2c).body = "companion"
           /\ cred' = [next EXCEPT !.companion = Head(s2c).issue]
        \/ cl' = [cl EXCEPT !.pc = "failed"]
    BY DEF ClientReadCompanion, IsBody
  <2>2. CASE cl' = [cl EXCEPT !.pc = "failed"]
    BY ONLY <1>d, <2>2, EndShape
  <2>3. CASE cl' = [cl EXCEPT !.pc = "done", !.recv = @ + 1]
    <3>1. /\ cl'.full = cl.full /\ cl'.send = cl.send /\ cl'.key = cl.key
          /\ cl'.pc = "done" /\ cl'.recv = cl.recv + 1
      BY ONLY <1>d, <2>3, EndShape
    <3> QED
      BY <2>1, <2>2, <3>1
  <2> QED
    BY <2>1, <2>2, <2>3
<1>f. ClientLive /\ cl.recv = Expected + 1 /\ Expected = Planned /\ next.ticket = issued
  BY <1>a, <1>b DEF ClientLive, ClientInv, BothInv
<1>g. cl'.pc = "done" => /\ cl'.key = sv.key /\ sv.pc = "done" /\ Expected = Planned
                         /\ cred' = [ticket |-> issued, companion |-> issued]
  <2> SUFFICES ASSUME cl'.pc = "done"
               PROVE  cl'.key = sv.key /\ sv.pc = "done" /\ cred' = [ticket |-> issued, companion |-> issued]
    BY <1>f
  <2>1. /\ cl.key = sv.key /\ cl.recv < sv.send /\ Head(s2c).issue = issued
    BY <1>a, <1>c, <1>e, OpenedByClient
  <2>2. sv.send \in Nat /\ sv.rem \in Nat /\ sv.pc \in Pcs
    BY <1>a DEF TypeOK, Ends
  <2>3. sv.send > Planned + 1
    BY <1>d, <1>f, <2>1, <2>2
  <2>4. sv.pc = "done"
    BY <1>a, <1>d, <2>2, <2>3 DEF ServerInv, Pcs, Ended
  <2>5. next \in Credentials
    BY <1>a DEF TypeOK
  <2>6. cred' = [ticket |-> issued, companion |-> issued]
    <3>1. cred' = [next EXCEPT !.companion = issued] /\ next.ticket = issued
      BY <1>e, <1>f, <2>1
    <3> QED
      BY ONLY <2>5, <3>1 DEF Credentials
  <2> QED
    BY <1>e, <2>1, <2>4, <2>6
<1>1. ClientInv'
  <2>1. Expected' = Expected
    BY <1>e DEF Expected
  <2>2. cl'.pc = "done" => cl'.recv = Expected + 2
    BY <1>d, <1>e, <1>f
  <2> QED
    BY <1>a, <1>b, <1>e, <2>1, <2>2 DEF ClientInv
<1>2. ServerInv'
  BY <1>a, <1>b, <1>e, ServerKept
<1>3. BothInv' /\ AlteredInv'
  <2>1. "ccs" \notin altered /\ ("sh" \in altered => cl'.key \in {NoKey, <<FALSE, TRUE>>})
    BY <1>a, <1>b, <1>e DEF AlteredInv
  <2>2. sv.pc = "ccs" => cut
    BY <1>a, <1>b DEF BothInv
  <2> QED
    BY <1>b, <1>e, <1>f, <1>g, <2>1, <2>2, ClientTakesBoth
<1>4. ToServerInv' /\ ToClientInv'
  <2>1. cl'.pc = "done" => ClientRead' = ClientRead + 1 /\ ClientWrote' = ClientWrote
    BY <1>b, <1>d, <1>e DEF ClientRead, ClientWrote
  <2> QED
    BY <1>b, <1>e, <1>f, <2>1, ClientTakes
<1> QED
  BY <1>1, <1>2, <1>3, <1>4, Zenon DEF OpeningInv

(* Client writes a record after it has read the ChangeCipherSpec: what is  *)
(* in flight then.                                                         *)
LEMMA ClientPuts ==
    ASSUME OpeningInv, NEW r, c2s' = Put(c2s, r), r \in SentByClient', r \in ClientRecords,
           serverFull' = serverFull, sv' = sv, s2c' = s2c, cut' = cut, issued' = issued,
           altered' = altered,
           cl'.full = cl.full, cl'.key = cl.key, cl'.recv = cl.recv,
           cl.pc \in {"rem", "fin", "done"}, cl'.pc \in {"fin", "nst1", "done"},
           cl.send <= cl'.send, cl'.send \in Nat,
           At(r) = ClientWrote, ClientWrote' = ClientWrote + 1
    PROVE  ToServerInv' /\ ToClientInv'
<1>a. /\ TypeOK /\ c2s \in Seq(ClientRecords) /\ c2s \in Seq(SentByClient) /\ s2c \in Seq(SentByServer)
      /\ ServerRead \in Nat /\ ClientWrote \in Nat /\ cl.send \in Nat /\ Len(c2s) \in Nat
  BY PlaceTypes, LenProperties DEF OpeningInv, TypeInv, ToServerInv, ToClientInv, TypeOK, Ends
<1>b. ClientLive /\ ClientLive' /\ ClientRead' = ClientRead
  BY DEF ClientLive, ClientRead
<1>1. c2s' \in Seq(SentByClient')
  <2>1. SentByClient \subseteq SentByClient'
    <3> SUFFICES ASSUME NEW q \in SentByClient PROVE q \in SentByClient'
      OBVIOUS
    <3>1. q \in ClientRecords /\ (q.kind = "sealed" => q.seq \in Nat)
      BY SealedTypes DEF SentByClient
    <3>2. q.kind = "sealed" /\ q.seq < cl.send => q.seq < cl'.send
      BY <1>a, <3>1
    <3> QED
      BY <3>1, <3>2 DEF SentByClient
  <2>2. c2s \in Seq(SentByClient')
    BY <1>a, <2>1, SeqMonotonic
  <2> QED
    BY <2>2, AppendProperties DEF Put
<1>2. ServerRead' = ServerRead /\ (ServerLive' <=> ServerLive) /\ ServerWrote' = ServerWrote
  BY DEF ServerRead, ServerLive, ServerWrote
<1>3. ASSUME ServerLive
      PROVE  Contiguous(c2s', ServerRead) /\ (~cut => ServerRead + Len(c2s') = ClientWrote + 1)
  <2>1. Contiguous(c2s, ServerRead) /\ (~cut => ServerRead + Len(c2s) = ClientWrote)
    BY <1>3, <1>b DEF OpeningInv, ToServerInv
  <2>2. CASE cut
    BY <2>1, <2>2 DEF Put
  <2>3. CASE ~cut
    <3>1. c2s' = Append(c2s, r) /\ At(r) = ServerRead + Len(c2s)
      BY <2>1, <2>3 DEF Put
    <3>2. Contiguous(c2s', ServerRead) /\ Len(c2s') = Len(c2s) + 1
      BY <1>a, <2>1, <3>1, ContiguousAppend
    <3>3. ServerRead + (Len(c2s) + 1) = ClientWrote + 1
      BY ONLY <1>a, <2>1, <2>3
    <3> QED
      BY <3>2, <3>3
  <2> QED
    BY <2>2, <2>3
<1>4. ToServerInv'
  <2>1. (ServerLive => Contiguous(c2s, ServerRead))'
    BY <1>2, <1>3
  <2>2. (ServerLive /\ ClientLive /\ ~cut => ServerRead + Len(c2s) = ClientWrote)'
    BY <1>2, <1>3
  <2> QED
    BY <1>1, <2>1, <2>2, Zenon DEF ToServerInv
<1>5. ToClientInv'
  <2>1. SentByServer \subseteq SentByServer'
    BY DEF SentByServer, ServerBody, Planned, Drawn
  <2>2. s2c' \in Seq(SentByServer')
    BY <1>a, <2>1, SeqMonotonic
  <2>3. (ClientLive => Contiguous(s2c, ClientRead))'
    BY <1>b DEF OpeningInv, ToClientInv
  <2>4. (ServerLive /\ ClientLive /\ ~cut => ClientRead + Len(s2c) = ServerWrote)'
    BY <1>b, <1>2 DEF OpeningInv, ToClientInv
  <2> QED
    BY <2>2, <2>3, <2>4, Zenon DEF ToClientInv
<1> QED
  BY <1>4, <1>5

(* The same for what the two ends agree on. *)
LEMMA ClientPutsBoth ==
    ASSUME OpeningInv, serverFull' = serverFull, sv' = sv, s2c' = s2c, cut' = cut, issued' = issued,
           cred' = cred, next' = next, altered' = altered,
           cl'.full = cl.full, cl'.key = cl.key, cl.send <= cl'.send, cl'.send \in Nat,
           cl.pc \in {"rem", "fin", "done"}, cl'.pc \in {"fin", "nst1", "done"},
           cl'.pc = "done" => cl.pc = "done"
    PROVE  BothInv' /\ AlteredInv'
<1>a. cl.send \in Nat /\ BothInv /\ AlteredInv /\ sv.pc # "hello"
  BY DEF OpeningInv, TypeInv, TypeOK, Ends
<1>b. Planned' = Planned /\ Expected' = Expected
  BY DEF Planned, Drawn, Expected
<1>c. cl.send >= 1 => cl'.send >= 1
  BY <1>a
<1>1. BothInv'
  BY <1>a, <1>b, <1>c DEF BothInv
<1>2. AlteredInv'
  BY <1>a DEF AlteredInv
<1> QED
  BY <1>1, <1>2

(* Client sends its ChangeCipherSpec. *)
LEMMA NextSendCCS ==
    ASSUME OpeningInv, TypeInv', ClientSendCCS
    PROVE  OpeningInv'
<1>a. /\ cl \in Ends /\ TypeOK /\ ClientInv /\ ServerInv
      /\ cl.recv \in Nat /\ cl.rem \in Nat /\ cl.send \in Nat /\ Expected \in Nat
  BY ProfileTypes DEF OpeningInv, TypeInv, TypeOK, Ends
<1>b. /\ cl.pc = "rem" /\ ~(cl.rem > 0) /\ c2s' = Put(c2s, Plain("clientccs"))
      /\ serverFull' = serverFull /\ sv' = sv /\ s2c' = s2c /\ cut' = cut /\ issued' = issued
      /\ altered' = altered /\ cred' = cred /\ next' = next /\ cl' = [cl EXCEPT !.pc = "fin"]
  BY DEF ClientSendCCS, More, creds
<1>c. /\ cl'.full = cl.full /\ cl'.send = cl.send /\ cl'.recv = cl.recv /\ cl'.rem = cl.rem
      /\ cl'.key = cl.key /\ cl'.pc = "fin"
  BY ONLY <1>a, <1>b, EndShape
<1>d. cl.send = 0 /\ cl.recv = Expected /\ Expected' = Expected
  BY <1>a, <1>b, <1>c DEF ClientInv, Expected
<1>1. ClientInv'
  BY <1>a, <1>b, <1>c, <1>d DEF ClientInv
<1>2. ServerInv'
  BY <1>a, <1>b, <1>c, ServerKept
<1>3. BothInv' /\ AlteredInv'
  BY <1>a, <1>b, <1>c, ClientPutsBoth
<1>4. ToServerInv' /\ ToClientInv'
  <2>1. Plain("clientccs") \in ClientRecords
    BY <1>a, RecordTypes
  <2>2. Plain("clientccs") \in SentByClient'
    BY <2>1 DEF SentByClient, Plain
  <2>3. At(Plain("clientccs")) = 1
    BY DEF At, Plain
  <2>4. ClientWrote = 1 /\ ClientWrote' = 2
    BY <1>b, <1>c, <1>d DEF ClientWrote
  <2> QED
    BY <1>a, <1>b, <1>c, <2>1, <2>2, <2>3, <2>4, ClientPuts
<1> QED
  BY <1>1, <1>2, <1>3, <1>4, Zenon DEF OpeningInv

(* Client sends its Finished. *)
LEMMA NextSendFinished ==
    ASSUME OpeningInv, TypeInv', ClientSendFinished
    PROVE  OpeningInv'
<1> DEFINE r == Sealed(cl, "pad", 0)
<1>a. /\ cl \in Ends /\ TypeOK /\ ClientInv /\ ServerInv
      /\ cl.recv \in Nat /\ cl.rem \in Nat /\ cl.send \in Nat /\ Expected \in Nat
  BY ProfileTypes DEF OpeningInv, TypeInv, TypeOK, Ends
<1>b. /\ cl.pc = "fin" /\ c2s' = Put(c2s, r)
      /\ serverFull' = serverFull /\ sv' = sv /\ s2c' = s2c /\ cut' = cut /\ issued' = issued
      /\ altered' = altered /\ cred' = cred /\ next' = next
      /\ cl' = [cl EXCEPT !.pc = "nst1", !.send = @ + 1]
  BY DEF ClientSendFinished, creds
<1>c. /\ cl'.full = cl.full /\ cl'.send = cl.send + 1 /\ cl'.recv = cl.recv /\ cl'.rem = cl.rem
      /\ cl'.key = cl.key /\ cl'.pc = "nst1"
  <2>1. cl' = [cl EXCEPT !.pc = "nst1", !.send = @ + 1]
    BY <1>b
  <2> QED
    BY ONLY <1>a, <2>1, EndShape
<1>d. cl.send = 0 /\ cl.recv = Expected /\ Expected' = Expected /\ cl'.send >= 1
  BY <1>a, <1>b, <1>c DEF ClientInv, Expected
<1>1. ClientInv'
  BY <1>a, <1>b, <1>c, <1>d DEF ClientInv
<1>2. ServerInv'
  BY <1>a, <1>b, <1>c, ServerKept
<1>3. BothInv' /\ AlteredInv'
  BY <1>a, <1>b, <1>c, ClientPutsBoth
<1>4. ToServerInv' /\ ToClientInv'
  <2>1. r \in ClientRecords
    BY <1>a, RecordTypes DEF ClientRecords
  <2>2. r.kind = "sealed" /\ r.key = cl.key /\ r.seq = 0
    BY <1>d DEF Sealed
  <2> HIDE DEF r
  <2>3. r \in SentByClient'
    BY <1>c, <1>d, <2>1, <2>2 DEF SentByClient
  <2>4. At(r) = 2
    BY <2>2 DEF At
  <2>5. ClientWrote = 2 /\ ClientWrote' = 3
    BY <1>b, <1>c, <1>d DEF ClientWrote
  <2> QED
    BY <1>a, <1>b, <1>c, <1>d, <2>1, <2>3, <2>4, <2>5, ClientPuts
<1> QED
  BY <1>1, <1>2, <1>3, <1>4, Zenon DEF OpeningInv

(* Client writes application data. *)
LEMMA NextClientWrites ==
    ASSUME OpeningInv, TypeInv', ClientWrites
    PROVE  OpeningInv'
<1> DEFINE r == Sealed(cl, "app", 0)
<1>a. /\ cl \in Ends /\ TypeOK /\ ClientInv /\ ServerInv
      /\ cl.recv \in Nat /\ cl.rem \in Nat /\ cl.send \in Nat /\ Expected \in Nat
  BY ProfileTypes DEF OpeningInv, TypeInv, TypeOK, Ends
<1>b. /\ cl.pc = "done" /\ c2s' = Put(c2s, r)
      /\ serverFull' = serverFull /\ sv' = sv /\ s2c' = s2c /\ cut' = cut /\ issued' = issued
      /\ altered' = altered /\ cred' = cred /\ next' = next
      /\ cl' = [cl EXCEPT !.send = @ + 1]
  BY DEF ClientWrites, creds
<1>c. /\ cl'.full = cl.full /\ cl'.send = cl.send + 1 /\ cl'.recv = cl.recv /\ cl'.rem = cl.rem
      /\ cl'.key = cl.key /\ cl'.pc = "done"
  <2>1. cl' = [cl EXCEPT !.send = @ + 1] /\ cl.pc = "done"
    BY <1>b
  <2> QED
    BY ONLY <1>a, <2>1, EndShape
<1>d. cl.recv = Expected + 2 /\ Expected' = Expected /\ cl'.send >= 1
  BY <1>a, <1>b, <1>c DEF ClientInv, Expected
<1>1. ClientInv'
  BY <1>a, <1>b, <1>c, <1>d DEF ClientInv
<1>2. ServerInv'
  BY <1>a, <1>b, <1>c, ServerKept
<1>3. BothInv' /\ AlteredInv'
  BY <1>a, <1>b, <1>c, ClientPutsBoth
<1>4. ToServerInv' /\ ToClientInv'
  <2>1. r \in ClientRecords
    BY <1>a, RecordTypes DEF ClientRecords
  <2>2. r.kind = "sealed" /\ r.key = cl.key /\ r.seq = cl.send /\ r.body = "app"
    BY DEF Sealed
  <2> HIDE DEF r
  <2>3. r \in SentByClient'
    BY <1>a, <1>c, <2>1, <2>2 DEF SentByClient
  <2>4. At(r) = cl.send + 2
    BY <2>2 DEF At
  <2>5. ClientWrote = cl.send + 2 /\ ClientWrote' = ClientWrote + 1
    BY <1>a, <1>b, <1>c DEF ClientWrote
  <2> QED
    BY <1>a, <1>b, <1>c, <2>1, <2>3, <2>4, <2>5, ClientPuts
<1> QED
  BY <1>1, <1>2, <1>3, <1>4, Zenon DEF OpeningInv

(* Server takes a record after the hello: what stays in flight, and what   *)
(* the two ends agree on.                                                  *)
LEMMA ServerTakes ==
    ASSUME OpeningInv, c2s # <<>>, c2s' = Tail(c2s),
           serverFull' = serverFull, cl' = cl, s2c' = s2c, cut' = cut, issued' = issued,
           cred' = cred, next' = next, altered' = altered,
           sv'.full = sv.full, sv'.send = sv.send, sv'.key = sv.key,
           sv.pc \in {"rem", "fin"}, sv'.pc \in {"fin", "nst1", "failed"},
           sv'.pc = "failed" \/ ServerRead' = ServerRead + 1,
           sv'.pc = "nst1" => cl.key = sv.key /\ cl.send >= 1
    PROVE  ToServerInv' /\ ToClientInv' /\ BothInv' /\ AlteredInv'
<1>a. /\ TypeOK /\ c2s \in Seq(ClientRecords) /\ c2s \in Seq(SentByClient) /\ s2c \in Seq(SentByServer)
      /\ ServerRead \in Nat /\ ClientWrote \in Nat /\ BothInv /\ AlteredInv
  BY PlaceTypes DEF OpeningInv, TypeInv, ToServerInv, ToClientInv
<1>b. ServerLive /\ ServerWrote' = ServerWrote /\ ClientRead' = ClientRead /\ ClientWrote' = ClientWrote
      /\ (ClientLive' <=> ClientLive) /\ Planned' = Planned /\ Expected' = Expected
  BY DEF ServerLive, ServerWrote, ClientRead, ClientWrote, ClientLive, Planned, Drawn, Expected
<1>1. Contiguous(c2s', ServerRead + 1)
  <2>1. Contiguous(c2s, ServerRead)
    BY <1>b DEF OpeningInv, ToServerInv
  <2> QED
    BY <1>a, <2>1, ContiguousTail
<1>2. c2s' \in Seq(SentByClient) /\ Len(c2s') = Len(c2s) - 1 /\ Len(c2s) \in Nat
  BY <1>a, TailFacts
<1>3. ToServerInv'
  <2>1. SentByClient \subseteq SentByClient'
    BY DEF SentByClient
  <2>2. c2s' \in Seq(SentByClient')
    BY <1>2, <2>1, SeqMonotonic
  <2>3. (ServerLive => Contiguous(c2s, ServerRead))'
    BY <1>1 DEF ServerLive
  <2>4. (ServerLive /\ ClientLive /\ ~cut => ServerRead + Len(c2s) = ClientWrote)'
    <3> SUFFICES ASSUME ServerLive', ClientLive', ~cut' PROVE ServerRead' + Len(c2s') = ClientWrote'
      OBVIOUS
    <3>1. ServerRead + Len(c2s) = ClientWrote
      BY <1>b DEF OpeningInv, ToServerInv
    <3>2. ServerRead' = ServerRead + 1
      BY DEF ServerLive
    <3> QED
      BY <1>a, <1>b, <1>2, <3>1, <3>2
  <2> QED
    BY <2>2, <2>3, <2>4, Zenon DEF ToServerInv
<1>4. ToClientInv'
  <2>1. SentByServer \subseteq SentByServer'
    BY <1>b DEF SentByServer, ServerBody
  <2>2. s2c' \in Seq(SentByServer')
    BY <1>a, <2>1, SeqMonotonic
  <2>3. (ClientLive => Contiguous(s2c, ClientRead))'
    BY <1>b DEF OpeningInv, ToClientInv
  <2>4. (ServerLive /\ ClientLive /\ ~cut => ClientRead + Len(s2c) = ServerWrote)'
    BY <1>b DEF OpeningInv, ToClientInv
  <2> QED
    BY <2>2, <2>3, <2>4, Zenon DEF ToClientInv
<1>5. BothInv'
  BY <1>a, <1>b DEF BothInv
<1>6. AlteredInv'
  BY <1>a DEF AlteredInv
<1> QED
  BY <1>3, <1>4, <1>5, <1>6

(* A step that leaves Client alone. *)
LEMMA ClientKept ==
    ASSUME ClientInv, cl' = cl PROVE ClientInv'
BY DEF ClientInv, Expected

(* Server reads the client's ChangeCipherSpec. *)
LEMMA NextServerReadCCS ==
    ASSUME OpeningInv, TypeInv', ServerReadCCS
    PROVE  OpeningInv'
<1>a. /\ sv \in Ends /\ TypeOK /\ ClientInv /\ ServerInv
      /\ sv.recv \in Nat /\ sv.rem \in Nat /\ sv.send \in Nat /\ Planned \in Nat
  BY ProfileTypes DEF OpeningInv, TypeInv, TypeOK, Ends
<1>b. /\ sv.pc = "rem" /\ ~(sv.rem > 0) /\ c2s # <<>> /\ c2s' = Tail(c2s)
      /\ serverFull' = serverFull /\ cl' = cl /\ s2c' = s2c /\ cut' = cut /\ issued' = issued
      /\ altered' = altered /\ cred' = cred /\ next' = next /\ sv' = [sv EXCEPT !.pc = "fin"]
  BY DEF ServerReadCCS, More, creds
<1>c. /\ sv'.full = sv.full /\ sv'.send = sv.send /\ sv'.recv = sv.recv /\ sv'.rem = sv.rem
      /\ sv'.key = sv.key /\ sv'.pc = "fin"
  BY ONLY <1>a, <1>b, EndShape
<1>d. sv.recv = 0 /\ sv.send = Planned /\ Planned' = Planned
  BY <1>a, <1>b, <1>c DEF ServerInv, Planned, Drawn
<1>1. ServerInv'
  BY <1>a, <1>b, <1>c, <1>d DEF ServerInv
<1>2. ServerRead' = ServerRead + 1
  BY <1>b, <1>c, <1>d DEF ServerRead
<1>3. ToServerInv' /\ ToClientInv' /\ BothInv' /\ AlteredInv'
  BY <1>b, <1>c, <1>2, ServerTakes
<1>4. ClientInv'
  BY <1>a, <1>b, ClientKept
<1> QED
  BY <1>1, <1>3, <1>4, Zenon DEF OpeningInv

(* Server reads the client's Finished: one that opens was sealed with the  *)
(* keys that Server has.                                                   *)
LEMMA NextServerReadFinished ==
    ASSUME OpeningInv, TypeInv', ServerReadFinished
    PROVE  OpeningInv'
<1>a. /\ sv \in Ends /\ TypeOK /\ ClientInv /\ ServerInv /\ c2s \in Seq(SentByClient)
      /\ sv.recv \in Nat /\ sv.rem \in Nat /\ sv.send \in Nat /\ Planned \in Nat /\ cl.send \in Nat
  BY ProfileTypes DEF OpeningInv, TypeInv, TypeOK, Ends, ToServerInv
<1>b. /\ sv.pc = "fin" /\ c2s # <<>> /\ c2s' = Tail(c2s)
      /\ serverFull' = serverFull /\ cl' = cl /\ s2c' = s2c /\ cut' = cut /\ issued' = issued
      /\ altered' = altered /\ cred' = cred /\ next' = next
  BY DEF ServerReadFinished, creds
<1>c. /\ sv'.full = sv.full /\ sv'.send = sv.send /\ sv'.key = sv.key
      /\ \/ sv'.pc = "nst1" /\ sv'.recv = sv.recv + 1 /\ Opens(Head(c2s), sv)
         \/ sv'.pc = "failed"
  <2>1. \/ sv' = [sv EXCEPT !.pc = "nst1", !.recv = @ + 1] /\ Opens(Head(c2s), sv)
        \/ sv' = [sv EXCEPT !.pc = "failed"]
    BY DEF ServerReadFinished
  <2>2. CASE sv' = [sv EXCEPT !.pc = "failed"]
    BY ONLY <1>a, <2>2, EndShape
  <2>3. CASE sv' = [sv EXCEPT !.pc = "nst1", !.recv = @ + 1]
    <3>1. /\ sv'.full = sv.full /\ sv'.send = sv.send /\ sv'.key = sv.key
          /\ sv'.pc = "nst1" /\ sv'.recv = sv.recv + 1
      BY ONLY <1>a, <2>3, EndShape
    <3> QED
      BY <2>1, <2>2, <3>1
  <2> QED
    BY <2>1, <2>2, <2>3
<1>d. sv.recv = 0 /\ sv.send = Planned /\ Planned' = Planned /\ sv.send <= Planned + 1
  BY <1>a, <1>b, <1>c DEF ServerInv, Planned, Drawn
<1>e. sv'.pc = "nst1" => cl.key = sv.key /\ cl.send >= 1
  <2> SUFFICES ASSUME sv'.pc = "nst1" PROVE cl.key = sv.key /\ cl.send >= 1
    OBVIOUS
  <2>1. Head(c2s) \in SentByClient
    BY <1>a, <1>b, TailFacts
  <2>2. Head(c2s).kind = "sealed" /\ Head(c2s).key = sv.key /\ Head(c2s).seq = 0
    BY <1>c, <1>d DEF Opens
  <2>3. Head(c2s).key = cl.key /\ 0 < cl.send
    BY <2>1, <2>2 DEF SentByClient
  <2> QED
    BY <1>a, <2>2, <2>3
<1>1. ServerInv'
  <2>1. /\ sv'.key \in {<<FALSE, FALSE>>, <<TRUE, FALSE>>} /\ sv'.full = cl'.full
        /\ sv'.send = Planned' /\ sv'.send <= Planned' + 1
    BY <1>a, <1>b, <1>c, <1>d DEF ServerInv
  <2>2. sv'.pc = "nst1" => sv'.recv = 1
    BY <1>c, <1>d
  <2> QED
    BY <1>c, <2>1, <2>2 DEF ServerInv
<1>2. sv'.pc = "failed" \/ ServerRead' = ServerRead + 1
  BY <1>b, <1>c, <1>d DEF ServerRead
<1>3. ToServerInv' /\ ToClientInv' /\ BothInv' /\ AlteredInv'
  BY <1>b, <1>c, <1>e, <1>2, ServerTakes
<1>4. ClientInv'
  BY <1>a, <1>b, ClientKept
<1> QED
  BY <1>1, <1>3, <1>4, Zenon DEF OpeningInv

(* Server writes a record: what is in flight then, and what the two ends   *)
(* agree on.                                                               *)
LEMMA ServerPuts ==
    ASSUME OpeningInv, NEW r, s2c' = Put(s2c, r), r \in ServerRecords, ~cut => r \in SentByServer',
           s2c = <<>> \/ SentByServer \subseteq SentByServer',
           serverFull' = serverFull, cl' = cl, c2s' = c2s, cut' = cut,
           cred' = cred, next' = next, altered' = altered,
           issued' = issued \/ cl.pc \notin {"nst2", "done"},
           sv'.full = sv.full, sv'.key = sv.key, sv'.recv = sv.recv,
           sv.send <= sv'.send, sv'.send \in Nat,
           sv.pc \in {"sh", "ccs", "rem", "nst1", "nst2", "done"},
           sv'.pc \in {"ccs", "rem", "nst2", "done"},
           sv'.pc = "ccs" => sv.pc = "sh",
           sv.pc = "done" => sv'.pc = "done",
           sv.pc \in {"nst1", "nst2", "done"} <=> sv'.pc \in {"nst2", "done"},
           At(r) = ServerWrote, ServerWrote' = ServerWrote + 1
    PROVE  ToServerInv' /\ ToClientInv' /\ BothInv' /\ AlteredInv'
<1>a. /\ TypeOK /\ s2c \in Seq(ServerRecords) /\ c2s \in Seq(SentByClient) /\ s2c \in Seq(SentByServer)
      /\ ClientRead \in Nat /\ ServerWrote \in Nat /\ BothInv /\ AlteredInv /\ Len(s2c) \in Nat
      /\ sv.send \in Nat /\ Planned \in Nat /\ ClientInv
  BY PlaceTypes, ProfileTypes, LenProperties
  DEF OpeningInv, TypeInv, ToServerInv, ToClientInv, TypeOK, Ends
<1>b. /\ ServerLive /\ ServerLive' /\ ServerRead' = ServerRead
      /\ ClientRead' = ClientRead /\ ClientWrote' = ClientWrote
      /\ (ClientLive' <=> ClientLive) /\ Planned' = Planned /\ Expected' = Expected
  BY DEF ServerLive, ServerRead, ClientRead, ClientWrote, ClientLive, Planned, Drawn, Expected
<1>1. ToServerInv'
  <2>1. SentByClient \subseteq SentByClient'
    BY DEF SentByClient
  <2>2. c2s' \in Seq(SentByClient')
    BY <1>a, <2>1, SeqMonotonic
  <2>3. (ServerLive => Contiguous(c2s, ServerRead))'
    BY <1>b DEF OpeningInv, ToServerInv
  <2>4. (ServerLive /\ ClientLive /\ ~cut => ServerRead + Len(c2s) = ClientWrote)'
    BY <1>b DEF OpeningInv, ToServerInv
  <2> QED
    BY <2>2, <2>3, <2>4, Zenon DEF ToServerInv
<1>2. s2c' \in Seq(SentByServer')
  <2>1. s2c \in Seq(SentByServer')
    BY <1>a, SeqMonotonic, EmptySeq
  <2> QED
    BY <2>1, AppendProperties DEF Put
<1>3. ASSUME ClientLive
      PROVE  Contiguous(s2c', ClientRead) /\ (~cut => ClientRead + Len(s2c') = ServerWrote + 1)
  <2>1. Contiguous(s2c, ClientRead) /\ (~cut => ClientRead + Len(s2c) = ServerWrote)
    BY <1>3, <1>b DEF OpeningInv, ToClientInv
  <2>2. CASE cut
    BY <2>1, <2>2 DEF Put
  <2>3. CASE ~cut
    <3>1. s2c' = Append(s2c, r) /\ At(r) = ClientRead + Len(s2c)
      BY <2>1, <2>3 DEF Put
    <3>2. Contiguous(s2c', ClientRead) /\ Len(s2c') = Len(s2c) + 1
      BY <1>a, <2>1, <3>1, ContiguousAppend
    <3>3. ClientRead + (Len(s2c) + 1) = ServerWrote + 1
      BY ONLY <1>a, <2>1, <2>3
    <3> QED
      BY <3>2, <3>3
  <2> QED
    BY <2>2, <2>3
<1>4. ToClientInv'
  <2>1. (ClientLive => Contiguous(s2c, ClientRead))'
    BY <1>b, <1>3
  <2>2. (ServerLive /\ ClientLive /\ ~cut => ClientRead + Len(s2c) = ServerWrote)'
    BY <1>b, <1>3
  <2> QED
    BY <1>2, <2>1, <2>2, Zenon DEF ToClientInv
<1>5. BothInv'
  <2>1. sv.send > Planned => sv'.send > Planned
    BY <1>a
  <2>2. sv'.pc = "ccs" => cut \/ (cl.pc \in {"sh", "ccs", "failed"} /\ cl.send = 0)
    BY <1>a DEF BothInv, ClientInv
  <2> QED
    BY <1>a, <1>b, <2>1, <2>2 DEF BothInv
<1>6. AlteredInv'
  BY <1>a DEF AlteredInv
<1> QED
  BY <1>1, <1>4, <1>5, <1>6

(* Server sends the ServerHello. *)
LEMMA NextSendServerHello ==
    ASSUME OpeningInv, TypeInv', ServerSendHello
    PROVE  OpeningInv'
<1> DEFINE r == Plain("sh")
<1>a. /\ sv \in Ends /\ TypeOK /\ ClientInv /\ ServerInv /\ BothInv /\ AlteredInv
      /\ sv.recv \in Nat /\ sv.rem \in Nat /\ sv.send \in Nat /\ Planned \in Nat
  BY ProfileTypes DEF OpeningInv, TypeInv, TypeOK, Ends
<1>b. /\ sv.pc = "sh" /\ s2c' = Put(s2c, r)
      /\ serverFull' = serverFull /\ cl' = cl /\ c2s' = c2s /\ cut' = cut /\ issued' = issued
      /\ altered' = altered /\ cred' = cred /\ next' = next /\ sv' = [sv EXCEPT !.pc = "ccs"]
  BY DEF ServerSendHello, ServerWrites
<1>c. /\ sv'.full = sv.full /\ sv'.send = sv.send /\ sv'.recv = sv.recv /\ sv'.rem = sv.rem
      /\ sv'.key = sv.key /\ sv'.pc = "ccs"
  BY ONLY <1>a, <1>b, EndShape
<1>d. sv.recv = 0 /\ sv.send = 0 /\ Planned' = Planned
  BY <1>a, <1>b, <1>c DEF ServerInv, Planned, Drawn
<1>1. ServerInv'
  BY <1>a, <1>b, <1>c, <1>d DEF ServerInv
<1>2. ServerWrote = 0 /\ ServerWrote' = ServerWrote + 1 /\ At(r) = 0
  BY <1>b, <1>c, <1>d DEF ServerWrote, At, Plain
<1>3. r \in ServerRecords /\ (~cut => r \in SentByServer') /\ s2c = <<>>
  <2>1. r \in ServerRecords
    BY <1>a, RecordTypes
  <2>2. s2c = <<>> /\ (cut \/ cl.pc = "sh") /\ "sh" \notin altered
    BY <1>a, <1>b DEF BothInv, AlteredInv
  <2>3. r.kind = "sh"
    BY DEF Plain
  <2> HIDE DEF r
  <2> QED
    BY <1>b, <2>1, <2>2, <2>3 DEF SentByServer
<1>4. ToServerInv' /\ ToClientInv' /\ BothInv' /\ AlteredInv'
  BY <1>a, <1>b, <1>c, <1>2, <1>3, ServerPuts
<1>5. ClientInv'
  BY <1>a, <1>b, ClientKept
<1> QED
  BY <1>1, <1>4, <1>5, Zenon DEF OpeningInv

(* Server sends its ChangeCipherSpec. *)
LEMMA NextServerSendCCS ==
    ASSUME OpeningInv, TypeInv', ServerSendCCS
    PROVE  OpeningInv'
<1> DEFINE r == Plain("ccs")
<1>a. /\ sv \in Ends /\ TypeOK /\ ClientInv /\ ServerInv /\ BothInv /\ AlteredInv
      /\ sv.recv \in Nat /\ sv.rem \in Nat /\ sv.send \in Nat /\ Planned \in Nat
  BY ProfileTypes DEF OpeningInv, TypeInv, TypeOK, Ends
<1>b. /\ sv.pc = "ccs" /\ s2c' = Put(s2c, r)
      /\ serverFull' = serverFull /\ cl' = cl /\ c2s' = c2s /\ cut' = cut /\ issued' = issued
      /\ altered' = altered /\ cred' = cred /\ next' = next /\ sv' = [sv EXCEPT !.pc = "rem"]
  BY DEF ServerSendCCS, ServerWrites
<1>c. /\ sv'.full = sv.full /\ sv'.send = sv.send /\ sv'.recv = sv.recv /\ sv'.rem = sv.rem
      /\ sv'.key = sv.key /\ sv'.pc = "rem"
  BY ONLY <1>a, <1>b, EndShape
<1>d. sv.recv = 0 /\ sv.send = 0 /\ Planned' = Planned
  BY <1>a, <1>b, <1>c DEF ServerInv, Planned, Drawn
<1>1. ServerInv'
  BY <1>a, <1>b, <1>c, <1>d DEF ServerInv
<1>2. ServerWrote = 1 /\ ServerWrote' = ServerWrote + 1 /\ At(r) = 1
  BY <1>b, <1>c, <1>d DEF ServerWrote, At, Plain
<1>3. r \in ServerRecords /\ (~cut => r \in SentByServer')
  <2>1. r \in ServerRecords
    BY <1>a, RecordTypes
  <2>2. (cut \/ (cl.pc \in {"sh", "ccs", "failed"} /\ cl.send = 0)) /\ "ccs" \notin altered
    BY <1>a, <1>b DEF BothInv, AlteredInv
  <2>3. r.kind = "ccs"
    BY DEF Plain
  <2> HIDE DEF r
  <2> QED
    BY <1>b, <1>c, <2>1, <2>2, <2>3 DEF SentByServer
<1>4. SentByServer \subseteq SentByServer'
  BY <1>b, <1>c, <1>d DEF SentByServer, ServerBody
<1>5. ToServerInv' /\ ToClientInv' /\ BothInv' /\ AlteredInv'
  BY <1>a, <1>b, <1>c, <1>2, <1>3, <1>4, ServerPuts
<1>6. ClientInv'
  BY <1>a, <1>b, ClientKept
<1> QED
  BY <1>1, <1>5, <1>6, Zenon DEF OpeningInv

(* A record that Server seals takes its place among the others. *)
LEMMA ServerSeals ==
    ASSUME TypeOK, serverFull' = serverFull, cl' = cl, altered' = altered,
           sv.pc \in {"rem", "nst1", "nst2", "done"}, sv'.pc \in {"rem", "nst2", "done"},
           sv'.full = sv.full, sv'.key = sv.key, sv'.send = sv.send + 1,
           NEW body \in {"pad", "ticket", "companion", "app"}, NEW n \in Nat, body = ServerBody(sv.send),
           body \in {"ticket", "companion"} => n = issued',
           issued' = issued \/ sv.send = Planned
    PROVE  /\ Sealed(sv, body, n) \in ServerRecords /\ Sealed(sv, body, n) \in SentByServer'
           /\ SentByServer \subseteq SentByServer'
           /\ At(Sealed(sv, body, n)) = ServerWrote /\ ServerWrote' = ServerWrote + 1
<1>0. PICK r : r = Sealed(sv, body, n)
  OBVIOUS
<1>a. sv.send \in Nat /\ sv'.send \in Nat /\ Planned \in Nat
  BY ProfileTypes DEF TypeOK, Ends
<1>b. r \in ServerRecords
  BY <1>0, RecordTypes DEF ServerRecords
<1>c. r.kind = "sealed" /\ r.key = sv.key /\ r.seq = sv.send /\ r.body = body /\ r.issue = n
  BY <1>0 DEF Sealed
<1>d. Planned' = Planned
  BY DEF Planned, Drawn
<1>1. At(r) = ServerWrote /\ ServerWrote' = ServerWrote + 1
  BY <1>a, <1>c DEF At, ServerWrote
<1>2. r \in SentByServer'
  <2>1. r.seq < sv'.send
    BY <1>a, <1>c
  <2>2. r.body = ServerBody(r.seq)'
    BY <1>c, <1>d DEF ServerBody
  <2> QED
    BY <1>b, <1>c, <2>1, <2>2 DEF SentByServer
<1>3. SentByServer \subseteq SentByServer'
  <2> SUFFICES ASSUME NEW q \in SentByServer PROVE q \in SentByServer'
    OBVIOUS
  <2>1. q \in ServerRecords /\ (q.kind = "sealed" => q.seq \in Nat)
    BY SealedTypes DEF SentByServer
  <2>2. q.kind = "sealed" => /\ q.key = sv.key /\ q.seq < sv'.send /\ q.body = ServerBody(q.seq)'
                             /\ q.body \in {"ticket", "companion"} => q.issue = issued'
    <3> SUFFICES ASSUME q.kind = "sealed"
                 PROVE  /\ q.key = sv.key /\ q.seq < sv'.send /\ q.body = ServerBody(q.seq)'
                        /\ q.body \in {"ticket", "companion"} => q.issue = issued'
      OBVIOUS
    <3>1. /\ q.key = sv.key /\ q.seq < sv.send /\ q.body = ServerBody(q.seq)
          /\ q.body \in {"ticket", "companion"} => q.issue = issued
      BY DEF SentByServer
    <3>2. q.seq < sv'.send
      BY <1>a, <2>1, <3>1
    <3>3. q.body = ServerBody(q.seq)'
      BY <1>d, <3>1 DEF ServerBody
    <3>4. sv.send = Planned => q.body = "pad"
      BY <3>1 DEF ServerBody
    <3> QED
      BY <3>1, <3>2, <3>3, <3>4
  <2> QED
    BY <2>1, <2>2 DEF SentByServer
<1> QED
  BY <1>0, <1>b, <1>1, <1>2, <1>3

(* Server sends a record of the remainder. *)
LEMMA NextSendRemainder ==
    ASSUME OpeningInv, TypeInv', ServerSendRemainder
    PROVE  OpeningInv'
<1>a. /\ sv \in Ends /\ TypeOK /\ ClientInv /\ ServerInv /\ BothInv
      /\ sv.recv \in Nat /\ sv.rem \in Nat /\ sv.send \in Nat /\ Planned \in Nat /\ issued \in Nat
  BY ProfileTypes DEF OpeningInv, TypeInv, TypeOK, Ends
<1>b. /\ sv.pc = "rem" /\ sv.rem > 0 /\ s2c' = Put(s2c, Sealed(sv, "pad", 0))
      /\ serverFull' = serverFull /\ cl' = cl /\ c2s' = c2s /\ cut' = cut /\ issued' = issued
      /\ altered' = altered /\ cred' = cred /\ next' = next
      /\ sv' = [sv EXCEPT !.rem = @ - 1, !.send = @ + 1]
  BY DEF ServerSendRemainder, ServerWrites, More
<1>c. /\ sv'.full = sv.full /\ sv'.send = sv.send + 1 /\ sv'.recv = sv.recv
      /\ sv'.key = sv.key /\ sv'.pc = "rem" /\ sv'.rem = sv.rem - 1
  <2>1. sv' = [sv EXCEPT !.rem = @ - 1, !.send = @ + 1] /\ sv.pc = "rem"
    BY <1>b
  <2> QED
    BY ONLY <1>a, <2>1, EndShape
<1>d. Planned' = Planned
  BY <1>b, <1>c DEF Planned, Drawn
<1>e. "pad" = ServerBody(sv.send)
  <2>1. sv.send < Planned
    BY <1>a, <1>b DEF ServerInv
  <2> QED
    BY <2>1 DEF ServerBody
<1>1. ServerInv'
  <2>1. sv'.key \in {<<FALSE, FALSE>>, <<TRUE, FALSE>>} /\ sv'.full = cl'.full /\ sv'.recv = 0
    BY <1>a, <1>b, <1>c DEF ServerInv
  <2>2. sv'.send + sv'.rem = Planned'
    BY <1>a, <1>b, <1>c, <1>d DEF ServerInv
  <2> QED
    BY <1>c, <2>1, <2>2 DEF ServerInv
<1>2. /\ Sealed(sv, "pad", 0) \in ServerRecords /\ Sealed(sv, "pad", 0) \in SentByServer'
      /\ SentByServer \subseteq SentByServer'
      /\ At(Sealed(sv, "pad", 0)) = ServerWrote /\ ServerWrote' = ServerWrote + 1
  BY <1>a, <1>b, <1>c, <1>e, ServerSeals
<1>3. ToServerInv' /\ ToClientInv' /\ BothInv' /\ AlteredInv'
  BY <1>a, <1>b, <1>c, <1>e, <1>2, ServerPuts
<1>4. ClientInv'
  BY <1>a, <1>b, ClientKept
<1> QED
  BY <1>1, <1>3, <1>4, Zenon DEF OpeningInv

(* Server sends the first NewSessionTicket, of a credential it mints. *)
LEMMA NextSendTicket ==
    ASSUME OpeningInv, TypeInv', ServerSendTicket
    PROVE  OpeningInv'
<1>a. /\ sv \in Ends /\ TypeOK /\ ClientInv /\ ServerInv /\ BothInv
      /\ sv.recv \in Nat /\ sv.rem \in Nat /\ sv.send \in Nat /\ Planned \in Nat /\ issued \in Nat
  BY ProfileTypes DEF OpeningInv, TypeInv, TypeOK, Ends
<1>b. /\ sv.pc = "nst1" /\ s2c' = Put(s2c, Sealed(sv, "ticket", issued + 1))
      /\ serverFull' = serverFull /\ cl' = cl /\ c2s' = c2s /\ cut' = cut /\ issued' = issued + 1
      /\ altered' = altered /\ cred' = cred /\ next' = next
      /\ sv' = [sv EXCEPT !.pc = "nst2", !.send = @ + 1]
  BY DEF ServerSendTicket, ServerWrites, Issue
<1>c. /\ sv'.full = sv.full /\ sv'.send = sv.send + 1 /\ sv'.recv = sv.recv
      /\ sv'.key = sv.key /\ sv'.pc = "nst2"
  <2>1. sv' = [sv EXCEPT !.pc = "nst2", !.send = @ + 1] /\ sv.pc = "nst1"
    BY <1>b
  <2> QED
    BY ONLY <1>a, <2>1, EndShape
<1>d. Planned' = Planned
  BY <1>b, <1>c DEF Planned, Drawn
<1>e. "ticket" = ServerBody(sv.send) /\ sv.send = Planned /\ cl.pc \notin {"nst2", "done"} /\ issued + 1 \in Nat
  <2>1. sv.send = Planned
    BY <1>a, <1>b DEF ServerInv
  <2>2. cl.pc \notin {"nst2", "done"}
    BY <1>a, <1>b, <2>1 DEF BothInv
  <2> QED
    BY <1>a, <2>1, <2>2 DEF ServerBody
<1>1. ServerInv'
  <2>1. sv'.key \in {<<FALSE, FALSE>>, <<TRUE, FALSE>>} /\ sv'.full = cl'.full /\ sv'.recv = 1
    BY <1>a, <1>b, <1>c DEF ServerInv
  <2>2. sv'.send = Planned' + 1
    BY <1>a, <1>b, <1>c, <1>d DEF ServerInv
  <2> QED
    BY <1>c, <2>1, <2>2 DEF ServerInv
<1>2. /\ Sealed(sv, "ticket", issued + 1) \in ServerRecords /\ Sealed(sv, "ticket", issued + 1) \in SentByServer'
      /\ SentByServer \subseteq SentByServer'
      /\ At(Sealed(sv, "ticket", issued + 1)) = ServerWrote /\ ServerWrote' = ServerWrote + 1
  BY <1>a, <1>b, <1>c, <1>e, ServerSeals
<1>3. ToServerInv' /\ ToClientInv' /\ BothInv' /\ AlteredInv'
  BY <1>a, <1>b, <1>c, <1>e, <1>2, ServerPuts
<1>4. ClientInv'
  BY <1>a, <1>b, ClientKept
<1> QED
  BY <1>1, <1>3, <1>4, Zenon DEF OpeningInv

(* Server sends the second NewSessionTicket and returns. *)
LEMMA NextSendCompanion ==
    ASSUME OpeningInv, TypeInv', ServerSendCompanion
    PROVE  OpeningInv'
<1>a. /\ sv \in Ends /\ TypeOK /\ ClientInv /\ ServerInv /\ BothInv
      /\ sv.recv \in Nat /\ sv.rem \in Nat /\ sv.send \in Nat /\ Planned \in Nat /\ issued \in Nat
  BY ProfileTypes DEF OpeningInv, TypeInv, TypeOK, Ends
<1>b. /\ sv.pc = "nst2" /\ s2c' = Put(s2c, Sealed(sv, "companion", issued))
      /\ serverFull' = serverFull /\ cl' = cl /\ c2s' = c2s /\ cut' = cut /\ issued' = issued
      /\ altered' = altered /\ cred' = cred /\ next' = next
      /\ sv' = [sv EXCEPT !.pc = "done", !.send = @ + 1]
  BY DEF ServerSendCompanion, ServerWrites
<1>c. /\ sv'.full = sv.full /\ sv'.send = sv.send + 1 /\ sv'.recv = sv.recv
      /\ sv'.key = sv.key /\ sv'.pc = "done"
  <2>1. sv' = [sv EXCEPT !.pc = "done", !.send = @ + 1] /\ sv.pc = "nst2"
    BY <1>b
  <2> QED
    BY ONLY <1>a, <2>1, EndShape
<1>d. Planned' = Planned
  BY <1>b, <1>c DEF Planned, Drawn
<1>e. "companion" = ServerBody(sv.send)
  <2>1. sv.send = Planned + 1
    BY <1>a, <1>b DEF ServerInv
  <2> QED
    BY <1>a, <2>1 DEF ServerBody
<1>1. ServerInv'
  <2>1. sv'.key \in {<<FALSE, FALSE>>, <<TRUE, FALSE>>} /\ sv'.full = cl'.full /\ sv'.recv = 1
    BY <1>a, <1>b, <1>c DEF ServerInv
  <2>2. sv'.send >= Planned' + 2
    BY <1>a, <1>b, <1>c, <1>d DEF ServerInv
  <2> QED
    BY <1>c, <2>1, <2>2 DEF ServerInv
<1>2. /\ Sealed(sv, "companion", issued) \in ServerRecords /\ Sealed(sv, "companion", issued) \in SentByServer'
      /\ SentByServer \subseteq SentByServer'
      /\ At(Sealed(sv, "companion", issued)) = ServerWrote /\ ServerWrote' = ServerWrote + 1
  BY <1>a, <1>b, <1>c, <1>e, ServerSeals
<1>3. ToServerInv' /\ ToClientInv' /\ BothInv' /\ AlteredInv'
  BY <1>a, <1>b, <1>c, <1>e, <1>2, ServerPuts
<1>4. ClientInv'
  BY <1>a, <1>b, ClientKept
<1> QED
  BY <1>1, <1>3, <1>4, Zenon DEF OpeningInv

(* Server writes application data. *)
LEMMA NextServerWritesApp ==
    ASSUME OpeningInv, TypeInv', ServerWritesApp
    PROVE  OpeningInv'
<1>a. /\ sv \in Ends /\ TypeOK /\ ClientInv /\ ServerInv /\ BothInv
      /\ sv.recv \in Nat /\ sv.rem \in Nat /\ sv.send \in Nat /\ Planned \in Nat /\ issued \in Nat
  BY ProfileTypes DEF OpeningInv, TypeInv, TypeOK, Ends
<1>b. /\ sv.pc = "done" /\ s2c' = Put(s2c, Sealed(sv, "app", 0))
      /\ serverFull' = serverFull /\ cl' = cl /\ c2s' = c2s /\ cut' = cut /\ issued' = issued
      /\ altered' = altered /\ cred' = cred /\ next' = next
      /\ sv' = [sv EXCEPT !.send = @ + 1]
  BY DEF ServerWritesApp, ServerWrites
<1>c. /\ sv'.full = sv.full /\ sv'.send = sv.send + 1 /\ sv'.recv = sv.recv
      /\ sv'.key = sv.key /\ sv'.pc = "done"
  <2>1. sv' = [sv EXCEPT !.send = @ + 1] /\ sv.pc = "done"
    BY <1>b
  <2> QED
    BY ONLY <1>a, <2>1, EndShape
<1>d. Planned' = Planned
  BY <1>b, <1>c DEF Planned, Drawn
<1>e. "app" = ServerBody(sv.send)
  <2>1. sv.send >= Planned + 2
    BY <1>a, <1>b DEF ServerInv
  <2> QED
    BY <1>a, <2>1 DEF ServerBody
<1>1. ServerInv'
  <2>1. sv'.key \in {<<FALSE, FALSE>>, <<TRUE, FALSE>>} /\ sv'.full = cl'.full /\ sv'.recv = 1
    BY <1>a, <1>b, <1>c DEF ServerInv
  <2>2. sv'.send >= Planned' + 2
    BY <1>a, <1>b, <1>c, <1>d DEF ServerInv
  <2> QED
    BY <1>c, <2>1, <2>2 DEF ServerInv
<1>2. /\ Sealed(sv, "app", 0) \in ServerRecords /\ Sealed(sv, "app", 0) \in SentByServer'
      /\ SentByServer \subseteq SentByServer'
      /\ At(Sealed(sv, "app", 0)) = ServerWrote /\ ServerWrote' = ServerWrote + 1
  BY <1>a, <1>b, <1>c, <1>e, ServerSeals
<1>3. ToServerInv' /\ ToClientInv' /\ BothInv' /\ AlteredInv'
  BY <1>a, <1>b, <1>c, <1>e, <1>2, ServerPuts
<1>4. ClientInv'
  BY <1>a, <1>b, ClientKept
<1> QED
  BY <1>1, <1>3, <1>4, Zenon DEF OpeningInv

(* Server reads the hello. *)
LEMMA NextReadHello ==
    ASSUME OpeningInv, TypeInv', ServerReadHello
    PROVE  OpeningInv'
<1>a. /\ sv \in Ends /\ TypeOK /\ ClientInv /\ ServerInv /\ BothInv /\ AlteredInv
      /\ c2s \in Seq(ClientRecords) /\ c2s \in Seq(SentByClient)
  BY DEF OpeningInv, TypeInv, TypeOK, ToServerInv
<1>b. /\ sv.pc = "hello" /\ c2s # <<>> /\ c2s' = Tail(c2s)
      /\ serverFull' = serverFull /\ cl' = cl /\ s2c' = s2c /\ cut' = cut /\ issued' = issued
      /\ altered' = altered /\ cred' = cred /\ next' = next
  BY DEF ServerReadHello
<1>c. /\ Head(c2s).full = cl.full /\ Head(c2s).altered \in BOOLEAN
      /\ "hello" \in altered => Head(c2s).altered
  <2>1. Head(c2s) \in HelloRecords
    BY <1>b, TailFacts DEF OpeningInv, TypeInv
  <2>2. Head(c2s) \in SentByClient
    BY <1>a, <1>b, TailFacts
  <2> QED
    BY <2>1, <2>2 DEF HelloRecords, SentByClient
<1>d. c2s' = <<>> /\ s2c' = <<>> /\ cl.pc \in {"sh", "failed"} /\ (cut \/ cl.pc = "sh")
  <2>1. Len(c2s) <= 1
    BY <1>a, <1>b DEF BothInv
  <2>2. Tail(c2s) \in Seq(ClientRecords) /\ Len(Tail(c2s)) = 0
    <3>1. Tail(c2s) \in Seq(ClientRecords)
      BY <1>a, <1>b, TailFacts, Zenon
    <3>2. Len(Tail(c2s)) = Len(c2s) - 1 /\ Len(c2s) \in Nat
      BY <1>a, <1>b, TailFacts, Zenon
    <3>3. Len(Tail(c2s)) \in Nat
      BY <3>1, LenProperties, Zenon
    <3> QED
      BY ONLY <2>1, <3>1, <3>2, <3>3
  <2>3. Tail(c2s) = <<>>
    BY <2>2, EmptySeq
  <2> QED
    BY <1>a, <1>b, <2>3 DEF BothInv, OpeningInv, TypeInv
<1>e. \/ /\ sv'.pc = "sh" /\ sv'.full = cl.full /\ sv'.rem = Drawn(cl.full)
         /\ sv'.key = <<Head(c2s).altered, FALSE>> /\ sv'.send = 0 /\ sv'.recv = 0
      \/ /\ sv'.pc = "notours" /\ sv'.key = sv.key /\ sv'.send = sv.send /\ sv'.recv = sv.recv
  <2>1. \/ sv' = End("sh", Head(c2s).full, Drawn(Head(c2s).full), Transcript(Head(c2s).altered, FALSE))
        \/ sv' = [sv EXCEPT !.pc = "notours"]
    BY DEF ServerReadHello
  <2>2. CASE sv' = End("sh", Head(c2s).full, Drawn(Head(c2s).full), Transcript(Head(c2s).altered, FALSE))
    BY <1>c, <2>2 DEF End, Transcript
  <2>3. CASE sv' = [sv EXCEPT !.pc = "notours"]
    BY ONLY <1>a, <2>3, EndShape
  <2> QED
    BY <2>1, <2>2, <2>3
<1>1. ServerInv'
  <2>1. CASE sv'.pc = "notours"
    BY <1>a, <1>b, <1>e, <2>1 DEF ServerInv
  <2>2. CASE sv'.pc = "sh"
    <3>0. cl.full \in BOOLEAN /\ Drawn(cl.full) \in Nat
      BY <1>a, ProfileTypes DEF TypeOK, Ends
    <3>1. sv'.full = cl'.full /\ sv'.rem = Planned' /\ sv'.send = 0 /\ sv'.recv = 0
      BY <1>b, <1>e, <2>2 DEF Planned, Drawn
    <3>3. sv'.rem \in Nat /\ sv'.send + sv'.rem = Planned'
      BY <1>e, <2>2, <3>0, <3>1
    <3>2. sv'.key \in {<<FALSE, FALSE>>, <<TRUE, FALSE>>}
      BY <1>c, <1>e, <2>2
    <3> QED
      BY <2>2, <3>1, <3>2, <3>3 DEF ServerInv
  <2> QED
    BY <1>e, <2>1, <2>2
<1>2. BothInv'
  BY <1>a, <1>b, <1>d, <1>e DEF BothInv
<1>3. AlteredInv'
  <2>1. "sh" \notin altered /\ "ccs" \notin altered
    BY <1>a, <1>b DEF AlteredInv
  <2>2. "hello" \in altered => sv'.pc = "notours" \/ sv'.key = <<TRUE, FALSE>>
    BY <1>c, <1>e
  <2> QED
    BY <1>b, <2>1, <2>2 DEF AlteredInv
<1>4. ToServerInv' /\ ToClientInv'
  <2>1. \A S, p : <<>> \in Seq(S) /\ Contiguous(<<>>, p) /\ Len(<<>>) = 0
    BY EmptySeq DEF Contiguous
  <2>2. sv'.pc = "sh" /\ cl.pc = "sh" =>
            ServerRead' = 1 /\ ClientWrote' = 1 /\ ClientRead' = 0 /\ ServerWrote' = 0
    BY <1>b DEF ServerRead, ClientWrote, ClientRead, ServerWrote
  <2>3. ServerLive' /\ ClientLive' /\ ~cut' => sv'.pc = "sh" /\ cl.pc = "sh"
    BY <1>b, <1>d, <1>e DEF ServerLive, ClientLive
  <2>4. c2s' \in Seq(SentByClient') /\ s2c' \in Seq(SentByServer')
    BY <1>d, <2>1
  <2>5. Contiguous(c2s', ServerRead') /\ Contiguous(s2c', ClientRead')
    BY <1>d, <2>1
  <2>6. ServerLive' /\ ClientLive' /\ ~cut' =>
            ServerRead' + Len(c2s') = ClientWrote' /\ ClientRead' + Len(s2c') = ServerWrote'
    BY <1>d, <2>1, <2>2, <2>3
  <2> QED
    BY <2>4, <2>5, <2>6 DEF ToServerInv, ToClientInv
<1>5. ClientInv'
  BY <1>a, <1>b, ClientKept
<1> QED
  BY <1>1, <1>2, <1>3, <1>4, <1>5, Zenon DEF OpeningInv

(* Nothing happens, or the socket is cut, and what is in flight arrives or *)
(* is lost.                                                                *)
LEMMA NextCut ==
    ASSUME OpeningInv, TypeInv', HangUp \/ Cut \/ UNCHANGED vars
    PROVE  OpeningInv'
<1>a. /\ TypeOK /\ ClientInv /\ ServerInv /\ BothInv /\ AlteredInv /\ ToServerInv /\ ToClientInv
      /\ Len(c2s) \in Nat
  BY LenProperties DEF OpeningInv, TypeInv
<1>b. /\ cl' = cl /\ sv' = sv /\ serverFull' = serverFull /\ issued' = issued /\ altered' = altered
      /\ cred' = cred /\ next' = next
      /\ c2s' = c2s \/ c2s' = <<>>
      /\ s2c' = s2c \/ s2c' = <<>>
      /\ cut' \/ (c2s' = c2s /\ s2c' = s2c /\ cut' = cut)
  BY DEF HangUp, Cut, vars, ends, wires, creds
<1>c. /\ ServerRead' = ServerRead /\ ClientWrote' = ClientWrote /\ (ClientLive' <=> ClientLive)
      /\ ClientRead' = ClientRead /\ ServerWrote' = ServerWrote /\ (ServerLive' <=> ServerLive)
      /\ Planned' = Planned /\ Expected' = Expected
  BY <1>b DEF ServerRead, ClientWrote, ClientLive, ClientRead, ServerWrote, ServerLive, Planned, Drawn, Expected
<1>d. \A S, p : <<>> \in Seq(S) /\ Contiguous(<<>>, p) /\ Len(<<>>) = 0
  BY EmptySeq DEF Contiguous
<1>1. ClientInv' /\ ServerInv' /\ AlteredInv'
  BY <1>a, <1>b, ClientKept, ServerKept DEF AlteredInv
<1>2. BothInv'
  <2>1. Len(c2s) <= 1 => Len(c2s') <= 1
    BY <1>b, <1>d
  <2> QED
    BY <1>a, <1>b, <1>c, <2>1 DEF BothInv
<1>3. ToServerInv'
  <2>1. SentByClient' = SentByClient
    BY <1>b DEF SentByClient
  <2>2. c2s' \in Seq(SentByClient')
    BY <1>a, <1>b, <1>d, <2>1 DEF ToServerInv
  <2>3. (ServerLive => Contiguous(c2s, ServerRead))'
    BY <1>a, <1>b, <1>c, <1>d DEF ToServerInv
  <2>4. (ServerLive /\ ClientLive /\ ~cut => ServerRead + Len(c2s) = ClientWrote)'
    BY <1>a, <1>b, <1>c DEF ToServerInv
  <2> QED
    BY <2>2, <2>3, <2>4, Zenon DEF ToServerInv
<1>4. ToClientInv'
  <2>1. SentByServer' = SentByServer
    BY <1>b, <1>c DEF SentByServer, ServerBody
  <2>2. s2c' \in Seq(SentByServer')
    BY <1>a, <1>b, <1>d, <2>1 DEF ToClientInv
  <2>3. (ClientLive => Contiguous(s2c, ClientRead))'
    BY <1>a, <1>b, <1>c, <1>d DEF ToClientInv
  <2>4. (ServerLive /\ ClientLive /\ ~cut => ClientRead + Len(s2c) = ServerWrote)'
    BY <1>a, <1>b, <1>c DEF ToClientInv
  <2> QED
    BY <2>2, <2>3, <2>4, Zenon DEF ToClientInv
<1> QED
  BY <1>1, <1>2, <1>3, <1>4, Zenon DEF OpeningInv

(* Client gives up on a socket that was cut. *)
LEMMA NextClientError ==
    ASSUME OpeningInv, TypeInv', ClientError
    PROVE  OpeningInv'
<1>a. /\ cl \in Ends /\ TypeOK /\ ClientInv /\ ServerInv /\ BothInv /\ AlteredInv
      /\ c2s \in Seq(SentByClient) /\ s2c \in Seq(SentByServer)
  BY DEF OpeningInv, TypeInv, TypeOK, ToServerInv, ToClientInv
<1>b. /\ cut /\ cl.pc \in {"sh", "ccs", "rem", "fin", "nst1", "nst2"}
      /\ s2c = <<>> \/ cl.pc \in {"rem", "fin"}
      /\ serverFull' = serverFull /\ sv' = sv /\ c2s' = c2s /\ s2c' = s2c /\ cut' = cut
      /\ issued' = issued /\ altered' = altered /\ cred' = cred /\ next' = next
      /\ cl' = [cl EXCEPT !.pc = "failed"]
  BY DEF ClientError, wires, creds
<1>c. /\ cl'.full = cl.full /\ cl'.send = cl.send /\ cl'.recv = cl.recv /\ cl'.rem = cl.rem
      /\ cl'.key = cl.key /\ cl'.pc = "failed"
  BY ONLY <1>a, <1>b, EndShape
<1>1. ClientInv'
  BY <1>a, <1>c DEF ClientInv
<1>2. ServerInv'
  BY <1>a, <1>b, <1>c, ServerKept
<1>3. BothInv'
  BY <1>a, <1>b, <1>c DEF BothInv
<1>4. AlteredInv'
  BY <1>a, <1>b, <1>c DEF AlteredInv, ClientInv
<1>5. ToServerInv'
  <2>1. SentByClient' = SentByClient
    BY <1>b, <1>c DEF SentByClient
  <2> QED
    BY <1>a, <1>b, <1>c, <2>1 DEF ToServerInv, OpeningInv, ServerLive, ServerRead, ClientLive
<1>6. ToClientInv'
  <2>1. s2c = <<>> \/ SentByServer \subseteq SentByServer'
    BY <1>b, <1>c DEF SentByServer, ServerBody, Planned, Drawn
  <2>2. s2c' \in Seq(SentByServer')
    BY <1>a, <1>b, <2>1, SeqMonotonic, EmptySeq
  <2> QED
    BY <1>c, <2>2 DEF ToClientInv, ClientLive
<1> QED
  BY <1>1, <1>2, <1>3, <1>4, <1>5, <1>6, Zenon DEF OpeningInv

(* Server gives up on one. *)
LEMMA NextServerError ==
    ASSUME OpeningInv, TypeInv', ServerError
    PROVE  OpeningInv'
<1>a. /\ sv \in Ends /\ TypeOK /\ ClientInv /\ ServerInv /\ BothInv /\ AlteredInv
      /\ c2s \in Seq(SentByClient) /\ s2c \in Seq(SentByServer)
      /\ sv.send \in Nat /\ sv.rem \in Nat /\ Planned \in Nat
  BY ProfileTypes DEF OpeningInv, TypeInv, TypeOK, ToServerInv, ToClientInv, Ends
<1>b. /\ cut
      /\ serverFull' = serverFull /\ cl' = cl /\ c2s' = c2s /\ s2c' = s2c /\ cut' = cut
      /\ issued' = issued /\ altered' = altered /\ cred' = cred /\ next' = next
  BY DEF ServerError, wires, creds
<1>c. /\ sv'.full = sv.full /\ sv'.send = sv.send /\ sv'.recv = sv.recv /\ sv'.key = sv.key
      /\ \/ sv.pc = "hello" /\ c2s = <<>> /\ sv'.pc = "notours"
         \/ sv.pc \in {"sh", "ccs", "rem", "fin", "nst1", "nst2"} /\ sv'.pc = "failed"
  <2>1. \/ sv.pc = "hello" /\ c2s = <<>> /\ sv' = [sv EXCEPT !.pc = "notours"]
        \/ sv.pc \in {"sh", "ccs", "rem", "fin", "nst1", "nst2"} /\ sv' = [sv EXCEPT !.pc = "failed"]
    BY DEF ServerError
  <2> QED
    BY ONLY <1>a, <2>1, EndShape
<1>d. Planned' = Planned /\ Expected' = Expected
  BY <1>b, <1>c DEF Planned, Drawn, Expected
<1>1. ServerInv'
  <2>1. sv'.pc = "failed" => sv.send <= Planned + 1
    BY <1>a, <1>c DEF ServerInv
  <2> QED
    BY <1>a, <1>b, <1>c, <1>d, <2>1 DEF ServerInv
<1>2. ClientInv'
  BY <1>a, <1>b, ClientKept
<1>3. BothInv'
  BY <1>a, <1>b, <1>c, <1>d DEF BothInv
<1>4. AlteredInv'
  BY <1>a, <1>b, <1>c DEF AlteredInv
<1>5. ToServerInv'
  <2>1. c2s = <<>> \/ SentByClient \subseteq SentByClient'
    BY <1>b, <1>c DEF SentByClient
  <2>2. c2s' \in Seq(SentByClient')
    BY <1>a, <1>b, <2>1, SeqMonotonic, EmptySeq
  <2> QED
    BY <1>c, <2>2 DEF ToServerInv, ServerLive
<1>6. ToClientInv'
  <2>1. SentByServer \subseteq SentByServer'
    BY <1>b, <1>c, <1>d DEF SentByServer, ServerBody
  <2>2. s2c' \in Seq(SentByServer')
    BY <1>a, <1>b, <2>1, SeqMonotonic
  <2>3. (ClientLive => Contiguous(s2c, ClientRead))'
    BY <1>b DEF OpeningInv, ToClientInv, ClientLive, ClientRead
  <2> QED
    BY <1>c, <2>2, <2>3 DEF ToClientInv, ServerLive
<1> QED
  BY <1>1, <1>2, <1>3, <1>4, <1>5, <1>6, Zenon DEF OpeningInv

(* The cover answers in Server's place. *)
LEMMA NextCoverAnswers ==
    ASSUME OpeningInv, TypeInv', CoverAnswers
    PROVE  OpeningInv'
<1>a. /\ sv \in Ends /\ TypeOK /\ ClientInv /\ ServerInv /\ BothInv /\ AlteredInv
      /\ c2s \in Seq(SentByClient)
  BY DEF OpeningInv, TypeInv, TypeOK, ToServerInv
<1>b. /\ sv.pc = "notours"
      /\ serverFull' = serverFull /\ cl' = cl /\ c2s' = c2s /\ cut' = cut
      /\ issued' = issued /\ altered' = altered /\ cred' = cred /\ next' = next
      /\ sv' = [sv EXCEPT !.pc = "spliced"]
  BY DEF CoverAnswers, creds
<1>c. /\ sv'.full = sv.full /\ sv'.send = sv.send /\ sv'.recv = sv.recv /\ sv'.key = sv.key
      /\ sv'.pc = "spliced"
  BY ONLY <1>a, <1>b, EndShape
<1>d. s2c = <<>> /\ (cut \/ cl.pc = "sh") /\ sv.send = 0 /\ "ccs" \notin altered /\ cl.pc # "done"
  BY <1>a, <1>b DEF BothInv, ServerInv, AlteredInv
<1>e. Planned' = Planned /\ Expected' = Expected
  BY <1>b, <1>c DEF Planned, Drawn, Expected
<1>1. ServerInv'
  BY <1>a, <1>b, <1>c DEF ServerInv
<1>2. ClientInv'
  BY <1>a, <1>b, ClientKept
<1>3. BothInv'
  BY <1>a, <1>b, <1>c, <1>d, <1>e DEF BothInv
<1>4. AlteredInv'
  BY <1>a, <1>b, <1>c DEF AlteredInv
<1>5. ToServerInv'
  <2>1. SentByClient \subseteq SentByClient'
    BY <1>b, <1>c DEF SentByClient
  <2>2. c2s' \in Seq(SentByClient')
    BY <1>a, <1>b, <2>1, SeqMonotonic
  <2> QED
    BY <1>c, <2>2 DEF ToServerInv, ServerLive
<1>6. s2c' \in Seq(SentByServer') /\ (ClientLive => Contiguous(s2c, ClientRead))'
  <2>1. CASE cut
    <3>1. s2c' = <<>>
      BY <1>d, <2>1 DEF CoverAnswers
    <3> QED
      BY <3>1, EmptySeq DEF Contiguous
  <2>2. CASE ~cut
    <3>0. PICK x, y, z : /\ x = [Plain("sh") EXCEPT !.altered = TRUE] /\ y = Plain("ccs")
                         /\ z = Sealed([sv EXCEPT !.key = CoverKey], "pad", 0)
      OBVIOUS
    <3>1. s2c' = <<x, y, z>>
      BY <2>2, <3>0 DEF CoverAnswers
    <3>2. x \in ServerRecords /\ y \in ServerRecords /\ z \in ServerRecords
      BY <1>a, <3>0, RecordTypes, AlterTypes DEF ServerRecords
    <3>3. x.kind = "sh" /\ x.altered /\ y.kind = "ccs"
      BY <3>0 DEF Plain
    <3>4. [sv EXCEPT !.key = CoverKey].key = CoverKey /\ [sv EXCEPT !.key = CoverKey].send = sv.send
      BY <1>a DEF Ends
    <3>5. z.kind = "sealed" /\ z.key = CoverKey /\ z.seq = 0
      BY <1>d, <3>0, <3>4 DEF Sealed
    <3>6. cl.pc = "sh" /\ cl.send = 0
      BY <1>a, <1>d, <2>2 DEF ClientInv
    <3>7. x \in SentByServer' /\ y \in SentByServer' /\ z \in SentByServer'
      BY <1>b, <1>c, <1>d, <3>2, <3>3, <3>5, <3>6 DEF SentByServer
    <3>8. At(x) = 0 /\ At(y) = 1 /\ At(z) = 2
      BY <3>3, <3>5 DEF At
    <3>9. ClientRead' = 0
      BY <1>b, <3>6 DEF ClientRead
    <3>10. s2c' \in Seq(SentByServer')
      BY <3>1, <3>7
    <3>11. Contiguous(<<x, y, z>>, 0)
      <4> SUFFICES ASSUME NEW i \in 1..Len(<<x, y, z>>) PROVE At(<<x, y, z>>[i]) = 0 + i - 1
        BY DEF Contiguous
      <4>1. i = 1 \/ i = 2 \/ i = 3
        OBVIOUS
      <4>2. <<x, y, z>>[1] = x /\ <<x, y, z>>[2] = y /\ <<x, y, z>>[3] = z
        OBVIOUS
      <4> QED
        BY <3>8, <4>1, <4>2
    <3> QED
      BY <3>1, <3>9, <3>10, <3>11
  <2> QED
    BY <2>1, <2>2
<1>7. ToClientInv'
  BY <1>c, <1>6 DEF ToClientInv, ServerLive
<1> QED
  BY <1>1, <1>2, <1>3, <1>4, <1>5, <1>7, Zenon DEF OpeningInv

(* A new opening. *)
LEMMA NextHello ==
    ASSUME OpeningInv, TypeInv', NEW full \in BOOLEAN, ClientHello(full)
    PROVE  OpeningInv'
<1>0. PICK r : r = Hello(full)
  OBVIOUS
<1>a. TypeOK
  BY DEF OpeningInv, TypeInv
<1>b. /\ cl' = End("sh", full, IF full THEN ClientFull ELSE Resumed, NoKey)
      /\ sv' = End("hello", FALSE, 0, NoKey)
      /\ c2s' = <<r>> /\ s2c' = <<>> /\ cut' = FALSE
      /\ altered' = {} /\ (full => ClientFull > 0)
  BY <1>0 DEF ClientHello
<1>c. /\ cl'.pc = "sh" /\ cl'.full = full /\ cl'.key = NoKey /\ cl'.send = 0 /\ cl'.recv = 0
      /\ cl'.rem = IF full THEN ClientFull ELSE Resumed
      /\ sv'.pc = "hello" /\ sv'.key = NoKey /\ sv'.send = 0 /\ sv'.recv = 0
  BY <1>b DEF End
<1>1. ClientInv'
  <2>1. Expected' = cl'.rem /\ cl'.rem \in Nat
    BY <1>c, CoverAssumption DEF Expected
  <2>2. cl'.full => ClientFull > 0
    BY <1>b, <1>c, Zenon
  <2>3. cl'.recv + cl'.rem = Expected'
    BY <1>c, <2>1
  <2> QED
    BY ONLY <1>c, <2>2, <2>3 DEF ClientInv
<1>2. ServerInv'
  BY <1>c DEF ServerInv
<1>3. r \in ClientRecords /\ r.kind = "hello" /\ r.full = full
  BY <1>0, <1>a, RecordTypes DEF Hello
<1>4. Len(c2s') = 1 /\ c2s'[1] = r
  BY <1>b
<1>5. BothInv'
  <2>1. Len(c2s') <= 1
    BY ONLY <1>4
  <2>2. s2c' = <<>> /\ cl'.pc = "sh" /\ sv'.pc = "hello"
    BY <1>b, <1>c, Zenon
  <2> QED
    BY ONLY <2>1, <2>2 DEF BothInv
<1>6. AlteredInv'
  BY <1>b DEF AlteredInv
<1>7. ServerRead' = 0 /\ ClientWrote' = 1 /\ ClientRead' = 0 /\ ServerWrote' = 0
  BY <1>c DEF ServerRead, ClientWrote, ClientRead, ServerWrote
<1>8. ToServerInv'
  <2>1. r \in SentByClient'
    BY <1>b, <1>c, <1>3 DEF SentByClient
  <2>2. c2s' \in Seq(SentByClient')
    BY <1>b, <2>1
  <2>3. At(r) = 0
    BY <1>3 DEF At
  <2>4. Contiguous(c2s', 0)
    BY <1>4, <2>3 DEF Contiguous
  <2> QED
    BY <1>4, <1>7, <2>2, <2>4 DEF ToServerInv
<1>9. ToClientInv'
  <2>1. s2c' \in Seq(SentByServer') /\ Contiguous(s2c', 0) /\ Len(s2c') = 0
    BY <1>b, EmptySeq DEF Contiguous
  <2> QED
    BY <1>7, <2>1 DEF ToClientInv
<1> QED
  BY <1>1, <1>2, <1>5, <1>6, <1>8, <1>9, Zenon DEF OpeningInv

(* An alteration changes no other field. *)
LEMMA AlterFields ==
    /\ \A r \in ClientRecords :
          /\ [r EXCEPT !.altered = TRUE].kind = r.kind /\ [r EXCEPT !.altered = TRUE].altered
          /\ r.kind = "hello" => [r EXCEPT !.altered = TRUE].full = r.full
          /\ r.kind = "sealed" => /\ [r EXCEPT !.altered = TRUE].key = r.key
                                  /\ [r EXCEPT !.altered = TRUE].seq = r.seq
                                  /\ [r EXCEPT !.altered = TRUE].body = r.body
    /\ \A r \in ServerRecords :
          /\ [r EXCEPT !.altered = TRUE].kind = r.kind /\ [r EXCEPT !.altered = TRUE].altered
          /\ r.kind = "sealed" => /\ [r EXCEPT !.altered = TRUE].key = r.key
                                  /\ [r EXCEPT !.altered = TRUE].seq = r.seq
                                  /\ [r EXCEPT !.altered = TRUE].body = r.body
                                  /\ [r EXCEPT !.altered = TRUE].issue = r.issue
<1>1. \A r \in HelloRecords :
          /\ [r EXCEPT !.altered = TRUE].kind = r.kind /\ [r EXCEPT !.altered = TRUE].altered
          /\ [r EXCEPT !.altered = TRUE].full = r.full /\ r.kind = "hello"
  BY DEF HelloRecords
<1>2. \A kinds : \A r \in PlainRecords(kinds) :
          /\ [r EXCEPT !.altered = TRUE].kind = r.kind /\ [r EXCEPT !.altered = TRUE].altered
          /\ r.kind \in kinds
  BY DEF PlainRecords
<1>3. \A r \in SealedRecords :
          /\ [r EXCEPT !.altered = TRUE].kind = r.kind /\ [r EXCEPT !.altered = TRUE].altered
          /\ r.kind = "sealed"
          /\ [r EXCEPT !.altered = TRUE].key = r.key
          /\ [r EXCEPT !.altered = TRUE].seq = r.seq
          /\ [r EXCEPT !.altered = TRUE].body = r.body
          /\ [r EXCEPT !.altered = TRUE].issue = r.issue
  BY DEF SealedRecords
<1> QED
  BY <1>1, <1>2, <1>3 DEF ClientRecords, ServerRecords

(* A record on the way to Server is altered. *)
LEMMA NextAlterToServer ==
    ASSUME OpeningInv, TypeInv', NEW i \in DOMAIN c2s,
           c2s' = [c2s EXCEPT ![i].altered = TRUE], altered' = altered \cup {c2s[i].kind},
           s2c' = s2c, serverFull' = serverFull, cl' = cl, sv' = sv, cut' = cut,
           cred' = cred, next' = next, issued' = issued
    PROVE  OpeningInv'
<1>a. /\ TypeOK /\ ClientInv /\ ServerInv /\ BothInv /\ AlteredInv /\ ToServerInv /\ ToClientInv
      /\ c2s \in Seq(ClientRecords) /\ c2s \in Seq(SentByClient) /\ s2c \in Seq(SentByServer)
      /\ Len(c2s) \in Nat /\ DOMAIN c2s = 1..Len(c2s)
  BY LenProperties DEF OpeningInv, TypeInv, ToServerInv, ToClientInv
<1>b. PICK q : q = c2s[i]
  OBVIOUS
<1>c. q \in ClientRecords /\ q \in SentByClient /\ q.kind \in {"hello", "clientccs", "sealed"}
  BY <1>a, <1>b, ElementOfSeq, SealedTypes
<1>d. ("sh" \in altered' <=> "sh" \in altered) /\ ("ccs" \in altered' <=> "ccs" \in altered)
  BY <1>b, <1>c
<1>e. Len(c2s') = Len(c2s)
  BY <1>a, AlterFacts
<1>f. /\ ServerRead' = ServerRead /\ ClientWrote' = ClientWrote /\ (ClientLive' <=> ClientLive)
      /\ ClientRead' = ClientRead /\ ServerWrote' = ServerWrote /\ (ServerLive' <=> ServerLive)
      /\ Planned' = Planned /\ Expected' = Expected
  BY DEF ServerRead, ClientWrote, ClientLive, ClientRead, ServerWrote, ServerLive, Planned, Drawn, Expected
<1>1. ClientInv' /\ ServerInv'
  BY <1>a, ClientKept, ServerKept
<1>2. BothInv'
  BY <1>a, <1>e, <1>f DEF BothInv
<1>3. "hello" \in altered' => "hello" \in altered \/ (q.kind = "hello" /\ sv.pc = "hello")
  BY <1>b, <1>c DEF SentByClient
<1>4. AlteredInv'
  BY <1>a, <1>d, <1>3 DEF AlteredInv
<1>5. ToServerInv'
  <2>1. [q EXCEPT !.altered = TRUE] \in SentByClient'
    <3>0. PICK p : p = [q EXCEPT !.altered = TRUE]
      OBVIOUS
    <3>1. /\ p \in ClientRecords /\ p.kind = q.kind /\ p.altered
          /\ q.kind = "hello" => p.full = q.full
          /\ q.kind = "sealed" => p.key = q.key /\ p.seq = q.seq /\ p.body = q.body
      BY <1>c, <3>0, AlterTypes, AlterFields
    <3> QED
      BY <1>c, <3>0, <3>1 DEF SentByClient
  <2>2. ASSUME NEW j \in 1..Len(c2s), j # i PROVE c2s[j] \in SentByClient'
    <3>0. PICK p : p = c2s[j]
      OBVIOUS
    <3>1. p \in SentByClient
      BY <1>a, <3>0, ElementOfSeq
    <3>2. ~(p.kind = "hello" /\ q.kind = "hello")
      <4> SUFFICES ASSUME p.kind = "hello" PROVE FALSE
        OBVIOUS
      <4>1. sv.pc = "hello"
        BY <3>1 DEF SentByClient
      <4>2. Len(c2s) <= 1 /\ i \in 1..Len(c2s) /\ Len(c2s) \in Nat
        BY <1>a, <4>1 DEF BothInv
      <4> QED
        BY ONLY <2>2, <4>2, j \in 1..Len(c2s)
    <3>3. p.kind = "hello" /\ "hello" \in altered' => "hello" \in altered
      BY <1>3, <3>2
    <3> QED
      BY <3>0, <3>1, <3>3 DEF SentByClient
  <2>3. c2s' \in Seq(SentByClient')
    BY <1>a, <1>b, <2>1, <2>2, AlterSeq
  <2>4. ASSUME ServerLive PROVE Contiguous(c2s', ServerRead)
    <3>1. Contiguous(c2s, ServerRead)
      BY <1>a, <2>4 DEF ToServerInv
    <3>2. /\ [c2s[i] EXCEPT !.altered = TRUE].kind = c2s[i].kind
          /\ c2s[i].kind = "sealed" => [c2s[i] EXCEPT !.altered = TRUE].seq = c2s[i].seq
          /\ c2s[i].kind \in {"hello", "sh", "ccs", "clientccs", "sealed"}
      BY <1>b, <1>c, AlterFields
    <3> QED
      BY <1>a, <3>1, <3>2, ContiguousAlter
  <2>5. (ServerLive => Contiguous(c2s, ServerRead))'
    BY <1>f, <2>4
  <2>6. (ServerLive /\ ClientLive /\ ~cut => ServerRead + Len(c2s) = ClientWrote)'
    BY <1>a, <1>e, <1>f DEF ToServerInv
  <2> QED
    BY <2>3, <2>5, <2>6, Zenon DEF ToServerInv
<1>6. ToClientInv'
  <2>1. SentByServer \subseteq SentByServer'
    BY <1>d, <1>f DEF SentByServer, ServerBody
  <2>2. s2c' \in Seq(SentByServer')
    BY <1>a, <2>1, SeqMonotonic
  <2>3. (ClientLive => Contiguous(s2c, ClientRead))'
    BY <1>a, <1>f DEF ToClientInv
  <2>4. (ServerLive /\ ClientLive /\ ~cut => ClientRead + Len(s2c) = ServerWrote)'
    BY <1>a, <1>f DEF ToClientInv
  <2> QED
    BY <2>2, <2>3, <2>4, Zenon DEF ToClientInv
<1> QED
  BY <1>1, <1>2, <1>4, <1>5, <1>6, Zenon DEF OpeningInv

(* A record on the way to Client is altered. *)
LEMMA NextAlterToClient ==
    ASSUME OpeningInv, TypeInv', NEW i \in DOMAIN s2c,
           s2c' = [s2c EXCEPT ![i].altered = TRUE], altered' = altered \cup {s2c[i].kind},
           c2s' = c2s, serverFull' = serverFull, cl' = cl, sv' = sv, cut' = cut,
           cred' = cred, next' = next, issued' = issued
    PROVE  OpeningInv'
<1>a. /\ TypeOK /\ ClientInv /\ ServerInv /\ BothInv /\ AlteredInv /\ ToServerInv /\ ToClientInv
      /\ s2c \in Seq(ServerRecords) /\ c2s \in Seq(SentByClient) /\ s2c \in Seq(SentByServer)
      /\ Len(s2c) \in Nat /\ DOMAIN s2c = 1..Len(s2c)
  BY LenProperties DEF OpeningInv, TypeInv, ToServerInv, ToClientInv
<1>b. PICK q : q = s2c[i]
  OBVIOUS
<1>c. q \in ServerRecords /\ q \in SentByServer /\ q.kind \in {"sh", "ccs", "sealed"} /\ s2c # <<>>
  BY <1>a, <1>b, ElementOfSeq, SealedTypes, EmptySeq
<1>d. /\ "hello" \in altered' <=> "hello" \in altered
      /\ "sh" \in altered' => "sh" \in altered \/ q.kind = "sh"
      /\ "ccs" \in altered' => "ccs" \in altered \/ q.kind = "ccs"
  BY <1>b, <1>c
<1>e. Len(s2c') = Len(s2c)
  BY <1>a, AlterFacts
<1>f. /\ ServerRead' = ServerRead /\ ClientWrote' = ClientWrote /\ (ClientLive' <=> ClientLive)
      /\ ClientRead' = ClientRead /\ ServerWrote' = ServerWrote /\ (ServerLive' <=> ServerLive)
      /\ Planned' = Planned /\ Expected' = Expected
  BY DEF ServerRead, ClientWrote, ClientLive, ClientRead, ServerWrote, ServerLive, Planned, Drawn, Expected
<1>g. sv.pc \notin {"hello", "sh", "notours"}
  BY <1>a, <1>c DEF BothInv
<1>1. ClientInv' /\ ServerInv'
  BY <1>a, ClientKept, ServerKept
<1>2. BothInv'
  BY <1>a, <1>f, <1>g DEF BothInv
<1>3. AlteredInv'
  BY <1>a, <1>c, <1>d, <1>g DEF AlteredInv, SentByServer
<1>4. ToServerInv'
  <2>1. SentByClient \subseteq SentByClient'
    BY <1>d DEF SentByClient
  <2>2. c2s' \in Seq(SentByClient')
    BY <1>a, <2>1, SeqMonotonic
  <2>3. (ServerLive => Contiguous(c2s, ServerRead))'
    BY <1>a, <1>f DEF ToServerInv
  <2>4. (ServerLive /\ ClientLive /\ ~cut => ServerRead + Len(c2s) = ClientWrote)'
    BY <1>a, <1>f DEF ToServerInv
  <2> QED
    BY <2>2, <2>3, <2>4, Zenon DEF ToServerInv
<1>5. ToClientInv'
  <2>1. [q EXCEPT !.altered = TRUE] \in SentByServer'
    <3>0. PICK p : p = [q EXCEPT !.altered = TRUE]
      OBVIOUS
    <3>1. /\ p \in ServerRecords /\ p.kind = q.kind /\ p.altered
          /\ q.kind = "sealed" => p.key = q.key /\ p.seq = q.seq /\ p.body = q.body /\ p.issue = q.issue
      BY <1>c, <3>0, AlterTypes, AlterFields
    <3>2. ServerBody(p.seq)' = ServerBody(p.seq)
      BY <1>f DEF ServerBody
    <3>3. /\ q.kind = "sh" => cl.pc = "sh"
          /\ q.kind = "ccs" => sv.pc # "ccs" /\ cl.pc \in {"sh", "ccs", "failed"} /\ cl.send = 0
          /\ q.kind = "sealed" /\ sv.pc = "spliced" => q.key = CoverKey
          /\ q.kind = "sealed" /\ sv.pc # "spliced" =>
                 /\ q.key = sv.key /\ q.seq < sv.send
                 /\ q.body = ServerBody(q.seq)
                 /\ q.body \in {"ticket", "companion"} => q.issue = issued
      BY <1>c DEF SentByServer
    <3> QED
      BY <3>0, <3>1, <3>2, <3>3 DEF SentByServer
  <2>2. ASSUME NEW j \in 1..Len(s2c), j # i PROVE s2c[j] \in SentByServer'
    <3>0. PICK p : p = s2c[j]
      OBVIOUS
    <3>1. p \in SentByServer
      BY <1>a, <3>0, ElementOfSeq
    <3>2. ClientLive => At(p) # At(q)
      <4> SUFFICES ASSUME ClientLive PROVE At(p) # At(q)
        OBVIOUS
      <4>1. At(p) = ClientRead + j - 1 /\ At(q) = ClientRead + i - 1 /\ i \in Int /\ j \in Int
        BY <1>a, <1>b, <3>0 DEF ToClientInv, Contiguous
      <4>2. ClientRead \in Nat
        BY <1>a, PlaceTypes
      <4> QED
        BY ONLY <2>2, <4>1, <4>2
    <3>3. ~(p.kind = "sh" /\ q.kind = "sh")
      BY <3>1, <3>2 DEF SentByServer, ClientLive, At
    <3>4. p.kind = "ccs" /\ q.kind = "ccs" => cl.pc = "failed"
      BY <3>1, <3>2 DEF SentByServer, ClientLive, At
    <3> QED
      BY <1>d, <1>f, <3>0, <3>1, <3>3, <3>4 DEF SentByServer, ServerBody
  <2>3. s2c' \in Seq(SentByServer')
    BY <1>a, <1>b, <2>1, <2>2, AlterSeq
  <2>4. ASSUME ClientLive PROVE Contiguous(s2c', ClientRead)
    <3>1. Contiguous(s2c, ClientRead)
      BY <1>a, <2>4 DEF ToClientInv
    <3>2. /\ [s2c[i] EXCEPT !.altered = TRUE].kind = s2c[i].kind
          /\ s2c[i].kind = "sealed" => [s2c[i] EXCEPT !.altered = TRUE].seq = s2c[i].seq
          /\ s2c[i].kind \in {"hello", "sh", "ccs", "clientccs", "sealed"}
      BY <1>b, <1>c, AlterFields
    <3> QED
      BY <1>a, <3>1, <3>2, ContiguousAlter
  <2>5. (ClientLive => Contiguous(s2c, ClientRead))'
    BY <1>f, <2>4
  <2>6. (ServerLive /\ ClientLive /\ ~cut => ClientRead + Len(s2c) = ServerWrote)'
    BY <1>a, <1>e, <1>f DEF ToClientInv
  <2> QED
    BY <2>3, <2>5, <2>6, Zenon DEF ToClientInv
<1> QED
  BY <1>1, <1>2, <1>3, <1>4, <1>5, Zenon DEF OpeningInv

(* The invariant holds before the first opening. *)
LEMMA OpeningInit == Init => OpeningInv
<1> SUFFICES ASSUME Init PROVE OpeningInv
  OBVIOUS
<1>1. /\ cl.pc = "idle" /\ cl.full = FALSE /\ cl.key = NoKey /\ cl.send = 0 /\ cl.recv = 0
      /\ sv.pc = "idle" /\ sv.key = NoKey /\ sv.send = 0 /\ sv.recv = 0
  BY DEF Init, End
<1>2. c2s = <<>> /\ s2c = <<>> /\ altered = {}
  BY DEF Init
<1>3. ClientInv /\ ServerInv
  BY <1>1 DEF ClientInv, ServerInv
<1>4. BothInv /\ AlteredInv
  BY <1>1, <1>2 DEF BothInv, AlteredInv
<1>5. ToServerInv
  BY <1>1, <1>2, EmptySeq DEF ToServerInv, ServerLive
<1>6. ToClientInv
  BY <1>1, <1>2, EmptySeq DEF ToClientInv, ClientLive, ServerLive
<1> QED
  BY <1>3, <1>4, <1>5, <1>6, TypesInit DEF OpeningInv

(* Every step keeps it. *)
LEMMA OpeningNext == OpeningInv /\ [Next]_vars => OpeningInv'
<1> SUFFICES ASSUME OpeningInv, [Next]_vars PROVE OpeningInv'
  OBVIOUS
<1>1. TypeInv'
  BY TypesNext DEF OpeningInv
<1>2. CASE \E full \in BOOLEAN : ClientHello(full)
  BY <1>1, <1>2, NextHello
<1>3. CASE ClientStep
  BY <1>1, <1>3, NextReadServerHello, NextReadCCS, NextReadRemainder, NextSendCCS, NextSendFinished,
     NextReadTicket, NextReadCompanion, NextClientError DEF ClientStep
<1>4. CASE ServerStep
  BY <1>1, <1>4, NextReadHello, NextSendServerHello, NextServerSendCCS, NextSendRemainder,
     NextServerReadCCS, NextServerReadFinished, NextSendTicket, NextSendCompanion, NextServerError
  DEF ServerStep
<1>5. CASE CoverAnswers
  BY <1>1, <1>5, NextCoverAnswers
<1>6. CASE HangUp \/ Cut \/ UNCHANGED vars
  BY <1>1, <1>6, NextCut
<1>7. CASE Alter
  <2>1. /\ serverFull' = serverFull /\ cl' = cl /\ sv' = sv /\ cut' = cut
        /\ cred' = cred /\ next' = next /\ issued' = issued
    BY <1>7 DEF Alter, ends, creds
  <2>2. CASE \E i \in DOMAIN c2s : /\ c2s' = [c2s EXCEPT ![i].altered = TRUE]
                                   /\ altered' = altered \cup {c2s[i].kind} /\ s2c' = s2c
    BY <1>1, <2>1, <2>2, NextAlterToServer
  <2>3. CASE \E i \in DOMAIN s2c : /\ s2c' = [s2c EXCEPT ![i].altered = TRUE]
                                   /\ altered' = altered \cup {s2c[i].kind} /\ c2s' = c2s
    BY <1>1, <2>1, <2>3, NextAlterToClient
  <2> QED
    BY <1>7, <2>2, <2>3 DEF Alter
<1>8. CASE ClientWrites
  BY <1>1, <1>8, NextClientWrites
<1>9. CASE ServerWritesApp
  BY <1>1, <1>9, NextServerWritesApp
<1> QED
  BY <1>2, <1>3, <1>4, <1>5, <1>6, <1>7, <1>8, <1>9 DEF Next

(* The invariant of the opening. *)
LEMMA OpeningInvariant == Spec => []OpeningInv
BY OpeningInit, OpeningNext, PTL DEF Spec

-----------------------------------------------------------------------------
(* The theorems *)

(* When Client returns a connection, Server has returned one with the same *)
(* keys and shape and the client holds the credential minted for it, and   *)
(* Server returns only to a client that holds its keys, whatever profiles  *)
(* the ends have and whatever is cut or altered (handshake.go:231-246,     *)
(* 354-369).                                                               *)
THEOREM CompletedEndsAgree == Spec => []CompletionAgrees
<1>1. OpeningInv => CompletionAgrees
  <2> SUFFICES ASSUME OpeningInv PROVE CompletionAgrees
    OBVIOUS
  <2>1. TypeOK /\ ClientInv /\ ServerInv /\ BothInv /\ cl.pc \in Pcs /\ cl.send \in Nat
    BY DEF OpeningInv, TypeInv, TypeOK, Ends
  <2>2. sv.pc = "done" => cl.key = sv.key /\ cl.send >= 1
    BY <2>1 DEF BothInv
  <2>3. cl.send >= 1 => cl.pc \in {"nst1", "nst2", "done", "failed"}
    BY <2>1 DEF ClientInv, Pcs, Ended
  <2>4. cl.pc = "done" => /\ sv.pc = "done" /\ cl.full = sv.full
                          /\ cred = [ticket |-> issued, companion |-> issued]
    BY <2>1 DEF BothInv, ServerInv
  <2> QED
    BY <2>2, <2>3, <2>4 DEF CompletionAgrees
<1> QED
  BY <1>1, OpeningInvariant, PTL

(* An opening whose hello, ServerHello or ChangeCipherSpec was altered     *)
(* yields a connection at neither end (conn.go:70-77,                      *)
(* handshake.go:200-202).                                                  *)
THEOREM AlteredNeverOpens == Spec => []AlteredNeverCompletes
<1>1. OpeningInv => AlteredNeverCompletes
  <2> SUFFICES ASSUME OpeningInv, altered \cap {"hello", "sh", "ccs"} # {}
               PROVE  cl.pc # "done" /\ sv.pc # "done"
    BY DEF AlteredNeverCompletes
  <2>1. ClientInv /\ ServerInv /\ BothInv /\ AlteredInv
    BY DEF OpeningInv
  <2> SUFFICES ASSUME sv.pc = "done" PROVE FALSE
    BY <2>1 DEF BothInv
  <2>2. cl.key = sv.key /\ cl.send >= 1
    BY <2>1 DEF BothInv
  <2>3. cl.key = <<FALSE, FALSE>>
    BY <2>1, <2>2, KeyFacts DEF ClientInv, ServerInv
  <2>4. cl.pc # "sh"
    BY <2>1, <2>3, KeyFacts DEF ClientInv
  <2>5. CASE "hello" \in altered
    BY <2>1, <2>2, <2>3, <2>5, KeyFacts DEF AlteredInv
  <2>6. CASE "sh" \in altered
    BY <2>1, <2>3, <2>4, <2>6, KeyFacts DEF AlteredInv
  <2>7. CASE "ccs" \in altered
    BY <2>1, <2>2, <2>7 DEF AlteredInv
  <2> QED
    BY <2>5, <2>6, <2>7
<1> QED
  BY <1>1, OpeningInvariant, PTL

(* What is left on the wire when an opening is over is application data,   *)
(* in the numbers its reader expects: no record of the opening is left for *)
(* Read, whatever profiles the ends have (handshake.go:218-222).           *)
THEOREM StreamsStartInStep == Spec => []StreamsAligned
<1>1. OpeningInv => StreamsAligned
  <2> SUFFICES ASSUME OpeningInv PROVE StreamsAligned
    OBVIOUS
  <2>1. /\ TypeOK /\ ClientInv /\ ServerInv /\ BothInv /\ ToServerInv /\ ToClientInv
        /\ c2s \in Seq(SentByClient) /\ s2c \in Seq(SentByServer)
        /\ DOMAIN c2s = 1..Len(c2s) /\ DOMAIN s2c = 1..Len(s2c)
        /\ Len(c2s) \in Nat /\ Len(s2c) \in Nat
        /\ cl.recv \in Nat /\ sv.recv \in Nat /\ Expected \in Nat /\ Planned \in Nat
    BY LenProperties, ProfileTypes DEF OpeningInv, TypeInv, ToServerInv, ToClientInv, TypeOK, Ends
  <2>2. ASSUME cl.pc = "done" PROVE InStep(s2c, cl)
    <3> SUFFICES ASSUME NEW i \in 1..Len(s2c)
                 PROVE  /\ s2c[i].kind = "sealed" /\ s2c[i].body = "app" /\ s2c[i].key = cl.key
                        /\ s2c[i].seq = cl.recv + i - 1
      BY <2>1 DEF InStep
    <3>0. PICK r : r = s2c[i]
      OBVIOUS
    <3>1. r \in SentByServer /\ r \in ServerRecords
      BY <2>1, <3>0, ElementOfSeq DEF SentByServer
    <3>2. At(r) = (cl.recv + 2) + i - 1
      BY <2>1, <2>2, <3>0 DEF ToClientInv, ClientLive, ClientRead, Contiguous
    <3>3. r.kind = "sealed" /\ r.seq \in Nat
      BY <2>2, <3>1, SealedTypes DEF SentByServer
    <3>4. r.seq + 2 = (cl.recv + 2) + i - 1
      BY <3>2, <3>3 DEF At
    <3>5. r.seq = cl.recv + i - 1 /\ cl.recv = Planned + 2 /\ r.seq >= Planned + 2
      <4>1. cl.recv = Expected + 2 /\ Expected = Planned
        BY <2>1, <2>2 DEF ClientInv, BothInv
      <4>2. i \in Nat /\ i >= 1
        BY <2>1
      <4> QED
        BY ONLY <2>1, <3>3, <3>4, <4>1, <4>2
    <3>6. sv.pc = "done" /\ cl.key = sv.key
      BY <2>1, <2>2 DEF BothInv
    <3>7. r.key = cl.key /\ r.body = ServerBody(r.seq)
      BY <3>1, <3>3, <3>6 DEF SentByServer
    <3>8. r.body = "app"
      BY <2>1, <3>3, <3>5, <3>7 DEF ServerBody
    <3> QED
      BY <3>0, <3>3, <3>5, <3>7, <3>8
  <2>3. ASSUME sv.pc = "done" PROVE InStep(c2s, sv)
    <3> SUFFICES ASSUME NEW i \in 1..Len(c2s)
                 PROVE  /\ c2s[i].kind = "sealed" /\ c2s[i].body = "app" /\ c2s[i].key = sv.key
                        /\ c2s[i].seq = sv.recv + i - 1
      BY <2>1 DEF InStep
    <3>0. PICK r : r = c2s[i]
      OBVIOUS
    <3>1. r \in SentByClient /\ r \in ClientRecords
      BY <2>1, <3>0, ElementOfSeq DEF SentByClient
    <3>2. At(r) = (sv.recv + 2) + i - 1 /\ sv.recv = 1
      BY <2>1, <2>3, <3>0 DEF ToServerInv, ServerLive, ServerRead, Contiguous, ServerInv
    <3>3. r.kind = "sealed" /\ r.seq \in Nat
      <4>1. At(r) # 1
        BY <2>1, <3>2
      <4> QED
        BY <2>3, <3>1, <4>1, SealedTypes DEF SentByClient, At
    <3>4. r.seq + 2 = (sv.recv + 2) + i - 1
      BY <3>2, <3>3 DEF At
    <3>5. r.seq = sv.recv + i - 1 /\ r.seq > 0
      BY <2>1, <3>2, <3>3, <3>4
    <3>6. r.key = cl.key /\ r.body = "app"
      BY <3>1, <3>3, <3>5 DEF SentByClient
    <3>7. cl.key = sv.key
      BY <2>1, <2>3 DEF BothInv
    <3> QED
      BY <3>0, <3>3, <3>5, <3>6, <3>7
  <2> QED
    BY <2>2, <2>3 DEF StreamsAligned
<1> QED
  BY <1>1, OpeningInvariant, PTL

=============================================================================
