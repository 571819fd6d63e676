----------------------------- MODULE ConnProofs -----------------------------
(***************************************************************************)
(* Theorems about Conn, for any number of goroutines, any shaper, any      *)
(* slice lengths and every pattern of socket faults: the types and the     *)
(* sequence numbers; one flusher at a time and one alert; the far end's    *)
(* bytes in order, a clean end that is complete, and the refinement of     *)
(* ByteStream.                                                             *)
(***************************************************************************)
EXTENDS Conn, SequenceTheorems, TLAPS

(* What Write cuts off wbuf is not empty and both parts are sequences.     *)
LEMMA CutLemma ==
    ASSUME NEW buf \in Seq(Nat), buf # <<>>, NEW take \in Takes
    PROVE  /\ Clamp(take, Len(buf)) \in 1..Len(buf)
           /\ SubSeq(buf, 1, Clamp(take, Len(buf))) \in Seq(Nat)
           /\ SubSeq(buf, 1, Clamp(take, Len(buf))) # <<>>
           /\ SubSeq(buf, Clamp(take, Len(buf)) + 1, Len(buf)) \in Seq(Nat)
<1>1. Len(buf) \in Nat \ {0}
  BY EmptySeq
<1>2. Clamp(take, Len(buf)) \in 1..Len(buf)
  BY <1>1, BoundsAssumption DEF Clamp
<1> QED
  BY <1>1, <1>2, SubSeqProperties

(* The bytes one Write appends form a sequence. *)
LEMMA NewBytesLemma ==
    ASSUME TypeOK, NEW t \in Writers
    PROVE  NewBytes(t) \in Seq(Nat) /\ Len(NewBytes(t)) = size[t]
<1>1. size[t] \in Nat /\ accepted \in Nat
  BY DEF TypeOK, CallsTypeOK, HistTypeOK
<1>2. \A i \in 1..size[t] : accepted + i \in Nat
  BY <1>1
<1>3. NewBytes(t) \in [1..size[t] -> Nat]
  BY <1>2 DEF NewBytes
<1> QED
  BY <1>1, <1>3, SeqDef, LenProperties DEF NewBytes

(* A goroutine outside writeRecord holds the empty record. *)
LEMMA NoRecType == NoRec \in Records /\ NoRec.typ = "none"
BY EmptySeq DEF NoRec, Records

(* The state of a fresh Conn is well typed. *)
LEMMA TypeInit == Init => TypeOK
<1> SUFFICES ASSUME Init PROVE TypeOK
  OBVIOUS
<1>1. LocksTypeOK /\ CallsTypeOK
  BY BoundsAssumption DEF Init, LocksTypeOK, CallsTypeOK, PCs
<1>2. BufferTypeOK
  BY EmptySeq DEF Init, BufferTypeOK
<1>3. RecordTypeOK
  BY NoRecType DEF Init, RecordTypeOK
<1>4. NetTypeOK
  BY EmptySeq DEF Init, NetTypeOK
<1>5. ReaderTypeOK
  BY EmptySeq DEF Init, ReaderTypeOK
<1>6. HistTypeOK
  BY EmptySeq DEF Init, HistTypeOK
<1> QED
  BY <1>1, <1>2, <1>3, <1>4, <1>5, <1>6 DEF TypeOK

(* One turn of the flush loop keeps the types of what it writes. *)
LEMMA FlushTurnType ==
    ASSUME TypeOK, NEW t \in Writers, NEW buf \in Seq(Nat), FlushTurn(t, buf)
    PROVE  /\ wbuf' \in Seq(Nat)
           /\ flushing' \in BOOLEAN
           /\ pc' \in [Threads -> PCs]
           /\ rec' \in [Threads -> Records]
           /\ \A u \in Threads : rec'[u].typ = "data" => rec'[u].payload # <<>>
<1>0. pc \in [Threads -> PCs] /\ RecordTypeOK /\ t \in Threads
  BY DEF TypeOK, LocksTypeOK, Threads
<1>1. CASE LoopDone(buf)
  <2>1. pc' = [pc EXCEPT ![t] = "idle"] /\ rec' = [rec EXCEPT ![t] = NoRec]
        /\ wbuf' = buf /\ flushing' = FALSE
    BY <1>1 DEF FlushTurn
  <2> QED
    BY <1>0, <2>1, NoRecType DEF RecordTypeOK, PCs
<1>2. CASE ~LoopDone(buf)
  <2>1. PICK take \in Takes :
            /\ rec' = [rec EXCEPT ![t] = [typ     |-> "data",
                                          payload |-> SubSeq(buf, 1, Clamp(take, Len(buf))),
                                          seq     |-> 0]]
            /\ wbuf' = SubSeq(buf, Clamp(take, Len(buf)) + 1, Len(buf))
            /\ flushing' = TRUE
            /\ pc' = [pc EXCEPT ![t] = "wireLock"]
    BY <1>2 DEF FlushTurn, FlushingDuring
  <2>2. buf # <<>>
    BY <1>2 DEF LoopDone
  <2> DEFINE p == SubSeq(buf, 1, Clamp(take, Len(buf)))
             r == [typ |-> "data", payload |-> p, seq |-> 0]
  <2>3. p \in Seq(Nat) /\ p # <<>> /\ wbuf' \in Seq(Nat)
    BY <2>1, <2>2, CutLemma
  <2>4. r \in Records /\ r.payload # <<>>
    BY <2>3 DEF Records
  <2>5. rec' = [rec EXCEPT ![t] = r]
    BY <2>1
  <2> HIDE DEF r, p
  <2>6. rec' \in [Threads -> Records] /\ \A u \in Threads : rec'[u].typ = "data" => rec'[u].payload # <<>>
    BY <1>0, <2>4, <2>5 DEF RecordTypeOK
  <2> QED
    BY <1>0, <2>1, <2>3, <2>6 DEF PCs
<1> QED
  BY <1>1, <1>2

(* Every step keeps the types: one step per action, the groups of          *)
(* variables it leaves alone first.                                        *)
LEMMA TypeNext == TypeOK /\ [Next]_vars => TypeOK'
<1> SUFFICES ASSUME TypeOK, [Next]_vars PROVE TypeOK'
  OBVIOUS
<1> USE DEF TypeOK
<1>a. UNCHANGED <<pc, wmu, wireMu, once>> => LocksTypeOK'
  BY DEF LocksTypeOK
<1>b. UNCHANGED <<size, calls>> => CallsTypeOK'
  BY DEF CallsTypeOK
<1>c. UNCHANGED <<wbuf, flushing, werr>> => BufferTypeOK'
  BY DEF BufferTypeOK
<1>d. UNCHANGED <<sendSeq, rec>> => RecordTypeOK'
  BY DEF RecordTypeOK
<1>e. UNCHANGED <<sockOpen, netUp, wire, rpos>> => NetTypeOK'
  BY DEF NetTypeOK
<1>f. UNCHANGED <<recvSeq, pending, rerr, delivered>> => ReaderTypeOK'
  BY DEF ReaderTypeOK
<1>g. UNCHANGED <<accepted, sealed, closeAt, overlap>> => HistTypeOK'
  BY DEF HistTypeOK
<1>1. ASSUME NEW t \in Writers, WriteCall(t) PROVE TypeOK'
  <2>1. BufferTypeOK' /\ RecordTypeOK' /\ NetTypeOK' /\ ReaderTypeOK' /\ HistTypeOK'
    BY <1>1, <1>c, <1>d, <1>e, <1>f, <1>g DEF WriteCall, netVars, readerVars, histVars
  <2>2. LocksTypeOK'
    BY <1>1 DEF WriteCall, LocksTypeOK, PCs, Threads, netVars, readerVars, histVars
  <2>3. CallsTypeOK'
    BY <1>1, BoundsAssumption DEF WriteCall, CallsTypeOK, netVars, readerVars, histVars
  <2> QED
    BY <2>1, <2>2, <2>3
<1>2. ASSUME NEW t \in Writers, WriteRefused(t) PROVE TypeOK'
  <2>1. BufferTypeOK' /\ RecordTypeOK' /\ NetTypeOK' /\ ReaderTypeOK' /\ HistTypeOK'
    BY <1>2, <1>c, <1>d, <1>e, <1>f, <1>g DEF WriteRefused, netVars, readerVars, histVars
  <2>2. LocksTypeOK'
    BY <1>2 DEF WriteRefused, LocksTypeOK, PCs, Threads, netVars, readerVars, histVars
  <2>3. CallsTypeOK'
    BY <1>2 DEF WriteRefused, CallsTypeOK, netVars, readerVars, histVars
  <2> QED
    BY <2>1, <2>2, <2>3
<1>3. ASSUME NEW t \in Writers, WriteEnter(t) PROVE TypeOK'
  <2>1. wbuf \o NewBytes(t) \in Seq(Nat) /\ size[t] \in Nat
    BY NewBytesLemma, ConcatProperties DEF BufferTypeOK, CallsTypeOK
  <2>2. NetTypeOK' /\ ReaderTypeOK'
    BY <1>3, <1>e, <1>f DEF WriteEnter, netVars, readerVars
  <2>3. CallsTypeOK' /\ HistTypeOK'
    BY <1>3, <2>1 DEF WriteEnter, CallsTypeOK, HistTypeOK
  <2>4. CASE FlushSeen
    <3>1. LocksTypeOK'
      BY <1>3, <2>4 DEF WriteEnter, LocksTypeOK, PCs, Threads
    <3>2. BufferTypeOK'
      BY <1>3, <2>1, <2>4 DEF WriteEnter, BufferTypeOK
    <3>3. RecordTypeOK'
      BY <1>3, <1>d, <2>4 DEF WriteEnter
    <3> QED
      BY <2>2, <2>3, <3>1, <3>2, <3>3
  <2>5. CASE ~FlushSeen
    <3>1. FlushTurn(t, wbuf \o NewBytes(t))
      BY <1>3, <2>5 DEF WriteEnter
    <3>2. LocksTypeOK' /\ BufferTypeOK' /\ RecordTypeOK'
      BY <1>3, <2>1, <3>1, FlushTurnType DEF WriteEnter, LocksTypeOK, BufferTypeOK, RecordTypeOK
    <3> QED
      BY <2>2, <2>3, <3>2
  <2> QED
    BY <2>4, <2>5
<1>4. ASSUME NEW t \in Writers, WriteResume(t) PROVE TypeOK'
  <2>1. CallsTypeOK' /\ NetTypeOK' /\ ReaderTypeOK' /\ HistTypeOK'
    BY <1>4, <1>b, <1>e, <1>f, <1>g DEF WriteResume, netVars, readerVars, histVars
  <2>2. CASE pc[t] = "failed"
    <3>1. LocksTypeOK'
      BY <1>4, <2>2 DEF WriteResume, LocksTypeOK, PCs, Threads
    <3>2. BufferTypeOK'
      BY <1>4, <2>2 DEF WriteResume, BufferTypeOK
    <3>3. RecordTypeOK'
      BY <1>4, <2>2, NoRecType DEF WriteResume, RecordTypeOK, Threads
    <3> QED
      BY <2>1, <3>1, <3>2, <3>3
  <2>3. CASE pc[t] = "wrote"
    <3>1. FlushTurn(t, wbuf) /\ UNCHANGED <<werr, wmu, wireMu, once, sendSeq>>
      BY <1>4, <2>3 DEF WriteResume
    <3>2. wbuf \in Seq(Nat)
      BY DEF BufferTypeOK
    <3>3. LocksTypeOK' /\ BufferTypeOK' /\ RecordTypeOK'
      BY <3>1, <3>2, FlushTurnType DEF LocksTypeOK, BufferTypeOK, RecordTypeOK
    <3> QED
      BY <2>1, <3>3
  <2> QED
    BY <1>4, <2>2, <2>3 DEF WriteResume
<1>5. ASSUME NEW t \in Threads, LockWire(t) PROVE TypeOK'
  <2>1. CallsTypeOK' /\ BufferTypeOK' /\ RecordTypeOK' /\ NetTypeOK' /\ ReaderTypeOK' /\ HistTypeOK'
    BY <1>5, <1>b, <1>c, <1>d, <1>e, <1>f, <1>g DEF LockWire, netVars, readerVars, histVars
  <2>2. LocksTypeOK'
    BY <1>5 DEF LockWire, LocksTypeOK, PCs, netVars, readerVars, histVars
  <2> QED
    BY <2>1, <2>2
<1>6. ASSUME NEW t \in Threads, Seal(t) PROVE TypeOK'
  <2>1. CallsTypeOK' /\ BufferTypeOK' /\ NetTypeOK' /\ ReaderTypeOK'
    BY <1>6, <1>b, <1>c, <1>e, <1>f DEF Seal, netVars, readerVars
  <2>2. LocksTypeOK'
    BY <1>6 DEF Seal, LocksTypeOK, PCs
  <2>3. RecordTypeOK'
    BY <1>6 DEF Seal, RecordTypeOK, Records
  <2>4. rec'[t] \in Records
    BY <2>3 DEF RecordTypeOK
  <2>5. HistTypeOK'
    BY <1>6, <2>4, AppendProperties DEF Seal, HistTypeOK
  <2> QED
    BY <2>1, <2>2, <2>3, <2>5
<1>7. ASSUME NEW t \in Threads, Advance(t) PROVE TypeOK'
  <2>1. CallsTypeOK' /\ BufferTypeOK' /\ NetTypeOK' /\ ReaderTypeOK' /\ HistTypeOK'
    BY <1>7, <1>b, <1>c, <1>e, <1>f, <1>g DEF Advance, netVars, readerVars, histVars
  <2>2. LocksTypeOK'
    BY <1>7 DEF Advance, LocksTypeOK, PCs, netVars, readerVars, histVars
  <2>3. RecordTypeOK'
    BY <1>7 DEF Advance, RecordTypeOK, netVars, readerVars, histVars
  <2> QED
    BY <2>1, <2>2, <2>3
<1>8. ASSUME NEW t \in Threads, RawWriteOk(t) PROVE TypeOK'
  <2>1. CallsTypeOK' /\ BufferTypeOK' /\ RecordTypeOK' /\ ReaderTypeOK' /\ HistTypeOK'
    BY <1>8, <1>b, <1>c, <1>d, <1>f, <1>g DEF RawWriteOk, RawReturn, readerVars, histVars
  <2>2. LocksTypeOK'
    BY <1>8 DEF RawWriteOk, LocksTypeOK, PCs, RawReturn, RawReturn, readerVars, histVars
  <2>3. NetTypeOK'
    <3>1. rec[t] \in Records
      BY DEF RecordTypeOK
    <3>2. OnWire(rec[t], TRUE) \in WireRecords
      BY <3>1 DEF OnWire, Records, WireRecords
    <3>3. sockOpen' = sockOpen /\ netUp' = netUp /\ rpos' = rpos
      BY <1>8 DEF RawWriteOk, RawReturn, readerVars
    <3>4. wire' = Append(wire, OnWire(rec[t], TRUE))
      BY <1>8 DEF RawWriteOk
    <3>5. wire \in Seq(WireRecords) /\ Len(wire) \in Nat /\ rpos \in Nat /\ rpos <= Len(wire)
      BY LenProperties DEF NetTypeOK
    <3>6. wire' \in Seq(WireRecords) /\ rpos <= Len(wire')
      <4>1. /\ Append(wire, OnWire(rec[t], TRUE)) \in Seq(WireRecords)
            /\ Len(Append(wire, OnWire(rec[t], TRUE))) = Len(wire) + 1
        BY <3>2, <3>5, AppendProperties
      <4>2. wire' \in Seq(WireRecords) /\ Len(wire') = Len(wire) + 1
        BY <3>4, <4>1, Zenon
      <4>3. rpos <= Len(wire')
        BY <3>5, <4>2
      <4> QED
        BY <4>2, <4>3
    <3> QED
      BY <3>3, <3>6 DEF NetTypeOK
  <2> QED
    BY <2>1, <2>2, <2>3
<1>9. ASSUME NEW t \in Threads, RawWriteFail(t) PROVE TypeOK'
  <2>1. CallsTypeOK' /\ BufferTypeOK' /\ RecordTypeOK' /\ ReaderTypeOK' /\ HistTypeOK'
    BY <1>9, <1>b, <1>c, <1>d, <1>f, <1>g DEF RawWriteFail, RawReturn, readerVars, histVars
  <2>2. LocksTypeOK'
    BY <1>9 DEF RawWriteFail, LocksTypeOK, PCs, RawReturn, RawReturn, readerVars, histVars
  <2>3. NetTypeOK'
    <3>1. rec[t] \in Records
      BY DEF RecordTypeOK
    <3>2. OnWire(rec[t], FALSE) \in WireRecords
      BY <3>1 DEF OnWire, Records, WireRecords
    <3>3. sockOpen' = sockOpen /\ netUp' = netUp /\ rpos' = rpos
      BY <1>9 DEF RawWriteFail, RawReturn, readerVars
    <3>4. wire' = wire \/ wire' = Append(wire, OnWire(rec[t], FALSE))
      BY <1>9 DEF RawWriteFail
    <3>5. wire \in Seq(WireRecords) /\ Len(wire) \in Nat /\ rpos \in Nat /\ rpos <= Len(wire)
      BY LenProperties DEF NetTypeOK
    <3>6. wire' \in Seq(WireRecords) /\ rpos <= Len(wire')
      <4>1. /\ Append(wire, OnWire(rec[t], FALSE)) \in Seq(WireRecords)
            /\ Len(Append(wire, OnWire(rec[t], FALSE))) = Len(wire) + 1
        BY <3>2, <3>5, AppendProperties
      <4>2. \/ wire' = wire
            \/ wire' \in Seq(WireRecords) /\ Len(wire') = Len(wire) + 1
        BY <3>4, <4>1, Zenon
      <4>3. CASE wire' = wire
        BY <3>5, <4>3
      <4>4. CASE wire' \in Seq(WireRecords) /\ Len(wire') = Len(wire) + 1
        BY <3>5, <4>4
      <4> QED
        BY <4>2, <4>3, <4>4
    <3> QED
      BY <3>3, <3>6 DEF NetTypeOK
  <2> QED
    BY <2>1, <2>2, <2>3
<1>10. ASSUME NEW t \in Closers, CloseCall(t) PROVE TypeOK'
  <2>1. CallsTypeOK' /\ BufferTypeOK' /\ RecordTypeOK' /\ NetTypeOK' /\ ReaderTypeOK'
    BY <1>10, <1>b, <1>c, <1>d, <1>e, <1>f DEF CloseCall, netVars, readerVars
  <2>2. LocksTypeOK'
    BY <1>10 DEF CloseCall, LocksTypeOK, PCs, Threads, netVars, readerVars
  <2>3. HistTypeOK'
    BY <1>10 DEF CloseCall, HistTypeOK, netVars, readerVars
  <2> QED
    BY <2>1, <2>2, <2>3
<1>11. ASSUME NEW t \in Closers, CloseOnceDone(t) PROVE TypeOK'
  <2>1. CallsTypeOK' /\ BufferTypeOK' /\ RecordTypeOK' /\ NetTypeOK' /\ ReaderTypeOK' /\ HistTypeOK'
    BY <1>11, <1>b, <1>c, <1>d, <1>e, <1>f, <1>g DEF CloseOnceDone, netVars, readerVars, histVars
  <2>2. LocksTypeOK'
    BY <1>11 DEF CloseOnceDone, LocksTypeOK, PCs, Threads, netVars, readerVars, histVars
  <2> QED
    BY <2>1, <2>2
<1>12. ASSUME NEW t \in Closers, CloseLock(t) PROVE TypeOK'
  <2>1. CallsTypeOK' /\ BufferTypeOK' /\ NetTypeOK' /\ ReaderTypeOK'
    BY <1>12, <1>b, <1>c, <1>e, <1>f DEF CloseLock, netVars, readerVars
  <2>2. LocksTypeOK'
    BY <1>12 DEF CloseLock, LocksTypeOK, PCs, Threads, netVars, readerVars
  <2>3. RecordTypeOK'
    <3>1. [typ |-> "alert", payload |-> <<>>, seq |-> 0] \in Records
      BY EmptySeq DEF Records
    <3> QED
      BY <1>12, <3>1 DEF CloseLock, RecordTypeOK, Threads
  <2>4. HistTypeOK'
    BY <1>12 DEF CloseLock, HistTypeOK, BufferTypeOK, netVars, readerVars
  <2> QED
    BY <2>1, <2>2, <2>3, <2>4
<1>13. ASSUME NEW t \in Closers, CloseResume(t) PROVE TypeOK'
  <2>1. CallsTypeOK' /\ BufferTypeOK' /\ NetTypeOK' /\ ReaderTypeOK' /\ HistTypeOK'
    BY <1>13, <1>b, <1>c, <1>e, <1>f, <1>g DEF CloseResume, netVars, readerVars, histVars
  <2>2. LocksTypeOK'
    BY <1>13 DEF CloseResume, LocksTypeOK, PCs, Threads, netVars, readerVars, histVars
  <2>3. RecordTypeOK'
    BY <1>13, NoRecType DEF CloseResume, RecordTypeOK, Threads, netVars, readerVars, histVars
  <2> QED
    BY <2>1, <2>2, <2>3
<1>14. ASSUME NEW t \in Closers, RawClose(t) PROVE TypeOK'
  <2>1. CallsTypeOK' /\ BufferTypeOK' /\ RecordTypeOK' /\ ReaderTypeOK' /\ HistTypeOK'
    BY <1>14, <1>b, <1>c, <1>d, <1>f, <1>g DEF RawClose, readerVars, histVars
  <2>2. LocksTypeOK'
    BY <1>14 DEF RawClose, LocksTypeOK, PCs, Threads, readerVars, histVars
  <2>3. NetTypeOK'
    BY <1>14 DEF RawClose, NetTypeOK, readerVars, histVars
  <2> QED
    BY <2>1, <2>2, <2>3
<1>15. ASSUME ReadRecord PROVE TypeOK'
  <2>1. LocksTypeOK' /\ CallsTypeOK' /\ BufferTypeOK' /\ RecordTypeOK' /\ HistTypeOK'
    BY <1>15, <1>a, <1>b, <1>c, <1>d, <1>g DEF ReadRecord, senderVars, netVars, histVars
  <2>2. NetTypeOK'
    BY <1>15 DEF ReadRecord, NetTypeOK, senderVars, netVars, histVars
  <2>3. ReaderTypeOK'
    <3>1. rpos + 1 \in 1..Len(wire) /\ Len(wire) \in Nat
      BY <1>15 DEF ReadRecord, NetTypeOK
    <3>2. wire[rpos + 1] \in WireRecords
      BY <3>1, ElementOfSeq DEF NetTypeOK
    <3>3. wire[rpos + 1].payload \in Seq(Nat)
      BY <3>2 DEF WireRecords
    <3>4. <<>> \in Seq(Nat)
      BY EmptySeq
    <3>5. /\ delivered' = delivered
          /\ recvSeq' = recvSeq \/ recvSeq' = recvSeq + 1
          /\ pending' = wire[rpos + 1].payload \/ pending' = <<>> \/ pending' = pending
          /\ rerr' = "nil" \/ rerr' = "eof" \/ rerr' = "fail"
      BY <1>15 DEF ReadRecord
    <3>6. pending' \in Seq(Nat)
      BY <3>3, <3>4, <3>5, Zenon DEF ReaderTypeOK
    <3>7. recvSeq' \in Nat
      BY <3>5 DEF ReaderTypeOK
    <3>8. rerr' \in {"nil", "eof", "fail"}
      BY <3>5
    <3>9. delivered' \in Seq(Nat)
      BY <3>5 DEF ReaderTypeOK
    <3> QED
      BY <3>6, <3>7, <3>8, <3>9 DEF ReaderTypeOK
  <2> QED
    BY <2>1, <2>2, <2>3
<1>16. ASSUME ReadEnd PROVE TypeOK'
  <2>1. LocksTypeOK' /\ CallsTypeOK' /\ BufferTypeOK' /\ RecordTypeOK' /\ NetTypeOK' /\ HistTypeOK'
    BY <1>16, <1>a, <1>b, <1>c, <1>d, <1>e, <1>g DEF ReadEnd, senderVars, netVars, histVars
  <2>2. ReaderTypeOK'
    BY <1>16 DEF ReadEnd, ReaderTypeOK, senderVars, netVars, histVars
  <2> QED
    BY <2>1, <2>2
<1>17. ASSUME ReadDeliver PROVE TypeOK'
  <2>1. LocksTypeOK' /\ CallsTypeOK' /\ BufferTypeOK' /\ RecordTypeOK' /\ NetTypeOK' /\ HistTypeOK'
    BY <1>17, <1>a, <1>b, <1>c, <1>d, <1>e, <1>g DEF ReadDeliver, senderVars, netVars, histVars
  <2>2. ReaderTypeOK'
    <3>1. PICK n \in 1..Len(pending) :
              /\ delivered' = delivered \o SubSeq(pending, 1, n)
              /\ pending' = SubSeq(pending, n + 1, Len(pending))
      BY <1>17 DEF ReadDeliver
    <3>2. pending \in Seq(Nat) /\ delivered \in Seq(Nat) /\ Len(pending) \in Nat
      BY LenProperties DEF ReaderTypeOK
    <3>3. SubSeq(pending, 1, n) \in Seq(Nat) /\ pending' \in Seq(Nat)
      <4>1. \A i \in 1..Len(pending) : pending[i] \in Nat
        BY <3>2, ElementOfSeq
      <4>2. n \in Int /\ n + 1 \in Int /\ Len(pending) \in Int
        BY <3>2
      <4>3. \A i \in 1..n : pending[i] \in Nat
        BY <3>2, <4>1
      <4>4. \A i \in (n + 1)..Len(pending) : pending[i] \in Nat
        BY <3>2, <4>1
      <4> QED
        BY <3>1, <4>2, <4>3, <4>4, SubSeqProperties
    <3>4. delivered' \in Seq(Nat)
      BY <3>1, <3>2, <3>3, ConcatProperties
    <3> QED
      BY <1>17, <3>3, <3>4 DEF ReadDeliver, ReaderTypeOK
  <2> QED
    BY <2>1, <2>2
<1>18. ASSUME Reset PROVE TypeOK'
  <2>1. LocksTypeOK' /\ CallsTypeOK' /\ BufferTypeOK' /\ RecordTypeOK' /\ ReaderTypeOK' /\ HistTypeOK'
    BY <1>18, <1>a, <1>b, <1>c, <1>d, <1>f, <1>g DEF Reset, senderVars, readerVars, histVars
  <2>2. NetTypeOK'
    <3>1. PICK n \in rpos..Len(wire) : wire' = SubSeq(wire, 1, n)
      BY <1>18 DEF Reset
    <3>2. wire \in Seq(WireRecords) /\ Len(wire) \in Nat /\ rpos \in Nat /\ n \in Nat
      BY <3>1, LenProperties DEF NetTypeOK
    <3>3. wire' \in Seq(WireRecords) /\ Len(wire') = n
      BY <3>1, <3>2, SubSeqProperties
    <3>4. sockOpen' \in BOOLEAN /\ netUp' \in BOOLEAN /\ rpos' = rpos
      BY <1>18 DEF Reset, NetTypeOK, readerVars
    <3> QED
      BY <3>1, <3>2, <3>3, <3>4 DEF NetTypeOK
  <2> QED
    BY <2>1, <2>2
<1>19. ASSUME UNCHANGED vars PROVE TypeOK'
  BY <1>19, <1>a, <1>b, <1>c, <1>d, <1>e, <1>f, <1>g
  DEF vars, senderVars, netVars, readerVars, histVars
<1> QED
  BY <1>1, <1>2, <1>3, <1>4, <1>5, <1>6, <1>7, <1>8, <1>9, <1>10, <1>11, <1>12, <1>13,
     <1>14, <1>15, <1>16, <1>17, <1>18, <1>19
  DEF Next, WriteStep, RecordStep, CloseStep, ReadStep, Terminated

(* Type correctness of the record layer, for every instance. *)
THEOREM TypeCorrect == Spec => []TypeOK
BY TypeInit, TypeNext, PTL DEF Spec

-----------------------------------------------------------------------------
(* Sequence numbers *)

(* Where a goroutine is inside writeRecord with wireMu. *)
Critical == {"seal", "advance", "raw"}

(* wireMu excludes: its holder is the only goroutine inside writeRecord.   *)
WireMutex == \A t \in Threads : pc[t] \in Critical <=> wireMu = t

(* sendSeq against the records sealed so far, and the number of the record *)
(* that is on its way to the socket.                                       *)
NumberInv ==
    /\ (\A t \in Threads : pc[t] # "advance") => Len(sealed) = sendSeq
    /\ \A t \in Threads : pc[t] = "advance" => Len(sealed) = sendSeq + 1 /\ rec[t].seq = sendSeq
    /\ \A t \in Threads : pc[t] = "raw" => rec[t].seq + 1 = sendSeq

(* The socket has only seen numbers below the one that comes next.         *)
WireBelow ==
    /\ \A i \in 1..Len(wire) : wire[i].seq < sendSeq
    /\ \A t \in Threads : pc[t] = "raw" =>
           \A i \in 1..Len(wire) : wire[i].seq < rec[t].seq

(* The inductive invariant behind NonceNeverReused and WireInSequence.     *)
SequenceInv ==
    /\ WireMutex
    /\ NumberInv
    /\ WireBelow
    /\ NonceNeverReused
    /\ WireInSequence

(* A fresh Conn has numbered nothing. *)
LEMMA SequenceInit == Init => SequenceInv
<1> SUFFICES ASSUME Init PROVE SequenceInv
  OBVIOUS
<1>1. Len(sealed) = 0 /\ Len(wire) = 0 /\ sendSeq = 0
  BY EmptySeq DEF Init
<1>2. \A t \in Threads : pc[t] = "idle"
  BY DEF Init
<1>3. WireMutex
  BY <1>2, ThreadsAssumption DEF Init, WireMutex, Critical
<1>4. NumberInv
  BY <1>1, <1>2 DEF NumberInv
<1>5. WireBelow /\ NonceNeverReused /\ WireInSequence
  BY <1>1, <1>2 DEF WireBelow, NonceNeverReused, WireInSequence
<1> QED
  BY <1>3, <1>4, <1>5 DEF SequenceInv

(* A step outside writeRecord does not touch what SequenceInv is about:    *)
(* at most it drops the tail of the wire.                                  *)
LEMMA OutsideWriteRecord ==
    ASSUME TypeOK, SequenceInv,
           UNCHANGED <<wireMu, sendSeq, sealed>>,
           Len(wire') \in Nat, Len(wire') <= Len(wire),
           \A i \in 1..Len(wire') : wire'[i] = wire[i],
           \A u \in Threads : pc[u] \in Critical \/ pc'[u] \in Critical
                                => pc'[u] = pc[u] /\ rec'[u] = rec[u]
    PROVE  SequenceInv'
<1>1. WireMutex'
  BY DEF SequenceInv, WireMutex
<1>2. \A t \in Threads : /\ pc'[t] = "advance" <=> pc[t] = "advance"
                         /\ pc'[t] = "raw" <=> pc[t] = "raw"
                         /\ pc'[t] \in {"advance", "raw"} => rec'[t] = rec[t]
  BY DEF Critical
<1>3. NumberInv'
  BY <1>2 DEF SequenceInv, NumberInv
<1>4. Len(wire) \in Nat
  BY LenProperties DEF TypeOK, NetTypeOK
<1>5. \A i \in 1..Len(wire') : i \in 1..Len(wire)
  BY <1>4
<1>6. WireBelow'
  BY <1>2, <1>5 DEF SequenceInv, WireBelow
<1>7. NonceNeverReused'
  BY DEF SequenceInv, NonceNeverReused
<1>8. WireInSequence'
  BY <1>5 DEF SequenceInv, WireInSequence
<1> QED
  BY <1>1, <1>3, <1>6, <1>7, <1>8 DEF SequenceInv

(* One turn of the flush loop of a goroutine outside writeRecord stays     *)
(* outside it.                                                             *)
LEMMA FlushTurnOutside ==
    ASSUME TypeOK, NEW t \in Writers, NEW buf, FlushTurn(t, buf), pc[t] \notin Critical
    PROVE  \A u \in Threads : pc[u] \in Critical \/ pc'[u] \in Critical
                               => pc'[u] = pc[u] /\ rec'[u] = rec[u]
<1>1. pc \in [Threads -> PCs] /\ rec \in [Threads -> Records]
  BY DEF TypeOK, LocksTypeOK, RecordTypeOK
<1>2. \A u \in Threads \ {t} : pc'[u] = pc[u] /\ rec'[u] = rec[u]
  BY <1>1 DEF FlushTurn
<1>3. pc'[t] \in {"idle", "wireLock"}
  BY <1>1 DEF FlushTurn, Threads
<1> QED
  BY <1>2, <1>3 DEF Critical

(* At most one goroutine is inside writeRecord. *)
LEMMA OneInside ==
    ASSUME WireMutex, NEW t \in Threads, NEW u \in Threads,
           pc[t] \in Critical, pc[u] \in Critical
    PROVE  t = u
BY DEF WireMutex

(* A record on the wire carries a natural number. *)
LEMMA WireNumbers ==
    ASSUME TypeOK
    PROVE  \A i \in 1..Len(wire) : wire[i].seq \in Nat
<1>1. \A i \in 1..Len(wire) : wire[i] \in WireRecords
  BY ElementOfSeq DEF TypeOK, NetTypeOK
<1> QED
  BY <1>1 DEF WireRecords

(* Every step keeps the numbering: one step per action. *)
LEMMA SequenceNext == TypeOK /\ SequenceInv /\ [Next]_vars => SequenceInv'
<1> SUFFICES ASSUME TypeOK, SequenceInv, [Next]_vars PROVE SequenceInv'
  OBVIOUS
<1>a. /\ pc \in [Threads -> PCs] /\ rec \in [Threads -> Records]
      /\ Len(wire) \in Nat /\ Len(sealed) \in Nat /\ sendSeq \in Nat
      /\ wire \in Seq(WireRecords) /\ sealed \in Seq(Records)
  BY LenProperties DEF TypeOK, LocksTypeOK, RecordTypeOK, NetTypeOK, HistTypeOK
<1>b. Writers \subseteq Threads /\ Closers \subseteq Threads
  BY DEF Threads
<1> USE <1>a, <1>b
<1>1. ASSUME NEW t \in Writers, WriteCall(t) PROVE SequenceInv'
  <2>1. UNCHANGED <<wireMu, sendSeq, sealed, wire>>
    BY <1>1 DEF WriteCall, netVars, readerVars, histVars
  <2>2. \A u \in Threads : pc[u] \in Critical \/ pc'[u] \in Critical
                           => pc'[u] = pc[u] /\ rec'[u] = rec[u]
    BY <1>1 DEF WriteCall, Critical
  <2> QED
    BY <2>1, <2>2, OutsideWriteRecord
<1>2. ASSUME NEW t \in Writers, WriteRefused(t) PROVE SequenceInv'
  <2>1. UNCHANGED <<wireMu, sendSeq, sealed, wire>>
    BY <1>2 DEF WriteRefused, netVars, readerVars, histVars
  <2>2. \A u \in Threads : pc[u] \in Critical \/ pc'[u] \in Critical
                           => pc'[u] = pc[u] /\ rec'[u] = rec[u]
    BY <1>2 DEF WriteRefused, Critical
  <2> QED
    BY <2>1, <2>2, OutsideWriteRecord
<1>3. ASSUME NEW t \in Writers, WriteEnter(t) PROVE SequenceInv'
  <2>1. UNCHANGED <<wireMu, sendSeq, sealed, wire>> /\ pc[t] \notin Critical
    BY <1>3 DEF WriteEnter, netVars, Critical
  <2>2. CASE FlushSeen
    <3>1. \A u \in Threads : pc[u] \in Critical \/ pc'[u] \in Critical
                             => pc'[u] = pc[u] /\ rec'[u] = rec[u]
      BY <1>3, <2>2 DEF WriteEnter, Critical
    <3> QED
      BY <2>1, <3>1, OutsideWriteRecord
  <2>3. CASE ~FlushSeen
    BY <1>3, <2>1, <2>3, FlushTurnOutside, OutsideWriteRecord DEF WriteEnter
  <2> QED
    BY <2>2, <2>3
<1>4. ASSUME NEW t \in Writers, WriteResume(t) PROVE SequenceInv'
  <2>1. UNCHANGED <<wireMu, sendSeq, sealed, wire>> /\ pc[t] \notin Critical
    BY <1>4 DEF WriteResume, netVars, histVars, Critical
  <2>2. CASE pc[t] = "failed"
    <3>1. \A u \in Threads : pc[u] \in Critical \/ pc'[u] \in Critical
                             => pc'[u] = pc[u] /\ rec'[u] = rec[u]
      BY <1>4, <2>2 DEF WriteResume, Critical
    <3> QED
      BY <2>1, <3>1, OutsideWriteRecord
  <2>3. CASE pc[t] = "wrote"
    BY <1>4, <2>1, <2>3, FlushTurnOutside, OutsideWriteRecord DEF WriteResume
  <2> QED
    BY <1>4, <2>2, <2>3 DEF WriteResume
<1>5. ASSUME NEW t \in Threads, LockWire(t) PROVE SequenceInv'
  <2>1. UNCHANGED <<sendSeq, sealed, wire, rec>> /\ wireMu' = t /\ wireMu = NoThread
    BY <1>5 DEF LockWire, WireFree, netVars, histVars
  <2>2. pc[t] = "wireLock" /\ pc'[t] = "seal" /\ \A u \in Threads \ {t} : pc'[u] = pc[u]
    BY <1>5 DEF LockWire
  <2>3. \A u \in Threads : pc[u] \notin Critical
    BY <2>1, ThreadsAssumption DEF SequenceInv, WireMutex
  <2>4. WireMutex'
    BY <2>1, <2>2, <2>3 DEF WireMutex, Critical
  <2>5. \A u \in Threads : pc[u] # "advance" /\ pc'[u] # "advance" /\ pc'[u] # "raw"
    BY <2>2, <2>3 DEF Critical
  <2>6. NumberInv'
    BY <2>1, <2>5 DEF SequenceInv, NumberInv
  <2>7. WireBelow' /\ NonceNeverReused' /\ WireInSequence'
    BY <2>1, <2>5 DEF SequenceInv, WireBelow, NonceNeverReused, WireInSequence
  <2> QED
    BY <2>4, <2>6, <2>7 DEF SequenceInv
<1>6. ASSUME NEW t \in Threads, Seal(t) PROVE SequenceInv'
  <2>1. /\ UNCHANGED <<sendSeq, wire, wireMu>>
        /\ sealed' = Append(sealed, rec'[t])
        /\ pc[t] = "seal" /\ pc'[t] = "advance"
        /\ \A u \in Threads \ {t} : pc'[u] = pc[u] /\ rec'[u] = rec[u]
    BY <1>6 DEF Seal, netVars
  <2>2. rec'[t].seq = sendSeq /\ rec'[t] \in Records
    BY <1>6 DEF Seal, Records
  <2>3. \A u \in Threads \ {t} : pc[u] \notin Critical
    BY <2>1, OneInside DEF SequenceInv, Critical
  <2>4. WireMutex'
    BY <2>1, <2>3 DEF SequenceInv, WireMutex, Critical
  <2>5. \A u \in Threads : pc[u] # "advance" /\ pc'[u] # "raw"
    BY <2>1, <2>3 DEF Critical
  <2>6. Len(sealed) = sendSeq
    BY <2>5 DEF SequenceInv, NumberInv
  <2>7. /\ Len(sealed') = Len(sealed) + 1
        /\ \A i \in 1..Len(sealed) : sealed'[i] = sealed[i]
        /\ sealed'[Len(sealed) + 1] = rec'[t]
    BY <2>1, <2>2, AppendProperties
  <2>8. \A u \in Threads : pc'[u] = "advance" => u = t
    BY <2>1, <2>3 DEF Critical
  <2>9. NumberInv'
    BY <2>1, <2>2, <2>5, <2>6, <2>7, <2>8 DEF NumberInv
  <2>10. NonceNeverReused'
    BY <2>2, <2>6, <2>7 DEF SequenceInv, NonceNeverReused
  <2>11. WireBelow' /\ WireInSequence'
    BY <2>1, <2>5 DEF SequenceInv, WireBelow, WireInSequence
  <2> QED
    BY <2>4, <2>9, <2>10, <2>11 DEF SequenceInv
<1>7. ASSUME NEW t \in Threads, Advance(t) PROVE SequenceInv'
  <2>1. /\ UNCHANGED <<rec, wire, wireMu, sealed>>
        /\ sendSeq' = sendSeq + 1
        /\ pc[t] = "advance" /\ pc'[t] = "raw"
        /\ \A u \in Threads \ {t} : pc'[u] = pc[u]
    BY <1>7 DEF Advance, netVars, histVars
  <2>2. \A u \in Threads \ {t} : pc[u] \notin Critical
    BY <2>1, OneInside DEF SequenceInv, Critical
  <2>3. WireMutex'
    BY <2>1, <2>2 DEF SequenceInv, WireMutex, Critical
  <2>4. Len(sealed) = sendSeq + 1 /\ rec[t].seq = sendSeq
    BY <2>1 DEF SequenceInv, NumberInv
  <2>5. \A u \in Threads : pc'[u] # "advance" /\ (pc'[u] = "raw" => u = t)
    BY <2>1, <2>2 DEF Critical
  <2>6. NumberInv'
    BY <2>1, <2>4, <2>5 DEF NumberInv
  <2>7. \A i \in 1..Len(wire) : wire[i].seq \in Nat /\ wire[i].seq < sendSeq
    BY WireNumbers DEF SequenceInv, WireBelow
  <2>8. WireBelow'
    BY <2>1, <2>4, <2>5, <2>7 DEF WireBelow
  <2>9. NonceNeverReused' /\ WireInSequence'
    BY <2>1 DEF SequenceInv, NonceNeverReused, WireInSequence
  <2> QED
    BY <2>3, <2>6, <2>8, <2>9 DEF SequenceInv
<1>8. ASSUME NEW t \in Threads, NEW e \in WireRecords, pc[t] = "raw", e.seq = rec[t].seq,
             wire' = wire \/ wire' = Append(wire, e), RawReturn(t, "wrote") \/ RawReturn(t, "failed")
      PROVE  SequenceInv'
  <2>1. /\ UNCHANGED <<rec, sendSeq, sealed>>
        /\ wireMu' = NoThread
        /\ pc'[t] \in {"wrote", "failed"}
        /\ \A u \in Threads \ {t} : pc'[u] = pc[u]
    BY <1>8 DEF RawReturn, histVars
  <2>2. \A u \in Threads \ {t} : pc[u] \notin Critical
    BY <1>8, OneInside DEF SequenceInv, Critical
  <2>3. \A u \in Threads : pc'[u] \notin Critical
    BY <2>1, <2>2 DEF Critical
  <2>4. WireMutex'
    BY <2>1, <2>3, ThreadsAssumption DEF WireMutex
  <2>5. \A u \in Threads : pc[u] # "advance" /\ pc'[u] # "advance" /\ pc'[u] # "raw"
    BY <1>8, <2>2, <2>3 DEF Critical
  <2>6. NumberInv'
    BY <2>1, <2>5 DEF SequenceInv, NumberInv
  <2>7. e.seq + 1 = sendSeq /\ e.seq \in Nat /\ \A i \in 1..Len(wire) : wire[i].seq < e.seq
    BY <1>8 DEF SequenceInv, NumberInv, WireBelow, WireRecords
  <2>8. \A i \in 1..Len(wire) : wire[i].seq \in Nat
    BY WireNumbers
  <2>9. CASE wire' = wire
    BY <2>1, <2>4, <2>5, <2>6, <2>9 DEF SequenceInv, WireBelow, WireInSequence, NonceNeverReused
  <2>10. CASE wire' = Append(wire, e)
    <3>1. /\ Len(Append(wire, e)) = Len(wire) + 1
          /\ \A i \in 1..Len(wire) : Append(wire, e)[i] = wire[i]
          /\ Append(wire, e)[Len(wire) + 1] = e
      BY <1>8, AppendProperties
    <3>2. /\ Len(wire') = Len(wire) + 1
          /\ \A i \in 1..Len(wire) : wire'[i] = wire[i]
          /\ wire'[Len(wire) + 1] = e
      BY <2>10, <3>1, Zenon
    <3>3. \A i \in 1..Len(wire') : i \in 1..Len(wire) \/ i = Len(wire) + 1
      BY <3>2
    <3>4. WireBelow'
      <4>1. \A i \in 1..Len(wire) : wire[i].seq < sendSeq
        BY DEF SequenceInv, WireBelow
      <4>2. e.seq < sendSeq
        BY <2>7
      <4>3. \A i \in 1..Len(wire') : wire'[i].seq < sendSeq'
        BY <2>1, <3>2, <3>3, <4>1, <4>2
      <4> QED
        BY <2>5, <4>3 DEF WireBelow
    <3>5. WireInSequence'
      <4>1. \A i, j \in 1..Len(wire) : i < j => wire[i].seq < wire[j].seq
        BY DEF SequenceInv, WireInSequence
      <4>2. ASSUME NEW i \in 1..Len(wire'), NEW j \in 1..Len(wire'), i < j
            PROVE  wire'[i].seq < wire'[j].seq
        <5>1. i \in 1..Len(wire) /\ (j \in 1..Len(wire) \/ j = Len(wire) + 1)
          BY <3>2, <3>3, <4>2
        <5> QED
          BY <2>7, <3>2, <4>1, <4>2, <5>1
      <4> QED
        BY <4>2 DEF WireInSequence
    <3>6. NonceNeverReused'
      BY <2>1 DEF SequenceInv, NonceNeverReused
    <3> QED
      BY <2>4, <2>6, <3>4, <3>5, <3>6 DEF SequenceInv
  <2> QED
    BY <1>8, <2>9, <2>10
<1>9. ASSUME NEW t \in Threads, RawWriteOk(t) \/ RawWriteFail(t) PROVE SequenceInv'
  <2>1. \A w \in BOOLEAN : OnWire(rec[t], w) \in WireRecords /\ OnWire(rec[t], w).seq = rec[t].seq
    BY DEF OnWire, Records, WireRecords
  <2>2. CASE RawWriteOk(t)
    <3>1. /\ pc[t] = "raw" /\ wire' = Append(wire, OnWire(rec[t], TRUE))
          /\ RawReturn(t, "wrote")
      BY <2>2 DEF RawWriteOk
    <3> QED
      BY <1>8, <2>1, <3>1
  <2>3. CASE RawWriteFail(t)
    <3>1. /\ pc[t] = "raw" /\ (wire' = wire \/ wire' = Append(wire, OnWire(rec[t], FALSE)))
          /\ RawReturn(t, "failed")
      BY <2>3 DEF RawWriteFail
    <3> QED
      BY <1>8, <2>1, <3>1
  <2> QED
    BY <1>9, <2>2, <2>3
<1>10. ASSUME NEW t \in Closers, CloseCall(t) PROVE SequenceInv'
  <2>1. UNCHANGED <<wireMu, sendSeq, sealed, wire>>
    BY <1>10 DEF CloseCall, netVars, readerVars
  <2>2. \A u \in Threads : pc[u] \in Critical \/ pc'[u] \in Critical
                           => pc'[u] = pc[u] /\ rec'[u] = rec[u]
    BY <1>10 DEF CloseCall, Critical
  <2> QED
    BY <2>1, <2>2, OutsideWriteRecord
<1>11. ASSUME NEW t \in Closers, CloseOnceDone(t) PROVE SequenceInv'
  <2>1. UNCHANGED <<wireMu, sendSeq, sealed, wire>>
    BY <1>11 DEF CloseOnceDone, netVars, readerVars, histVars
  <2>2. \A u \in Threads : pc[u] \in Critical \/ pc'[u] \in Critical
                           => pc'[u] = pc[u] /\ rec'[u] = rec[u]
    BY <1>11 DEF CloseOnceDone, Critical
  <2> QED
    BY <2>1, <2>2, OutsideWriteRecord
<1>12. ASSUME NEW t \in Closers, CloseLock(t) PROVE SequenceInv'
  <2>1. UNCHANGED <<wireMu, sendSeq, sealed, wire>>
    BY <1>12 DEF CloseLock, netVars, readerVars
  <2>2. \A u \in Threads : pc[u] \in Critical \/ pc'[u] \in Critical
                           => pc'[u] = pc[u] /\ rec'[u] = rec[u]
    BY <1>12 DEF CloseLock, Critical
  <2> QED
    BY <2>1, <2>2, OutsideWriteRecord
<1>13. ASSUME NEW t \in Closers, CloseResume(t) PROVE SequenceInv'
  <2>1. UNCHANGED <<wireMu, sendSeq, sealed, wire>>
    BY <1>13 DEF CloseResume, netVars, readerVars, histVars
  <2>2. \A u \in Threads : pc[u] \in Critical \/ pc'[u] \in Critical
                           => pc'[u] = pc[u] /\ rec'[u] = rec[u]
    BY <1>13 DEF CloseResume, Critical
  <2> QED
    BY <2>1, <2>2, OutsideWriteRecord
<1>14. ASSUME NEW t \in Closers, RawClose(t) PROVE SequenceInv'
  <2>1. UNCHANGED <<wireMu, sendSeq, sealed, wire>>
    BY <1>14 DEF RawClose, readerVars, histVars
  <2>2. \A u \in Threads : pc[u] \in Critical \/ pc'[u] \in Critical
                           => pc'[u] = pc[u] /\ rec'[u] = rec[u]
    BY <1>14 DEF RawClose, Critical
  <2> QED
    BY <2>1, <2>2, OutsideWriteRecord
<1>15. ASSUME ReadStep PROVE SequenceInv'
  <2>1. UNCHANGED <<pc, rec, wireMu, sendSeq, sealed, wire>>
    BY <1>15 DEF ReadStep, ReadRecord, ReadEnd, ReadDeliver, senderVars, netVars, histVars
  <2> QED
    BY <2>1, OutsideWriteRecord
<1>16. ASSUME Reset PROVE SequenceInv'
  <2>1. UNCHANGED <<pc, rec, wireMu, sendSeq, sealed>>
    BY <1>16 DEF Reset, senderVars, histVars
  <2>2. PICK n \in rpos..Len(wire) : wire' = SubSeq(wire, 1, n)
    BY <1>16 DEF Reset
  <2>3. rpos \in Nat /\ n \in Nat /\ n <= Len(wire)
    BY <2>2 DEF TypeOK, NetTypeOK
  <2>4. \A i \in 1..n : wire[i] \in WireRecords
    BY <2>3, ElementOfSeq
  <2>5. Len(SubSeq(wire, 1, n)) = n /\ \A i \in 1..n : SubSeq(wire, 1, n)[i] = wire[i]
    BY <2>3, <2>4, SubSeqProperties
  <2>6. Len(wire') = n /\ \A i \in 1..n : wire'[i] = wire[i]
    BY <2>2, <2>5, Zenon
  <2> QED
    BY <2>1, <2>3, <2>6, OutsideWriteRecord
<1>17. ASSUME UNCHANGED vars PROVE SequenceInv'
  BY <1>17, OutsideWriteRecord DEF vars, senderVars, netVars, histVars
<1> QED
  BY <1>1, <1>2, <1>3, <1>4, <1>5, <1>6, <1>7, <1>9, <1>10, <1>11, <1>12, <1>13,
     <1>14, <1>15, <1>16, <1>17
  DEF Next, WriteStep, RecordStep, CloseStep, Terminated

(* However many goroutines write and close, no nonce ever seals two        *)
(* records: the i-th record sealed carries number i - 1.                   *)
THEOREM NoncesAreUnique == Spec => []NonceNeverReused
<1>1. TypeOK /\ SequenceInv /\ [Next]_vars => (TypeOK /\ SequenceInv)'
  BY TypeNext, SequenceNext
<1>2. Init => TypeOK /\ SequenceInv
  BY TypeInit, SequenceInit
<1>3. SequenceInv => NonceNeverReused
  BY DEF SequenceInv
<1> QED
  BY <1>1, <1>2, <1>3, PTL DEF Spec

(* Records reach the socket in the order in which they were numbered.      *)
THEOREM WireKeepsSequence == Spec => []WireInSequence
<1>1. TypeOK /\ SequenceInv /\ [Next]_vars => (TypeOK /\ SequenceInv)'
  BY TypeNext, SequenceNext
<1>2. Init => TypeOK /\ SequenceInv
  BY TypeInit, SequenceInit
<1>3. SequenceInv => WireInSequence
  BY DEF SequenceInv
<1> QED
  BY <1>1, <1>2, <1>3, PTL DEF Spec

-----------------------------------------------------------------------------
(* The stream *)


(* Where a goroutine is from the moment it has cut a record to the moment  *)
(* it is back from writeRecord with its outcome.                           *)
Emitting == {"wireLock", "seal", "advance", "raw", "wrote", "failed"}

(* The record in hand is not sealed yet. *)
Unsealed == {"wireLock", "seal"}

-----------------------------------------------------------------------------
(* One flusher *)

(* Goroutines in Write are never in the middle of Close, and conversely.   *)
RolesKept ==
    /\ \A t \in Writers : pc[t] \in {"idle", "wLock"} \cup Emitting
    /\ \A t \in Closers : pc[t] # "wLock"

(* The goroutines between two calls hold no record, the flusher a data     *)
(* record, the closer the alert.                                           *)
RecordsMatch ==
    /\ \A t \in Writers : rec[t].typ = IF pc[t] \in Emitting THEN "data" ELSE "none"
    /\ \A t \in Closers : /\ rec[t].typ # "data"
                          /\ rec[t].payload = <<>>
                          /\ pc[t] \in Emitting => rec[t].typ = "alert"

(* flushing says that some goroutine is the flusher, and at most one is.   *)
OneFlusher ==
    /\ \A t, u \in Writers : pc[t] \in Emitting /\ pc[u] \in Emitting => t = u
    /\ flushing <=> \E t \in Writers : pc[t] \in Emitting

(* The inductive invariant behind NothingStranded and NoDataAfterFailure:  *)
(* once werr is set nobody becomes the flusher again.                      *)
FlusherInv ==
    /\ RolesKept
    /\ RecordsMatch
    /\ OneFlusher
    /\ werr => ~flushing
    /\ NothingStranded

-----------------------------------------------------------------------------
(* One alert *)

(* The goroutine closeOnce let in, up to its return from writeRecord. *)
Closing(t) == pc[t] \in {"cLock"} \cup Emitting

(* A close_notify has been sealed. *)
AlertAt(i) == i \in 1..Len(sealed) /\ sealed[i].typ = "alert"

(* closeOnce runs one closer; it holds wmu while it emits. *)
OnceInv ==
    /\ \A t, u \in Closers : Closing(t) /\ Closing(u) => t = u
    /\ \A t \in Closers : Closing(t) => once = "running"
    /\ \A t \in Closers : pc[t] \in Emitting <=> wmu = t
    /\ \A t \in Closers : pc[t] \in {"rawClose", "closed"} => once = "done"
    /\ ~sockOpen => once = "done"

(* The alert is sealed after closeOnce let its closer in, and before that  *)
(* closer leaves writeRecord.                                              *)
AlertInv ==
    /\ \A i \in 1..Len(sealed) :
           /\ sealed[i].typ \in {"data", "alert"}
           /\ sealed[i].typ = "alert" => sealed[i].payload = <<>>
    /\ \A i \in 1..Len(sealed) : AlertAt(i) =>
           /\ once # "new"
           /\ \A t \in Closers : pc[t] \notin {"cLock"} \cup Unsealed
    /\ \A t \in Closers : pc[t] \in Emitting \ Unsealed => \E i \in 1..Len(sealed) : AlertAt(i)
    /\ once = "done" => \E i \in 1..Len(sealed) : AlertAt(i)
    /\ OneAlert

(* The inductive invariant behind OneAlert. *)
CloseInv == OnceInv /\ AlertInv

-----------------------------------------------------------------------------
(* The stream *)

(* pos[i] is how many bytes of the stream the first i records sealed       *)
(* carry: the records partition a prefix of it.                            *)
SealedInOrder(pos) ==
    /\ pos[0] = 0
    /\ \A i \in 1..Len(sealed) : pos[i] = pos[i - 1] + Len(sealed[i].payload)
    /\ \A i, j \in 0..Len(sealed) : i <= j => pos[i] <= pos[j]
    /\ \A i \in 1..Len(sealed) : \A k \in 1..Len(sealed[i].payload) :
           sealed[i].payload[k] = pos[i - 1] + k

(* The record in hand and wbuf carry the rest of what was accepted. *)
RestInOrder(pos) ==
    /\ (\A t \in Writers : pc[t] \notin Unsealed) => pos[Len(sealed)] + Len(wbuf) = accepted
    /\ \A t \in Writers : pc[t] \in Unsealed =>
           /\ pos[Len(sealed)] + Len(rec[t].payload) + Len(wbuf) = accepted
           /\ \A k \in 1..Len(rec[t].payload) : rec[t].payload[k] = pos[Len(sealed)] + k
    /\ \A k \in 1..Len(wbuf) : wbuf[k] = accepted - Len(wbuf) + k

(* The socket carries records that were sealed, and the record on its way  *)
(* to the socket is the last one sealed.                                   *)
WireIsSealed ==
    /\ \A i \in 1..Len(wire) : /\ wire[i].seq < Len(sealed)
                               /\ wire[i].typ = sealed[wire[i].seq + 1].typ
                               /\ wire[i].payload = sealed[wire[i].seq + 1].payload
    /\ \A t \in Threads : pc[t] \in {"advance", "raw"} =>
           /\ rec[t].seq + 1 = Len(sealed)
           /\ rec[t] = sealed[Len(sealed)]

(* The far end has opened the first recvSeq records and holds their bytes. *)
ReadInOrder(pos) ==
    /\ recvSeq <= Len(sealed)
    /\ Len(delivered) + Len(pending) = pos[recvSeq]
    /\ \A k \in 1..Len(delivered) : delivered[k] = k
    /\ \A k \in 1..Len(pending) : pending[k] = Len(delivered) + k
    /\ rerr # "nil" => pending = <<>>

(* The inductive invariant behind DeliveredInOrder and the refinement. *)
StreamAt(pos) ==
    /\ SealedInOrder(pos)
    /\ RestInOrder(pos)
    /\ WireIsSealed
    /\ ReadInOrder(pos)

StreamInv == \E pos \in [Nat -> Nat] : StreamAt(pos)

-----------------------------------------------------------------------------
(* The clean end *)

(* The socket took the whole record. *)
Taken(i) == \E j \in 1..Len(wire) : wire[j].seq = i - 1 /\ wire[j].whole

(* A data record reaches the socket, or is on its way to it, or failed. *)
DataTaken ==
    \A i \in 1..Len(sealed) : sealed[i].typ = "data" =>
        \/ werr \/ ~netUp \/ Taken(i)
        \/ \E t \in Writers : pc[t] = "failed" \/ (pc[t] \in {"advance", "raw"} /\ rec[t].seq + 1 = i)

(* Before it has failed, the far end has read a prefix of the wire without *)
(* a gap.                                                                  *)
ReadWithoutGap ==
    rerr = "nil" => recvSeq = rpos /\ \A j \in 1..rpos : wire[j].seq = j - 1

(* closeAt remembers where the stream was when Close was first called, and *)
(* no flush starts while the closer waits for the wire.                    *)
CloseRemembered ==
    /\ once = "new" <=> closeAt = 0
    /\ closeAt <= accepted + 1
    /\ \A t \in Closers : pc[t] \in Unsealed => (overlap <=> flushing)
    /\ rerr = "eof" => \E i \in 1..Len(sealed) : AlertAt(i)

(* An alert that overtook no flush ends a stream that is all on the wire.  *)
AlertIsLast(pos) ==
    \A a \in 1..Len(sealed) : AlertAt(a) /\ ~overlap /\ ~werr =>
        /\ closeAt <= pos[a] + 1
        /\ netUp => \A i \in 1..(a - 1) : Taken(i)

(* The inductive invariant behind CleanCloseIsComplete. *)
CleanAt(pos) ==
    /\ DataTaken
    /\ ReadWithoutGap
    /\ CloseRemembered
    /\ AlertIsLast(pos)
    /\ CleanCloseIsComplete

-----------------------------------------------------------------------------
(* What one turn of the flush loop does: it returns with an empty buffer,  *)
(* or holds the first n bytes and leaves the others in wbuf.               *)
LEMMA FlushTurnEffect ==
    ASSUME TypeOK, NEW t \in Writers, NEW buf \in Seq(Nat), FlushTurn(t, buf)
    PROVE  /\ \A u \in Threads \ {t} : pc'[u] = pc[u] /\ rec'[u] = rec[u]
           /\ \/ /\ buf = <<>> /\ wbuf' = buf /\ flushing' = FALSE
                 /\ pc'[t] = "idle" /\ rec'[t].typ = "none"
              \/ /\ flushing' = TRUE /\ pc'[t] = "wireLock" /\ rec'[t].typ = "data"
                 /\ \E n \in 1..Len(buf) : /\ rec'[t].payload = SubSeq(buf, 1, n)
                                           /\ wbuf' = SubSeq(buf, n + 1, Len(buf))
<1>1. pc \in [Threads -> PCs] /\ rec \in [Threads -> Records] /\ t \in Threads
  BY DEF TypeOK, LocksTypeOK, RecordTypeOK, Threads
<1>2. \A u \in Threads \ {t} : pc'[u] = pc[u] /\ rec'[u] = rec[u]
  BY <1>1 DEF FlushTurn
<1>3. CASE LoopDone(buf)
  BY <1>1, <1>2, <1>3 DEF FlushTurn, LoopDone, NoRec
<1>4. CASE ~LoopDone(buf)
  <2>1. PICK take \in Takes :
            /\ rec' = [rec EXCEPT ![t] = [typ     |-> "data",
                                          payload |-> SubSeq(buf, 1, Clamp(take, Len(buf))),
                                          seq     |-> 0]]
            /\ wbuf' = SubSeq(buf, Clamp(take, Len(buf)) + 1, Len(buf))
            /\ flushing' = TRUE
            /\ pc' = [pc EXCEPT ![t] = "wireLock"]
    BY <1>4 DEF FlushTurn, FlushingDuring
  <2>2. Clamp(take, Len(buf)) \in 1..Len(buf)
    BY <1>4, CutLemma DEF LoopDone
  <2>3. rec'[t].typ = "data" /\ rec'[t].payload = SubSeq(buf, 1, Clamp(take, Len(buf)))
    BY <1>1, <2>1
  <2>4. pc'[t] = "wireLock"
    BY <1>1, <2>1
  <2> QED
    BY <1>2, <2>1, <2>2, <2>3, <2>4
<1> QED
  BY <1>3, <1>4

(* The buffer and the new bytes, as WriteEnter hands them to the flush.    *)
LEMMA EnterBuffer ==
    ASSUME TypeOK, NEW t \in Writers
    PROVE  wbuf \o NewBytes(t) \in Seq(Nat)
BY NewBytesLemma, ConcatProperties DEF TypeOK, BufferTypeOK

(* Sealing numbers the record in hand and leaves the others alone. *)
LEMMA SealEffect ==
    ASSUME TypeOK, NEW t \in Threads, Seal(t)
    PROVE  /\ rec'[t].typ = rec[t].typ /\ rec'[t].payload = rec[t].payload /\ rec'[t] \in Records
           /\ rec'[t].seq = sendSeq
           /\ \A u \in Threads \ {t} : rec'[u] = rec[u] /\ pc'[u] = pc[u]
           /\ pc[t] = "seal" /\ pc'[t] = "advance"
<1>1. pc \in [Threads -> PCs] /\ rec \in [Threads -> Records] /\ rec[t] \in Records /\ sendSeq \in Nat
  BY DEF TypeOK, LocksTypeOK, RecordTypeOK
<1>2. rec'[t] = [rec[t] EXCEPT !.seq = sendSeq]
  BY <1>1 DEF Seal
<1>3. rec'[t].typ = rec[t].typ /\ rec'[t].payload = rec[t].payload /\ rec'[t].seq = sendSeq
      /\ rec'[t] \in Records
  BY <1>1, <1>2 DEF Records
<1> QED
  BY <1>1, <1>3 DEF Seal

(* A fresh Conn has no flusher. *)
LEMMA FlusherInit == Init => FlusherInv
<1> SUFFICES ASSUME Init PROVE FlusherInv
  OBVIOUS
<1>1. \A t \in Threads : pc[t] = "idle" /\ rec[t].typ = "none" /\ rec[t].payload = <<>>
  BY DEF Init, NoRec
<1> QED
  BY <1>1 DEF Init, FlusherInv, RolesKept, RecordsMatch, OneFlusher, NothingStranded,
              Emitting, Threads

(* A step that leaves the buffer and every record's owner alone keeps the  *)
(* invariant, as long as the goroutine t that takes it neither starts nor  *)
(* ends a flush.                                                           *)
LEMMA FlusherKept ==
    ASSUME FlusherInv, UNCHANGED <<wbuf, flushing, werr>>,
           \A u \in Writers : /\ pc[u] \in Emitting <=> pc'[u] \in Emitting
                              /\ pc'[u] \in {"idle", "wLock"} \cup Emitting
                              /\ rec'[u].typ = rec[u].typ,
           \A u \in Closers : /\ pc'[u] # "wLock"
                              /\ rec'[u].typ # "data"
                              /\ rec'[u].payload = <<>>
                              /\ pc'[u] \in Emitting => rec'[u].typ = "alert"
    PROVE  FlusherInv'
BY DEF FlusherInv, RolesKept, RecordsMatch, OneFlusher, NothingStranded

(* What FlusherInv says when nobody flushes. *)
LEMMA FlusherNone ==
    ASSUME FlusherInv, ~flushing
    PROVE  \A u \in Writers : pc[u] \in {"idle", "wLock"} /\ rec[u].typ = "none"
BY DEF FlusherInv, RolesKept, RecordsMatch, OneFlusher

(* What FlusherInv says of the goroutines other than the flusher t. *)
LEMMA FlusherOthers ==
    ASSUME FlusherInv, NEW t \in Writers, pc[t] \in Emitting
    PROVE  /\ flushing /\ ~werr
           /\ \A u \in Writers \ {t} : pc[u] \in {"idle", "wLock"} /\ rec[u].typ = "none"
BY DEF FlusherInv, RolesKept, RecordsMatch, OneFlusher

(* One turn of the flush loop, entered with no other flusher. *)
LEMMA FlusherTurn ==
    ASSUME TypeOK, FlusherInv, NEW t \in Writers, NEW buf \in Seq(Nat), FlushTurn(t, buf),
           UNCHANGED werr, ~werr,
           \A u \in Writers \ {t} : pc[u] \in {"idle", "wLock"} /\ rec[u].typ = "none"
    PROVE  FlusherInv'
<1>1. Writers \subseteq Threads /\ \A u \in Closers : u \in Threads /\ u # t
  BY ThreadsAssumption DEF Threads
<1>2. /\ \A u \in Closers : pc'[u] = pc[u] /\ rec'[u] = rec[u]
      /\ \A u \in Writers \ {t} : pc'[u] \in {"idle", "wLock"} /\ rec'[u].typ = "none"
      /\ \/ /\ buf = <<>> /\ wbuf' = buf /\ flushing' = FALSE
            /\ pc'[t] = "idle" /\ rec'[t].typ = "none"
         \/ flushing' = TRUE /\ pc'[t] = "wireLock" /\ rec'[t].typ = "data"
  <2>1. \A u \in Threads \ {t} : pc'[u] = pc[u] /\ rec'[u] = rec[u]
    BY FlushTurnEffect, Zenon
  <2>2. \/ /\ buf = <<>> /\ wbuf' = buf /\ flushing' = FALSE
           /\ pc'[t] = "idle" /\ rec'[t].typ = "none"
        \/ flushing' = TRUE /\ pc'[t] = "wireLock" /\ rec'[t].typ = "data"
    BY FlushTurnEffect, Zenon
  <2> QED
    BY <1>1, <2>1, <2>2
<1>3. RolesKept' /\ RecordsMatch'
  BY <1>2 DEF FlusherInv, RolesKept, RecordsMatch, Emitting
<1>4. OneFlusher'
  BY <1>2 DEF OneFlusher, Emitting
<1>5. (werr => ~flushing)' /\ NothingStranded'
  BY <1>2 DEF NothingStranded
<1> QED
  BY <1>3, <1>4, <1>5 DEF FlusherInv

(* Every step keeps one flusher: one step per action. *)
LEMMA FlusherNext == TypeOK /\ FlusherInv /\ [Next]_vars => FlusherInv'
<1> SUFFICES ASSUME TypeOK, FlusherInv, [Next]_vars PROVE FlusherInv'
  OBVIOUS
<1>a. /\ pc \in [Threads -> PCs] /\ rec \in [Threads -> Records]
      /\ Writers \subseteq Threads /\ Closers \subseteq Threads
      /\ wbuf \in Seq(Nat) /\ flushing \in BOOLEAN /\ werr \in BOOLEAN
  BY DEF TypeOK, LocksTypeOK, RecordTypeOK, BufferTypeOK, Threads
<1>b. /\ \A u \in Writers : /\ pc[u] \in {"idle", "wLock"} \cup Emitting
                            /\ rec[u].typ = IF pc[u] \in Emitting THEN "data" ELSE "none"
      /\ \A u \in Closers : /\ pc[u] # "wLock"
                            /\ rec[u].typ # "data"
                            /\ rec[u].payload = <<>>
                            /\ pc[u] \in Emitting => rec[u].typ = "alert"
  BY DEF FlusherInv, RolesKept, RecordsMatch
<1>c. \A t \in Writers : \A u \in Closers : t # u
  BY ThreadsAssumption
<1> USE <1>a, <1>b, <1>c
<1>1. ASSUME NEW t \in Writers, WriteCall(t) \/ WriteRefused(t) PROVE FlusherInv'
  <2>1. UNCHANGED <<wbuf, flushing, werr, rec>> /\ pc[t] \notin Emitting
        /\ pc'[t] \in {"idle", "wLock"} /\ \A u \in Threads \ {t} : pc'[u] = pc[u]
    BY <1>1 DEF WriteCall, WriteRefused, Emitting
  <2> QED
    BY <2>1, FlusherKept DEF Emitting
<1>2. ASSUME NEW t \in Writers, WriteEnter(t) PROVE FlusherInv'
  <2>1. ~werr /\ UNCHANGED werr /\ pc[t] = "wLock"
    BY <1>2 DEF WriteEnter, Refused
  <2>2. CASE flushing
    <3>1. UNCHANGED <<flushing, rec>> /\ pc'[t] = "idle" /\ \A u \in Threads \ {t} : pc'[u] = pc[u]
      BY <1>2, <2>2 DEF WriteEnter, FlushSeen
    <3>2. RolesKept' /\ RecordsMatch'
      BY <2>1, <3>1 DEF RolesKept, RecordsMatch, Emitting
    <3>3. OneFlusher'
      BY <2>1, <3>1 DEF FlusherInv, OneFlusher, Emitting
    <3> QED
      BY <2>1, <2>2, <3>1, <3>2, <3>3 DEF FlusherInv, NothingStranded
  <2>3. CASE ~flushing
    <3>1. FlushTurn(t, wbuf \o NewBytes(t))
      BY <1>2, <2>3 DEF WriteEnter, FlushSeen
    <3> QED
      BY <2>1, <2>3, <3>1, EnterBuffer, FlusherNone, FlusherTurn
  <2> QED
    BY <2>2, <2>3
<1>3. ASSUME NEW t \in Writers, WriteResume(t) PROVE FlusherInv'
  <2>1. pc[t] \in Emitting
    BY <1>3 DEF WriteResume, Emitting
  <2>2. CASE pc[t] = "failed"
    <3>1. /\ flushing' = FALSE /\ werr' = TRUE /\ UNCHANGED wbuf
          /\ pc'[t] = "idle" /\ rec'[t].typ = "none"
          /\ \A u \in Threads \ {t} : pc'[u] = pc[u] /\ rec'[u] = rec[u]
      BY <1>3, <2>2 DEF WriteResume, NoRec
    <3>2. \A u \in Writers : pc'[u] \in {"idle", "wLock"} /\ rec'[u].typ = "none"
      BY <2>1, <3>1, FlusherOthers
    <3>3. RolesKept' /\ RecordsMatch' /\ OneFlusher'
      BY <3>1, <3>2 DEF RolesKept, RecordsMatch, OneFlusher, Emitting
    <3> QED
      BY <3>1, <3>3 DEF FlusherInv, NothingStranded
  <2>3. CASE pc[t] = "wrote"
    <3>1. FlushTurn(t, wbuf) /\ UNCHANGED werr
      BY <1>3, <2>3 DEF WriteResume
    <3> QED
      BY <2>1, <3>1, FlusherOthers, FlusherTurn
  <2> QED
    BY <1>3, <2>2, <2>3 DEF WriteResume
<1>4. ASSUME NEW t \in Threads, RecordStep(t) PROVE FlusherInv'
  <2>1. /\ UNCHANGED <<wbuf, flushing, werr>>
        /\ pc[t] \in Emitting /\ pc'[t] \in Emitting
        /\ \A u \in Threads \ {t} : pc'[u] = pc[u]
    BY <1>4 DEF RecordStep, LockWire, Seal, Advance, RawWriteOk, RawWriteFail, RawReturn, Emitting
  <2>2. \A u \in Threads : rec'[u].typ = rec[u].typ /\ rec'[u].payload = rec[u].payload
    <3>1. CASE Seal(t)
      BY <3>1, SealEffect
    <3>2. CASE ~Seal(t)
      BY <1>4, <3>2 DEF RecordStep, LockWire, Advance, RawWriteOk, RawWriteFail, RawReturn
    <3> QED
      BY <3>1, <3>2
  <2> QED
    BY <2>1, <2>2, FlusherKept DEF Emitting
<1>5. ASSUME NEW t \in Closers, CloseStep(t) PROVE FlusherInv'
  <2>1. /\ UNCHANGED <<wbuf, flushing, werr>>
        /\ \A u \in Threads \ {t} : pc'[u] = pc[u] /\ rec'[u] = rec[u]
    BY <1>5 DEF CloseStep, CloseCall, CloseOnceDone, CloseLock, CloseResume, RawClose
  <2>2. CASE CloseLock(t)
    <3>1. pc'[t] = "wireLock" /\ rec'[t].typ = "alert" /\ rec'[t].payload = <<>>
      BY <2>2 DEF CloseLock
    <3> QED
      BY <2>1, <3>1, FlusherKept DEF Emitting
  <2>3. CASE CloseResume(t)
    <3>1. pc'[t] = "rawClose" /\ rec'[t].typ = "none" /\ rec'[t].payload = <<>>
      BY <2>3 DEF CloseResume, NoRec
    <3> QED
      BY <2>1, <3>1, FlusherKept DEF Emitting
  <2>4. CASE CloseCall(t) \/ CloseOnceDone(t) \/ RawClose(t)
    <3>1. pc'[t] \in {"cLock", "once", "rawClose", "closed"} /\ rec'[t] = rec[t]
      BY <2>4 DEF CloseCall, CloseOnceDone, RawClose
    <3> QED
      BY <2>1, <3>1, FlusherKept DEF Emitting
  <2> QED
    BY <1>5, <2>2, <2>3, <2>4 DEF CloseStep
<1>6. ASSUME ReadStep \/ Reset \/ UNCHANGED vars PROVE FlusherInv'
  <2>1. UNCHANGED <<wbuf, flushing, werr, pc, rec>>
    BY <1>6 DEF ReadStep, ReadRecord, ReadEnd, ReadDeliver, Reset, vars, senderVars
  <2> QED
    BY <2>1, FlusherKept
<1> QED
  BY <1>1, <1>2, <1>3, <1>4, <1>5, <1>6 DEF Next, WriteStep, Terminated

(* Bytes that a Write left to another goroutine's flush are never left     *)
(* behind in wbuf: when the flush is over they are out, or Write fails.    *)
THEOREM BytesAreNotStranded == Spec => []NothingStranded
<1>1. TypeOK /\ FlusherInv /\ [Next]_vars => (TypeOK /\ FlusherInv)'
  BY TypeNext, FlusherNext
<1>2. Init => TypeOK /\ FlusherInv
  BY TypeInit, FlusherInit
<1>3. FlusherInv => NothingStranded
  BY DEF FlusherInv
<1> QED
  BY <1>1, <1>2, <1>3, PTL DEF Spec

(* After a data record failed nobody emits another one. *)
THEOREM FailureStopsData == Spec => []NoDataAfterFailure
<1>1. TypeOK /\ FlusherInv /\ [Next]_vars => (TypeOK /\ FlusherInv)'
  BY TypeNext, FlusherNext
<1>2. Init => TypeOK /\ FlusherInv
  BY TypeInit, FlusherInit
<1>3. FlusherInv => NoDataAfterFailure
  <2> SUFFICES ASSUME FlusherInv, werr, NEW t \in Threads PROVE rec[t].typ # "data"
    BY DEF NoDataAfterFailure
  <2>1. CASE t \in Writers
    BY <2>1, FlusherNone DEF FlusherInv
  <2>2. CASE t \in Closers
    BY <2>2 DEF FlusherInv, RecordsMatch
  <2> QED
    BY <2>1, <2>2 DEF Threads
<1> QED
  BY <1>1, <1>2, <1>3, PTL DEF Spec

-----------------------------------------------------------------------------
(* Proof of CloseInv *)

(* Nobody has closed a fresh Conn. *)
LEMMA CloseInit == Init => CloseInv
<1> SUFFICES ASSUME Init PROVE CloseInv
  OBVIOUS
<1>1. (\A t \in Closers : pc[t] = "idle") /\ Len(sealed) = 0 /\ once = "new" /\ sockOpen = TRUE
  BY EmptySeq DEF Init, Threads
<1>2. OnceInv
  BY <1>1, ThreadsAssumption DEF Init, OnceInv, Closing, Emitting, Threads
<1>3. AlertInv
  BY <1>1 DEF AlertInv, AlertAt, OneAlert, Emitting
<1> QED
  BY <1>2, <1>3 DEF CloseInv

(* A step in which no closer enters or leaves writeRecord. *)
LEMMA OnceKept ==
    ASSUME OnceInv, UNCHANGED <<once, wmu, sockOpen>>,
           \A u \in Closers : pc'[u] = pc[u] \/ (pc[u] \in Emitting /\ pc'[u] \in Emitting)
    PROVE  OnceInv'
BY DEF OnceInv, Closing, Emitting

(* A step that seals nothing and in which the closer seals nothing either. *)
LEMMA AlertKept ==
    ASSUME AlertInv, UNCHANGED <<sealed, once>>,
           \A u \in Closers : \/ pc'[u] = pc[u]
                              \/ pc[u] \in Unsealed /\ pc'[u] \in Unsealed
                              \/ pc[u] \in Emitting \ Unsealed /\ pc'[u] \in Emitting \ Unsealed
    PROVE  AlertInv'
BY DEF AlertInv, AlertAt, OneAlert, Emitting, Unsealed

(* A record is added to the ones that were sealed. *)
LEMMA SealedGrows ==
    ASSUME TypeOK, NEW t \in Threads, Seal(t)
    PROVE  /\ Len(sealed) \in Nat /\ Len(sealed') = Len(sealed) + 1
           /\ \A i \in 1..Len(sealed) : sealed'[i] = sealed[i]
           /\ sealed'[Len(sealed) + 1] = rec'[t]
           /\ \A i \in 1..Len(sealed') : i \in 1..Len(sealed) \/ i = Len(sealed) + 1
           /\ \A i \in 1..Len(sealed) : i \in 1..Len(sealed')
           /\ Len(sealed) + 1 \in 1..Len(sealed')
<1>1. sealed \in Seq(Records) /\ Len(sealed) \in Nat
  BY LenProperties DEF TypeOK, HistTypeOK
<1>2. rec'[t] \in Records
  BY SealEffect
<1>3. sealed' = Append(sealed, rec'[t])
  BY DEF Seal
<1>4. /\ Len(sealed') = Len(sealed) + 1
      /\ \A i \in 1..Len(sealed) : sealed'[i] = sealed[i]
      /\ sealed'[Len(sealed) + 1] = rec'[t]
  BY <1>1, <1>2, <1>3, AppendProperties
<1> QED
  BY <1>1, <1>4

(* Every step keeps closeOnce and the single alert: one step per action.   *)
LEMMA CloseNext == TypeOK /\ FlusherInv /\ CloseInv /\ [Next]_vars => CloseInv'
<1> SUFFICES ASSUME TypeOK, FlusherInv, CloseInv, [Next]_vars PROVE CloseInv'
  OBVIOUS
<1>a. /\ pc \in [Threads -> PCs] /\ rec \in [Threads -> Records]
      /\ Writers \subseteq Threads /\ Closers \subseteq Threads
      /\ once \in {"new", "running", "done"}
  BY DEF TypeOK, LocksTypeOK, RecordTypeOK, Threads
<1>b. OnceInv /\ AlertInv
  BY DEF CloseInv
<1>c. \A t \in Writers : \A u \in Closers : t # u
  BY ThreadsAssumption
<1> USE <1>a, <1>b, <1>c
<1>1. ASSUME UNCHANGED <<once, wmu, sockOpen, sealed>>, \A u \in Closers : pc'[u] = pc[u]
      PROVE  CloseInv'
  BY <1>1, OnceKept, AlertKept DEF CloseInv
<1>2. ASSUME NEW t \in Writers, WriteStep(t) PROVE CloseInv'
  <2>1. UNCHANGED <<once, wmu, sockOpen, sealed>>
    BY <1>2 DEF WriteStep, WriteCall, WriteRefused, WriteEnter, WriteResume, netVars, histVars
  <2>2. \A u \in Closers : pc'[u] = pc[u]
    BY <1>2 DEF WriteStep, WriteCall, WriteRefused, WriteEnter, WriteResume, FlushTurn
  <2> QED
    BY <1>1, <2>1, <2>2
<1>3. ASSUME NEW t \in Threads, Seal(t) PROVE CloseInv'
  <2>1. /\ UNCHANGED <<once, wmu, sockOpen>>
        /\ pc[t] = "seal" /\ pc'[t] = "advance" /\ \A u \in Threads \ {t} : pc'[u] = pc[u]
    BY <1>3, SealEffect DEF Seal, netVars
  <2>2. OnceInv'
    BY <2>1, OnceKept DEF Emitting
  <2>3. rec'[t].typ = rec[t].typ /\ rec'[t].payload = rec[t].payload
    BY <1>3, SealEffect
  <2>4. CASE t \in Writers
    <3>1. rec'[t].typ = "data"
      BY <2>1, <2>3, <2>4 DEF FlusherInv, RecordsMatch, Emitting
    <3>2. \A u \in Closers : pc'[u] = pc[u]
      BY <2>1, <2>4
    <3>3. \A i \in 1..Len(sealed') : AlertAt(i)' <=> i \in 1..Len(sealed) /\ AlertAt(i)
      BY <1>3, <3>1, SealedGrows DEF AlertAt
    <3>4. \A i \in 1..Len(sealed) : AlertAt(i) => AlertAt(i)'
      BY <1>3, SealedGrows DEF AlertAt
    <3>5. OneAlert'
      BY <3>3 DEF AlertInv, OneAlert, AlertAt
    <3>6. \A i \in 1..Len(sealed') : /\ sealed'[i].typ \in {"data", "alert"}
                                     /\ sealed'[i].typ = "alert" => sealed'[i].payload = <<>>
      BY <1>3, <3>1, SealedGrows DEF AlertInv
    <3>7. \A i \in 1..Len(sealed) : i \in 1..Len(sealed')
      BY <1>3, SealedGrows
    <3>8. (\E i \in 1..Len(sealed) : AlertAt(i)) => \E i \in 1..Len(sealed') : AlertAt(i)'
      BY <3>4, <3>7
    <3> QED
      BY <2>1, <2>2, <3>2, <3>3, <3>5, <3>6, <3>8 DEF AlertInv, CloseInv
  <2>5. CASE t \in Closers
    <3>1. rec'[t].typ = "alert" /\ rec'[t].payload = <<>>
      BY <2>1, <2>3, <2>5 DEF FlusherInv, RecordsMatch, Emitting
    <3>2. \A i \in 1..Len(sealed) : ~AlertAt(i)
      BY <2>1, <2>5 DEF AlertInv, Unsealed
    <3>3. \A i \in 1..Len(sealed') : AlertAt(i)' <=> i = Len(sealed) + 1
      BY <1>3, <3>1, <3>2, SealedGrows DEF AlertAt
    <3>4. OneAlert'
      BY <3>3 DEF OneAlert, AlertAt
    <3>5. \A i \in 1..Len(sealed') : /\ sealed'[i].typ \in {"data", "alert"}
                                     /\ sealed'[i].typ = "alert" => sealed'[i].payload = <<>>
      BY <1>3, <3>1, SealedGrows DEF AlertInv
    <3>6. \E i \in 1..Len(sealed') : AlertAt(i)'
      BY <1>3, <3>3, SealedGrows
    <3>7. once = "running" /\ \A u \in Closers : pc'[u] \notin {"cLock"} \cup Unsealed
      BY <2>1, <2>5 DEF OnceInv, Closing, Emitting, Unsealed
    <3> QED
      BY <2>1, <2>2, <3>4, <3>5, <3>6, <3>7 DEF AlertInv, CloseInv
  <2> QED
    BY <2>4, <2>5 DEF Threads
<1>4. ASSUME NEW t \in Threads, LockWire(t) \/ Advance(t) \/ RawWriteOk(t) \/ RawWriteFail(t)
      PROVE  CloseInv'
  <2>1. /\ UNCHANGED <<once, wmu, sockOpen, sealed>>
        /\ \/ pc[t] = "wireLock" /\ pc'[t] = "seal"
           \/ pc[t] = "advance" /\ pc'[t] = "raw"
           \/ pc[t] = "raw" /\ pc'[t] \in {"wrote", "failed"}
        /\ \A u \in Threads \ {t} : pc'[u] = pc[u]
    BY <1>4 DEF LockWire, Advance, RawWriteOk, RawWriteFail, RawReturn, netVars, histVars
  <2> QED
    BY <2>1, OnceKept, AlertKept DEF CloseInv, Emitting, Unsealed
<1>5. ASSUME NEW t \in Closers, CloseCall(t) PROVE CloseInv'
  <2>1. /\ UNCHANGED <<wmu, sockOpen, sealed>> /\ pc[t] = "idle"
        /\ \A u \in Threads \ {t} : pc'[u] = pc[u]
        /\ \/ once = "new" /\ once' = "running" /\ pc'[t] = "cLock"
           \/ once = "running" /\ once' = once /\ pc'[t] = "once"
           \/ once = "done" /\ once' = once /\ pc'[t] = "rawClose"
    BY <1>5 DEF CloseCall, OnceFirst, netVars
  <2>2. OnceInv'
    BY <2>1 DEF OnceInv, Closing, Emitting
  <2>3. AlertInv'
    BY <2>1 DEF AlertInv, AlertAt, OneAlert, Emitting, Unsealed
  <2> QED
    BY <2>2, <2>3 DEF CloseInv
<1>6. ASSUME NEW t \in Closers, CloseOnceDone(t) \/ RawClose(t) PROVE CloseInv'
  <2>1. /\ UNCHANGED <<wmu, once, sealed>> /\ pc[t] \in {"once", "rawClose"}
        /\ \A u \in Threads \ {t} : pc'[u] = pc[u]
        /\ pc'[t] \in {"rawClose", "closed"} /\ (pc[t] = "once" => once = "done")
        /\ sockOpen' = sockOpen \/ pc[t] = "rawClose"
    BY <1>6 DEF CloseOnceDone, RawClose, netVars, histVars
  <2>2. OnceInv'
    BY <2>1 DEF OnceInv, Closing, Emitting
  <2>3. AlertInv'
    BY <2>1 DEF AlertInv, AlertAt, OneAlert, Emitting, Unsealed
  <2> QED
    BY <2>2, <2>3 DEF CloseInv
<1>7. ASSUME NEW t \in Closers, CloseLock(t) PROVE CloseInv'
  <2>1. /\ UNCHANGED <<once, sockOpen, sealed>> /\ pc[t] = "cLock" /\ pc'[t] = "wireLock"
        /\ \A u \in Threads \ {t} : pc'[u] = pc[u]
        /\ wmu' = t
    BY <1>7 DEF CloseLock, WmuFree, netVars
  <2>2. OnceInv'
    BY <2>1 DEF OnceInv, Closing, Emitting
  <2>3. AlertInv'
    BY <2>1 DEF AlertInv, AlertAt, OneAlert, Emitting, Unsealed
  <2> QED
    BY <2>2, <2>3 DEF CloseInv
<1>8. ASSUME NEW t \in Closers, CloseResume(t) PROVE CloseInv'
  <2>1. /\ UNCHANGED <<sockOpen, sealed>> /\ pc[t] \in {"wrote", "failed"} /\ pc'[t] = "rawClose"
        /\ \A u \in Threads \ {t} : pc'[u] = pc[u]
        /\ wmu' = NoThread /\ once' = "done"
    BY <1>8 DEF CloseResume, netVars, histVars
  <2>2. OnceInv'
    BY <2>1, ThreadsAssumption DEF OnceInv, Closing, Emitting
  <2>3. AlertInv'
    BY <2>1 DEF AlertInv, AlertAt, OneAlert, Emitting, Unsealed
  <2> QED
    BY <2>2, <2>3 DEF CloseInv
<1>9. ASSUME ReadStep \/ Reset \/ UNCHANGED vars PROVE CloseInv'
  <2>1. UNCHANGED <<once, wmu, sockOpen, sealed, pc>>
    BY <1>9 DEF ReadStep, ReadRecord, ReadEnd, ReadDeliver, Reset, vars, senderVars, netVars, histVars
  <2> QED
    BY <1>1, <2>1
<1> QED
  BY <1>2, <1>3, <1>4, <1>5, <1>6, <1>7, <1>8, <1>9 DEF Next, RecordStep, CloseStep, Terminated

(* With any number of goroutines in Close, one close_notify at most. *)
THEOREM OnlyOneAlert == Spec => []OneAlert
<1>1. TypeOK /\ FlusherInv /\ CloseInv /\ [Next]_vars => (TypeOK /\ FlusherInv /\ CloseInv)'
  BY TypeNext, FlusherNext, CloseNext
<1>2. Init => TypeOK /\ FlusherInv /\ CloseInv
  BY TypeInit, FlusherInit, CloseInit
<1>3. CloseInv => OneAlert
  BY DEF CloseInv, AlertInv
<1> QED
  BY <1>1, <1>2, <1>3, PTL DEF Spec

-----------------------------------------------------------------------------
(* Proof of StreamInv *)

(* Both ends of a sequence cut after its n-th element. *)
LEMMA CutEnds ==
    ASSUME NEW S, NEW s \in Seq(S), NEW n \in 1..Len(s)
    PROVE  /\ Len(SubSeq(s, 1, n)) = n
           /\ \A k \in 1..n : SubSeq(s, 1, n)[k] = s[k]
           /\ Len(SubSeq(s, n + 1, Len(s))) = Len(s) - n
           /\ \A k \in 1..(Len(s) - n) : SubSeq(s, n + 1, Len(s))[k] = s[n + k]
           /\ SubSeq(s, 1, n) \in Seq(S) /\ SubSeq(s, n + 1, Len(s)) \in Seq(S)
<1>1. Len(s) \in Nat /\ \A i \in 1..Len(s) : s[i] \in S
  BY LenProperties, ElementOfSeq
<1>2. /\ Len(SubSeq(s, 1, n)) = n
      /\ \A k \in 1..n : SubSeq(s, 1, n)[k] = s[k]
      /\ SubSeq(s, 1, n) \in Seq(S)
  <2>1. \A i \in 1..n : s[i] \in S
    BY <1>1
  <2> QED
    BY <1>1, <2>1, SubSeqProperties
<1>3. /\ Len(SubSeq(s, n + 1, Len(s))) = Len(s) - n
      /\ \A k \in 1..(Len(s) - n) : SubSeq(s, n + 1, Len(s))[k] = s[n + k]
      /\ SubSeq(s, n + 1, Len(s)) \in Seq(S)
  <2>1. \A i \in (n + 1)..Len(s) : s[i] \in S
    BY <1>1
  <2>2. n + 1 \in Int /\ Len(s) \in Int
    BY <1>1
  <2>3. /\ Len(SubSeq(s, n + 1, Len(s))) = IF n + 1 <= Len(s) THEN Len(s) - (n + 1) + 1 ELSE 0
        /\ \A k \in 1..(Len(s) - (n + 1) + 1) : SubSeq(s, n + 1, Len(s))[k] = s[(n + 1) + k - 1]
        /\ SubSeq(s, n + 1, Len(s)) \in Seq(S)
    BY <2>1, <2>2, SubSeqProperties
  <2>4. Len(SubSeq(s, n + 1, Len(s))) = Len(s) - n
    BY <1>1, <2>3
  <2>5. ASSUME NEW k \in 1..(Len(s) - n) PROVE SubSeq(s, n + 1, Len(s))[k] = s[n + k]
    <3>1. k \in 1..(Len(s) - (n + 1) + 1) /\ (n + 1) + k - 1 = n + k
      BY <1>1
    <3> QED
      BY <2>3, <3>1, Zenon
  <2> QED
    BY <2>3, <2>4, <2>5
<1> QED
  BY <1>2, <1>3

(* The types the stream's arithmetic rests on. *)
LEMMA StreamTypes ==
    ASSUME TypeOK
    PROVE  /\ Len(sealed) \in Nat /\ Len(wbuf) \in Nat /\ Len(wire) \in Nat
           /\ Len(delivered) \in Nat /\ Len(pending) \in Nat
           /\ accepted \in Nat /\ recvSeq \in Nat /\ rpos \in Nat /\ closeAt \in Nat
           /\ \A u \in Threads : rec[u].payload \in Seq(Nat) /\ Len(rec[u].payload) \in Nat
           /\ \A i \in 1..Len(sealed) : sealed[i] \in Records /\ Len(sealed[i].payload) \in Nat
           /\ \A i \in 1..Len(wire) : wire[i] \in WireRecords
<1>1. \A u \in Threads : rec[u].payload \in Seq(Nat)
  BY DEF TypeOK, RecordTypeOK, Records
<1>2. \A i \in 1..Len(sealed) : sealed[i] \in Records
  BY ElementOfSeq DEF TypeOK, HistTypeOK
<1>3. \A i \in 1..Len(sealed) : sealed[i].payload \in Seq(Nat)
  BY <1>2 DEF Records
<1>4. \A i \in 1..Len(wire) : wire[i] \in WireRecords
  BY ElementOfSeq DEF TypeOK, NetTypeOK
<1>5. /\ \A u \in Threads : Len(rec[u].payload) \in Nat
      /\ \A i \in 1..Len(sealed) : Len(sealed[i].payload) \in Nat
  BY <1>1, <1>3, LenProperties
<1> QED
  BY <1>1, <1>2, <1>4, <1>5, LenProperties
  DEF TypeOK, BufferTypeOK, NetTypeOK, ReaderTypeOK, HistTypeOK

(* Steps that do not touch one of the parts. *)
LEMMA SealedKept ==
    ASSUME NEW pos \in [Nat -> Nat], SealedInOrder(pos), UNCHANGED sealed
    PROVE  SealedInOrder(pos)'
BY DEF SealedInOrder

(* A step that seals nothing keeps the bytes that wait in their order. *)
LEMMA RestKept ==
    ASSUME NEW pos \in [Nat -> Nat], RestInOrder(pos), UNCHANGED <<sealed, wbuf, accepted>>,
           \A u \in Writers : /\ pc[u] \in Unsealed <=> pc'[u] \in Unsealed
                              /\ pc[u] \in Unsealed => rec'[u].payload = rec[u].payload
    PROVE  RestInOrder(pos)'
<1>1. ((\A t \in Writers : pc[t] \notin Unsealed) => pos[Len(sealed)] + Len(wbuf) = accepted)'
  BY DEF RestInOrder
<1>2. (\A k \in 1..Len(wbuf) : wbuf[k] = accepted - Len(wbuf) + k)'
  BY DEF RestInOrder
<1>3. ASSUME NEW t \in Writers, pc'[t] \in Unsealed
      PROVE  /\ pos[Len(sealed')] + Len(rec'[t].payload) + Len(wbuf') = accepted'
             /\ \A k \in 1..Len(rec'[t].payload) : rec'[t].payload[k] = pos[Len(sealed')] + k
  BY <1>3, Zenon DEF RestInOrder
<1> QED
  BY <1>1, <1>2, <1>3 DEF RestInOrder

(* A step that sends nothing keeps the wire. *)
LEMMA WireKept ==
    ASSUME WireIsSealed, UNCHANGED <<sealed, wire>>,
           \A u \in Threads : pc'[u] \in {"advance", "raw"} =>
                                  pc[u] \in {"advance", "raw"} /\ rec'[u] = rec[u]
    PROVE  WireIsSealed'
BY DEF WireIsSealed

(* A step of the sender keeps what was read. *)
LEMMA ReadKept ==
    ASSUME NEW pos \in [Nat -> Nat], ReadInOrder(pos), UNCHANGED sealed, UNCHANGED readerVars
    PROVE  ReadInOrder(pos)'
BY DEF ReadInOrder, readerVars

(* One turn of the flush loop over everything that is not sealed yet. *)
LEMMA RestTurn ==
    ASSUME TypeOK, NEW pos \in [Nat -> Nat], NEW t \in Writers, NEW buf \in Seq(Nat),
           FlushTurn(t, buf), UNCHANGED sealed, accepted' \in Nat,
           pos[Len(sealed)] + Len(buf) = accepted',
           \A k \in 1..Len(buf) : buf[k] = accepted' - Len(buf) + k,
           \A u \in Writers \ {t} : pc[u] \notin Unsealed
    PROVE  RestInOrder(pos)'
<1>1. Writers \subseteq Threads
  BY DEF Threads
<1>2. Len(sealed) \in Nat /\ pos[Len(sealed)] \in Nat /\ Len(buf) \in Nat
  BY StreamTypes, LenProperties
<1>3. \A u \in Writers \ {t} : pc'[u] \notin Unsealed
  BY <1>1, FlushTurnEffect
<1>4. CASE /\ buf = <<>> /\ wbuf' = buf /\ pc'[t] = "idle"
  <2>1. Len(wbuf') = Len(buf) /\ \A k \in 1..Len(buf) : wbuf'[k] = buf[k]
    BY <1>4
  <2> QED
    BY <1>2, <1>3, <1>4, <2>1 DEF RestInOrder, Unsealed
<1>5. ASSUME NEW n \in 1..Len(buf), pc'[t] = "wireLock",
             rec'[t].payload = SubSeq(buf, 1, n), wbuf' = SubSeq(buf, n + 1, Len(buf))
      PROVE  RestInOrder(pos)'
  <2>0. /\ Len(rec'[t].payload) = n
        /\ \A k \in 1..n : rec'[t].payload[k] = buf[k]
        /\ Len(wbuf') = Len(buf) - n
        /\ \A k \in 1..(Len(buf) - n) : wbuf'[k] = buf[n + k]
        /\ rec'[t].payload \in Seq(Nat) /\ wbuf' \in Seq(Nat)
    <3>1. /\ Len(SubSeq(buf, 1, n)) = n
          /\ \A k \in 1..n : SubSeq(buf, 1, n)[k] = buf[k]
          /\ Len(SubSeq(buf, n + 1, Len(buf))) = Len(buf) - n
          /\ \A k \in 1..(Len(buf) - n) : SubSeq(buf, n + 1, Len(buf))[k] = buf[n + k]
          /\ SubSeq(buf, 1, n) \in Seq(Nat) /\ SubSeq(buf, n + 1, Len(buf)) \in Seq(Nat)
      BY CutEnds
    <3> QED
      BY <1>5, <3>1, Zenon
  <2>1. /\ pos[Len(sealed)] + n + (Len(buf) - n) = accepted'
        /\ \A k \in 1..n : k \in 1..Len(buf) /\ accepted' - Len(buf) + k = pos[Len(sealed)] + k
        /\ \A k \in 1..(Len(buf) - n) : /\ n + k \in 1..Len(buf)
                                         /\ accepted' - Len(buf) + (n + k) = accepted' - (Len(buf) - n) + k
    <3> DEFINE l == Len(buf)
               base == pos[Len(sealed)]
               acc == accepted'
    <3>1. l \in Nat /\ base \in Nat /\ acc \in Nat /\ base + l = acc /\ n \in 1..l
      BY <1>2
    <3> HIDE DEF l, base, acc
    <3>2. /\ base + n + (l - n) = acc
          /\ \A k \in 1..n : k \in 1..l /\ acc - l + k = base + k
          /\ \A k \in 1..(l - n) : n + k \in 1..l /\ acc - l + (n + k) = acc - (l - n) + k
      <4>1. base + n + (l - n) = acc
        BY ONLY <3>1
      <4>2. \A k \in 1..n : k \in 1..l /\ acc - l + k = base + k
        BY ONLY <3>1
      <4>3. \A k \in 1..(l - n) : n + k \in 1..l /\ acc - l + (n + k) = acc - (l - n) + k
        BY ONLY <3>1
      <4> QED
        BY ONLY <4>1, <4>2, <4>3
    <3> QED
      BY <3>2, Zenon DEF l, base, acc
  <2>2. pos[Len(sealed)] + Len(rec'[t].payload) + Len(wbuf') = accepted'
    BY <2>0, <2>1, Zenon
  <2>3. \A k \in 1..Len(rec'[t].payload) : rec'[t].payload[k] = pos[Len(sealed)] + k
    BY <2>0, <2>1, Zenon
  <2>4. \A k \in 1..Len(wbuf') : wbuf'[k] = accepted' - Len(wbuf') + k
    <3> SUFFICES ASSUME NEW k \in 1..(Len(buf) - n) PROVE wbuf'[k] = accepted' - (Len(buf) - n) + k
      BY <2>0, Zenon
    <3>1. wbuf'[k] = buf[n + k] /\ n + k \in 1..Len(buf)
      BY <2>0, <2>1, Zenon
    <3>2. buf[n + k] = accepted' - Len(buf) + (n + k)
      BY <3>1, Zenon
    <3> QED
      BY <2>1, <3>1, <3>2, Zenon
  <2>5. pc'[t] \in Unsealed
    BY <1>5 DEF Unsealed
  <2>6. \A u \in Writers : pc'[u] \in Unsealed => u = t
    BY <1>3
  <2> QED
    BY <2>2, <2>3, <2>4, <2>5, <2>6, Zenon DEF RestInOrder
<1> QED
  BY <1>4, <1>5, FlushTurnEffect

(* Positions in the last n bytes of a stream of acc and m more behind.     *)
LEMMA AppendPositions ==
    ASSUME NEW n \in Nat, NEW acc \in Nat, NEW m \in Nat, NEW k \in 1..(n + m)
    PROVE  /\ (acc + m) - (n + m) + k = acc - n + k
           /\ \/ k \in 1..n
              \/ k - n \in 1..m /\ n + (k - n) = k /\ acc + (k - n) = acc - n + k
OBVIOUS

(* The buffer with the bytes of one Write behind it. *)
LEMMA EnterBytes ==
    ASSUME TypeOK, NEW t \in Writers
    PROVE  /\ size[t] \in Nat
           /\ Len(wbuf \o NewBytes(t)) = Len(wbuf) + size[t]
           /\ \A k \in 1..Len(wbuf) : (wbuf \o NewBytes(t))[k] = wbuf[k]
           /\ \A k \in 1..size[t] : (wbuf \o NewBytes(t))[Len(wbuf) + k] = accepted + k
<1> DEFINE new == NewBytes(t)
           m == size[t]
           n == Len(wbuf)
<1>1. wbuf \in Seq(Nat) /\ n \in Nat /\ m \in Nat /\ new \in Seq(Nat) /\ Len(new) = m
  BY NewBytesLemma, StreamTypes DEF TypeOK, BufferTypeOK, CallsTypeOK
<1>2. \A i \in 1..m : new[i] = accepted + i
  BY DEF NewBytes
<1>3. /\ Len(wbuf \o new) = n + Len(new)
      /\ \A i \in 1..(n + Len(new)) : (wbuf \o new)[i] = IF i <= n THEN wbuf[i] ELSE new[i - n]
  <2> HIDE DEF new
  <2> QED
    BY <1>1, ConcatProperties
<1> HIDE DEF new, m, n
<1>4. /\ Len(wbuf \o new) = n + m
      /\ \A i \in 1..(n + m) : (wbuf \o new)[i] = IF i <= n THEN wbuf[i] ELSE new[i - n]
  BY <1>1, <1>3, Zenon
<1>5. ASSUME NEW k \in 1..n PROVE (wbuf \o new)[k] = wbuf[k]
  <2>1. k \in 1..(n + m) /\ k <= n
    BY <1>1
  <2> QED
    BY <1>4, <2>1, Zenon
<1>6. ASSUME NEW k \in 1..m PROVE (wbuf \o new)[n + k] = accepted + k
  <2>1. n + k \in 1..(n + m) /\ ~(n + k <= n) /\ (n + k) - n = k
    BY <1>1
  <2> QED
    BY <1>2, <1>4, <2>1, Zenon
<1> QED
  BY <1>1, <1>4, <1>5, <1>6, Zenon DEF new, m, n

(* A Write that finds a flush in progress adds its m bytes behind the      *)
(* rest.                                                                   *)
LEMMA RestAppend ==
    ASSUME TypeOK, NEW pos \in [Nat -> Nat], RestInOrder(pos), NEW m \in Nat,
           sealed' = sealed, rec' = rec, accepted' = accepted + m,
           Len(wbuf') = Len(wbuf) + m,
           \A k \in 1..Len(wbuf) : wbuf'[k] = wbuf[k],
           \A k \in 1..m : wbuf'[Len(wbuf) + k] = accepted + k,
           \A u \in Writers : pc[u] \in Unsealed <=> pc'[u] \in Unsealed
    PROVE  RestInOrder(pos)'
<1> DEFINE n == Len(wbuf)
           acc == accepted
           base == pos[Len(sealed)]
<1>1. /\ n \in Nat /\ acc \in Nat /\ base \in Nat
      /\ \A u \in Writers : Len(rec[u].payload) \in Nat
  BY StreamTypes DEF Threads
<1>2. /\ (\A u \in Writers : pc[u] \notin Unsealed) => base + n = acc
      /\ \A u \in Writers : pc[u] \in Unsealed =>
             /\ base + Len(rec[u].payload) + n = acc
             /\ \A k \in 1..Len(rec[u].payload) : rec[u].payload[k] = base + k
      /\ \A k \in 1..n : wbuf[k] = acc - n + k
  BY Zenon DEF RestInOrder
<1>3. /\ base' = base /\ acc' = acc + m /\ n' = n + m
      /\ \A k \in 1..n : wbuf'[k] = wbuf[k]
      /\ \A k \in 1..m : wbuf'[n + k] = acc + k
  BY Zenon
<1> HIDE DEF n, acc, base
<1>4. \A k \in 1..(n + m) : wbuf'[k] = (acc + m) - (n + m) + k
  <2>1. \A k \in 1..n : wbuf[k] = acc - n + k
    BY <1>2
  <2>2. \A k \in 1..n : wbuf'[k] = wbuf[k]
    BY <1>3
  <2>3. \A k \in 1..m : wbuf'[n + k] = acc + k
    BY <1>3
  <2>4. n \in Nat /\ acc \in Nat /\ m \in Nat
    BY <1>1
  <2> SUFFICES ASSUME NEW k \in 1..(n + m) PROVE wbuf'[k] = (acc + m) - (n + m) + k
    OBVIOUS
  <2>5. /\ (acc + m) - (n + m) + k = acc - n + k
        /\ \/ k \in 1..n
           \/ k - n \in 1..m /\ n + (k - n) = k /\ acc + (k - n) = acc - n + k
    BY ONLY <2>4, k \in 1..(n + m), AppendPositions
  <2> QED
    BY <2>1, <2>2, <2>3, <2>5, Zenon
<1>5. base + n = acc => base + (n + m) = acc + m
  BY <1>1
<1>6. ASSUME NEW u \in Writers, pc[u] \in Unsealed
      PROVE  /\ base + Len(rec[u].payload) + (n + m) = acc + m
             /\ \A k \in 1..Len(rec[u].payload) : rec[u].payload[k] = base + k
  <2>1. /\ base + Len(rec[u].payload) + n = acc
        /\ \A k \in 1..Len(rec[u].payload) : rec[u].payload[k] = base + k
    BY <1>2, <1>6
  <2> DEFINE l == Len(rec[u].payload)
  <2>2. l \in Nat /\ base + l + n = acc
    BY <1>1, <2>1
  <2> HIDE DEF l
  <2>3. base + l + (n + m) = acc + m
    BY ONLY <1>1, <2>2, m \in Nat
  <2> QED
    BY <2>1, <2>3, Zenon DEF l
<1>7. /\ (\A u \in Writers : pc'[u] \notin Unsealed) => base' + n' = acc'
      /\ \A u \in Writers : pc'[u] \in Unsealed =>
             /\ base' + Len(rec'[u].payload) + n' = acc'
             /\ \A k \in 1..Len(rec'[u].payload) : rec'[u].payload[k] = base' + k
      /\ \A k \in 1..n' : wbuf'[k] = acc' - n' + k
  BY <1>2, <1>3, <1>4, <1>5, <1>6, Zenon
<1> QED
  BY <1>7, Zenon DEF RestInOrder, n, acc, base

(* One place more. *)
LEMMA PositionsExtend ==
    ASSUME NEW pos \in [Nat -> Nat], NEW n \in Nat, NEW l \in Nat
    PROVE  \E q \in [Nat -> Nat] : q[n + 1] = pos[n] + l /\ \A i \in 0..n : q[i] = pos[i]
<1> DEFINE q == [pos EXCEPT ![n + 1] = pos[n] + l]
<1>1. q \in [Nat -> Nat] /\ q[n + 1] = pos[n] + l
  OBVIOUS
<1>2. \A i \in 0..n : q[i] = pos[i]
  OBVIOUS
<1> QED
  BY <1>1, <1>2

(* Sealing the record in hand extends pos by one place. *)
LEMMA StreamSeal ==
    ASSUME TypeOK, SequenceInv, FlusherInv, NEW pos \in [Nat -> Nat], StreamAt(pos),
           NEW t \in Threads, Seal(t)
    PROVE  \E q \in [Nat -> Nat] : StreamAt(q)' /\ \A i \in 0..Len(sealed) : q[i] = pos[i]
<1>a. Writers \subseteq Threads /\ Closers \subseteq Threads
  BY DEF Threads
<1> DEFINE n == Len(sealed)
           l == Len(rec[t].payload)
<1>b. /\ n \in Nat /\ l \in Nat /\ recvSeq \in Nat /\ sendSeq \in Nat
      /\ \A i \in 1..Len(wire) : wire[i].seq \in Nat
  BY StreamTypes DEF TypeOK, RecordTypeOK, WireRecords
<1>c. /\ wbuf' = wbuf /\ accepted' = accepted /\ wire' = wire
      /\ recvSeq' = recvSeq /\ delivered' = delivered /\ pending' = pending /\ rerr' = rerr
  BY DEF Seal, netVars, readerVars
<1>2. /\ Len(sealed') = n + 1
      /\ \A i \in 1..n : sealed'[i] = sealed[i]
      /\ sealed'[n + 1] = rec'[t]
  BY SealedGrows
<1>3. /\ rec'[t].payload = rec[t].payload /\ rec'[t].seq = sendSeq
      /\ pc[t] = "seal" /\ pc'[t] = "advance"
      /\ \A u \in Threads \ {t} : rec'[u] = rec[u] /\ pc'[u] = pc[u]
  BY SealEffect
<1>4. /\ pos[0] = 0
      /\ \A i \in 1..n : pos[i] = pos[i - 1] + Len(sealed[i].payload)
      /\ \A i, j \in 0..n : i <= j => pos[i] <= pos[j]
      /\ \A i \in 1..n : \A k \in 1..Len(sealed[i].payload) : sealed[i].payload[k] = pos[i - 1] + k
      /\ recvSeq <= n /\ Len(delivered) + Len(pending) = pos[recvSeq]
  BY DEF StreamAt, SealedInOrder, ReadInOrder
<1>5. \A k \in 1..l : rec[t].payload[k] = pos[n] + k
  <2>1. CASE t \in Writers
    BY <1>3, <2>1 DEF StreamAt, RestInOrder, Unsealed
  <2>2. CASE t \in Closers
    <3>1. l = 0
      BY <2>2, EmptySeq DEF FlusherInv, RecordsMatch
    <3> QED
      BY <3>1
  <2> QED
    BY <2>1, <2>2 DEF Threads
<1>6. n = Len(sealed) /\ l = Len(rec[t].payload)
  OBVIOUS
<1>n. n \in Nat
  BY <1>b
<1> HIDE DEF n, l
<1>7. PICK q \in [Nat -> Nat] : q[n + 1] = pos[n] + l /\ \A i \in 0..n : q[i] = pos[i]
  BY <1>b, PositionsExtend
<1>8. SealedInOrder(q)'
  <2>1. q[0] = 0
    BY <1>4, <1>7, <1>b
  <2>2. ASSUME NEW i \in 1..(n + 1) PROVE q[i] = q[i - 1] + Len(sealed'[i].payload)
    <3>1. CASE i \in 1..n
      <4>1. i - 1 \in 0..n /\ i \in 0..n
        BY <1>b, <3>1
      <4> QED
        BY <1>2, <1>4, <1>7, <3>1, <4>1, Zenon
    <3>2. CASE i = n + 1
      <4>1. i - 1 = n /\ n \in 0..n
        BY <1>b, <3>2
      <4>2. q[n + 1] = q[n] + l
        BY <1>7, <4>1, Zenon
      <4> QED
        BY <1>2, <1>3, <1>6, <3>2, <4>1, <4>2, Zenon
    <3>3. i \in 1..n \/ i = n + 1
      BY ONLY <1>b, i \in 1..(n + 1)
    <3> QED
      BY <3>1, <3>2, <3>3
  <2>3. ASSUME NEW i \in 0..(n + 1), NEW j \in 0..(n + 1), i <= j PROVE q[i] <= q[j]
    <3>1. \A m \in 0..n : q[m] = pos[m] /\ pos[m] \in Nat /\ pos[m] <= pos[n]
      <4>1. n \in 0..n /\ \A m \in 0..n : m \in Nat /\ m <= n
        BY ONLY <1>b
      <4>2. \A m \in 0..n : pos[m] \in Nat
        BY <4>1
      <4> QED
        BY <1>4, <1>7, <4>1, <4>2, Zenon
    <3>2. (i \in 0..n \/ i = n + 1) /\ (j \in 0..n \/ j = n + 1) /\ (j \in 0..n => i \in 0..n)
      BY ONLY <1>b, <2>3, i \in 0..(n + 1), j \in 0..(n + 1)
    <3>3. CASE j \in 0..n
      BY <1>4, <2>3, <3>1, <3>2, <3>3, Zenon
    <3>4. CASE j = n + 1 /\ i \in 0..n
      <4>1. q[i] = pos[i] /\ pos[i] \in Nat /\ pos[i] <= pos[n] /\ pos[n] \in Nat
        BY <1>b, <3>1, <3>4
      <4>2. q[j] = pos[n] + l
        BY <1>7, <3>4, Zenon
      <4>3. pos[i] <= pos[n] + l
        BY ONLY <1>b, <4>1
      <4> QED
        BY <4>1, <4>2, <4>3, Zenon
    <3>5. CASE j = n + 1 /\ i = n + 1
      <4>1. q[n + 1] \in Nat
        BY <1>b
      <4>2. q[n + 1] <= q[n + 1]
        BY ONLY <4>1
      <4> QED
        BY <3>5, <4>2, Zenon
    <3> QED
      BY <3>2, <3>3, <3>4, <3>5
  <2>4. ASSUME NEW i \in 1..(n + 1), NEW k \in 1..Len(sealed'[i].payload)
        PROVE  sealed'[i].payload[k] = q[i - 1] + k
    <3>1. CASE i \in 1..n
      <4>1. i - 1 \in 0..n
        BY <1>b, <3>1
      <4>2. sealed'[i] = sealed[i]
        BY <1>2, <3>1
      <4>3. k \in 1..Len(sealed[i].payload)
        BY <4>2, Zenon
      <4>4. sealed[i].payload[k] = pos[i - 1] + k
        BY <1>4, <3>1, <4>3, Zenon
      <4> QED
        BY <1>7, <4>1, <4>2, <4>4, Zenon
    <3>2. CASE i = n + 1
      <4>1. i - 1 = n /\ n \in 0..n
        BY ONLY <1>n, <3>2
      <4>2. sealed'[i].payload = rec[t].payload
        BY <1>2, <1>3, <3>2, Zenon
      <4>3. k \in 1..l
        BY <1>6, <4>2, Zenon
      <4> QED
        BY <1>5, <1>7, <4>1, <4>2, <4>3, Zenon
    <3>3. i \in 1..n \/ i = n + 1
      BY ONLY <1>n, i \in 1..(n + 1)
    <3> QED
      BY <3>1, <3>2, <3>3
  <2> QED
    BY <1>2, <2>1, <2>2, <2>3, <2>4, Zenon DEF SealedInOrder
<1>9. RestInOrder(q)'
  <2>1. CASE t \in Writers
    <3>1. \A u \in Writers : pc'[u] \notin Unsealed
      BY <1>a, <1>3, <2>1, FlusherOthers DEF Unsealed, Emitting
    <3>2. pos[n] + l + Len(wbuf) = accepted
      BY <1>3, <2>1 DEF StreamAt, RestInOrder, Unsealed, n, l
    <3>3. q[Len(sealed')] + Len(wbuf') = accepted'
      BY <1>2, <1>7, <1>c, <3>2, Zenon
    <3>4. \A k \in 1..Len(wbuf') : wbuf'[k] = accepted' - Len(wbuf') + k
      BY <1>c DEF StreamAt, RestInOrder
    <3> QED
      BY <3>1, <3>3, <3>4, Zenon DEF RestInOrder
  <2>2. CASE t \in Closers
    <3>1. q[Len(sealed')] = pos[n]
      <4>1. l = 0
        BY <2>2, EmptySeq DEF FlusherInv, RecordsMatch, l
      <4>2. pos[n] \in Nat
        BY <1>b
      <4>3. pos[n] + l = pos[n]
        BY ONLY <4>1, <4>2
      <4> QED
        BY <1>2, <1>7, <4>3, Zenon
    <3>2. \A u \in Writers : pc'[u] = pc[u] /\ rec'[u] = rec[u]
      BY <1>a, <1>3, <2>2, ThreadsAssumption
    <3>3. RestInOrder(pos)
      BY DEF StreamAt
    <3>4. PICK a, b : a = pos[n] /\ b = q[Len(sealed')]
      OBVIOUS
    <3>5. /\ (\A u \in Writers : pc[u] \notin Unsealed) => a + Len(wbuf) = accepted
          /\ \A u \in Writers : pc[u] \in Unsealed =>
                 /\ a + Len(rec[u].payload) + Len(wbuf) = accepted
                 /\ \A k \in 1..Len(rec[u].payload) : rec[u].payload[k] = a + k
          /\ \A k \in 1..Len(wbuf) : wbuf[k] = accepted - Len(wbuf) + k
      BY <3>3, <3>4, Zenon DEF RestInOrder, n
    <3>6. a = b
      BY <3>1, <3>4, Zenon
    <3>7. (\A u \in Writers : pc'[u] \notin Unsealed) => b + Len(wbuf') = accepted'
      BY <1>c, <3>2, <3>5, <3>6, Zenon
    <3>8. ASSUME NEW u \in Writers, pc'[u] \in Unsealed
          PROVE  /\ b + Len(rec'[u].payload) + Len(wbuf') = accepted'
                 /\ \A k \in 1..Len(rec'[u].payload) : rec'[u].payload[k] = b + k
      BY <1>c, <3>2, <3>5, <3>6, <3>8, Zenon
    <3>9. \A k \in 1..Len(wbuf') : wbuf'[k] = accepted' - Len(wbuf') + k
      BY <1>c, <3>5, Zenon
    <3> QED
      BY <3>4, <3>7, <3>8, <3>9, Zenon DEF RestInOrder
  <2> QED
    BY <2>1, <2>2 DEF Threads
<1>10. WireIsSealed'
  <2>1. \A u \in Threads \ {t} : pc[u] \notin Critical
    BY <1>3, OneInside DEF SequenceInv, Critical
  <2>2. n = sendSeq
    BY <1>3, <2>1 DEF SequenceInv, NumberInv, Critical, n
  <2>3. ASSUME NEW u \in Threads, pc'[u] \in {"advance", "raw"}
        PROVE  rec'[u].seq + 1 = Len(sealed') /\ rec'[u] = sealed'[Len(sealed')]
    <3>1. u = t
      BY <1>3, <2>1, <2>3 DEF Critical
    <3> QED
      BY <1>2, <1>3, <2>2, <3>1
  <2>4. ASSUME NEW i \in 1..Len(wire)
        PROVE  /\ wire[i].seq < Len(sealed')
               /\ wire[i].typ = sealed'[wire[i].seq + 1].typ
               /\ wire[i].payload = sealed'[wire[i].seq + 1].payload
    <3> DEFINE j == wire[i].seq
    <3>1. /\ j < n /\ j \in Nat
          /\ wire[i].typ = sealed[j + 1].typ
          /\ wire[i].payload = sealed[j + 1].payload
      BY <1>b DEF StreamAt, WireIsSealed, n
    <3>2. j < n /\ j \in Nat
      BY <3>1
    <3> HIDE DEF j
    <3>3. j + 1 \in 1..n /\ j < n + 1
      BY ONLY <1>n, <3>2
    <3> QED
      BY <1>2, <3>1, <3>3, Zenon DEF j
  <2> QED
    BY <1>c, <2>3, <2>4, Zenon DEF WireIsSealed
<1>11. ReadInOrder(q)'
  <2>1. recvSeq <= n + 1 /\ recvSeq \in 0..n
    BY ONLY <1>b, <1>4
  <2>2. q[recvSeq] = pos[recvSeq]
    BY <1>7, <2>1, Zenon
  <2>3. ReadInOrder(pos)
    BY DEF StreamAt
  <2> QED
    BY <1>c, <1>2, <2>1, <2>2, <2>3, Zenon DEF ReadInOrder
<1>12. StreamAt(q)'
  BY <1>8, <1>9, <1>10, <1>11, Zenon DEF StreamAt
<1> QED
  BY <1>6, <1>7, <1>12, Zenon

(* The socket takes the record in hand, whole or not, or nothing of it.    *)
LEMMA WireTakes ==
    ASSUME TypeOK, WireIsSealed, NEW t \in Threads, pc[t] = "raw", NEW w \in BOOLEAN,
           wire' = wire \/ wire' = Append(wire, OnWire(rec[t], w)),
           sealed' = sealed, rec' = rec, pc'[t] \in {"wrote", "failed"},
           \A u \in Threads \ {t} : pc'[u] = pc[u]
    PROVE  WireIsSealed'
<1> DEFINE e == OnWire(rec[t], w)
           n == Len(wire)
<1>1. wire \in Seq(WireRecords) /\ n \in Nat /\ rec[t] \in Records
  BY StreamTypes DEF TypeOK, NetTypeOK, RecordTypeOK
<1>2. e \in WireRecords /\ e.seq = rec[t].seq /\ e.typ = rec[t].typ /\ e.payload = rec[t].payload
  BY <1>1 DEF OnWire, Records, WireRecords
<1>3. /\ rec[t].seq + 1 = Len(sealed) /\ rec[t] = sealed[Len(sealed)]
  BY DEF WireIsSealed
<1>4. rec[t].seq < Len(sealed)
  BY <1>1, <1>3, StreamTypes DEF Records
<1>5. \A i \in 1..n : /\ wire[i].seq < Len(sealed)
                      /\ wire[i].typ = sealed[wire[i].seq + 1].typ
                      /\ wire[i].payload = sealed[wire[i].seq + 1].payload
  BY DEF WireIsSealed
<1>6. \A u \in Threads : pc'[u] \in {"advance", "raw"} => pc[u] \in {"advance", "raw"}
  OBVIOUS
<1>7. \A u \in Threads : pc'[u] \in {"advance", "raw"} =>
           rec'[u].seq + 1 = Len(sealed') /\ rec'[u] = sealed'[Len(sealed')]
  BY <1>6 DEF WireIsSealed
<1>8. CASE wire' = wire
  BY <1>5, <1>7, <1>8 DEF WireIsSealed
<1>9. CASE wire' = Append(wire, e)
  <2> HIDE DEF e
  <2>1. /\ Len(Append(wire, e)) = n + 1
        /\ \A i \in 1..n : Append(wire, e)[i] = wire[i]
        /\ Append(wire, e)[n + 1] = e
    BY <1>1, <1>2, AppendProperties
  <2>2. Len(wire') = n + 1 /\ (\A i \in 1..n : wire'[i] = wire[i]) /\ wire'[n + 1] = e
    BY <1>9, <2>1, Zenon
  <2> HIDE DEF n
  <2>3. \A i \in 1..(n + 1) : i \in 1..n \/ i = n + 1
    BY ONLY <1>1
  <2>4. /\ e.seq < Len(sealed)
        /\ e.typ = sealed[e.seq + 1].typ
        /\ e.payload = sealed[e.seq + 1].payload
    BY <1>2, <1>3, <1>4, Zenon
  <2>5. ASSUME NEW i \in 1..(n + 1)
        PROVE  /\ wire'[i].seq < Len(sealed)
               /\ wire'[i].typ = sealed[wire'[i].seq + 1].typ
               /\ wire'[i].payload = sealed[wire'[i].seq + 1].payload
    BY <1>5, <2>2, <2>3, <2>4, Zenon
  <2> QED
    BY <1>7, <2>2, <2>5, Zenon DEF WireIsSealed
<1> QED
  BY <1>8, <1>9

(* The far end opens the record with the number it expects. *)
LEMMA ReadOpens ==
    ASSUME TypeOK, AlertInv, NEW pos \in [Nat -> Nat], SealedInOrder(pos), WireIsSealed,
           ReadInOrder(pos), NEW i \in 1..Len(wire), wire[i].seq = recvSeq, pending = <<>>,
           sealed' = sealed, delivered' = delivered, recvSeq' = recvSeq + 1,
           pending' = (IF wire[i].typ = "data" THEN wire[i].payload ELSE <<>>),
           rerr' # "nil" => wire[i].typ = "alert"
    PROVE  ReadInOrder(pos)'
<1> DEFINE n == recvSeq
           d == Len(delivered)
           p == sealed[n + 1].payload
<1>1. /\ n \in Nat /\ n < Len(sealed) /\ Len(sealed) \in Nat /\ d \in Nat
      /\ wire[i].typ = sealed[n + 1].typ
      /\ wire[i].payload = p
  BY StreamTypes DEF WireIsSealed
<1>2. n + 1 \in 1..Len(sealed) /\ n + 1 <= Len(sealed) /\ (n + 1) - 1 = n
  BY ONLY <1>1
<1>3. pending' = p
  <2>1. CASE wire[i].typ = "data"
    BY <1>1, <2>1, Zenon
  <2>2. CASE wire[i].typ # "data"
    BY <1>1, <1>2, <2>2 DEF AlertInv
  <2> QED
    BY <2>1, <2>2
<1>4. /\ pos[n + 1] = pos[n] + Len(p) /\ \A k \in 1..Len(p) : p[k] = pos[n] + k
  BY <1>2, Zenon DEF SealedInOrder
<1>5. d = pos[n]
  <2>1. d + Len(pending) = pos[n] /\ Len(pending) = 0 /\ d \in Nat
    BY <1>1, EmptySeq DEF ReadInOrder
  <2> QED
    BY <2>1
<1>6. d + Len(p) = pos[n + 1] /\ \A k \in 1..Len(p) : p[k] = d + k
  BY <1>4, <1>5, Zenon
<1>7. rerr' # "nil" => pending' = <<>>
  BY <1>1 DEF AlertInv
<1>8. \A k \in 1..d : delivered[k] = k
  BY DEF ReadInOrder
<1> QED
  BY <1>2, <1>3, <1>6, <1>7, <1>8, Zenon DEF ReadInOrder

(* Read hands the first m of the pending bytes to its caller. *)
LEMMA ReadHands ==
    ASSUME TypeOK, NEW pos \in [Nat -> Nat], ReadInOrder(pos), NEW m \in 1..Len(pending),
           sealed' = sealed, recvSeq' = recvSeq, rerr' = rerr, pending # <<>>,
           delivered' = delivered \o SubSeq(pending, 1, m),
           pending' = SubSeq(pending, m + 1, Len(pending))
    PROVE  ReadInOrder(pos)' /\ Len(delivered') = Len(delivered) + m /\ delivered' \in Seq(Nat)
<1> DEFINE d == Len(delivered)
           l == Len(pending)
           p == SubSeq(pending, 1, m)
           w == SubSeq(pending, m + 1, Len(pending))
<1>1. /\ d \in Nat /\ l \in Nat /\ m \in 1..l /\ delivered \in Seq(Nat) /\ pending \in Seq(Nat)
      /\ recvSeq \in Nat
  BY StreamTypes DEF TypeOK, ReaderTypeOK
<1>2. /\ d + l = pos[recvSeq]
      /\ \A k \in 1..d : delivered[k] = k
      /\ \A k \in 1..l : pending[k] = d + k
      /\ recvSeq <= Len(sealed)
      /\ rerr = "nil"
  BY DEF ReadInOrder
<1>3. /\ Len(p) = m /\ \A k \in 1..m : p[k] = pending[k]
      /\ Len(w) = l - m /\ \A k \in 1..(l - m) : w[k] = pending[m + k]
      /\ p \in Seq(Nat)
  <2>1. pending \in Seq(Nat) /\ m \in 1..Len(pending)
    BY <1>1
  <2> QED
    <3>0. /\ Len(SubSeq(pending, 1, m)) = m
          /\ \A k \in 1..m : SubSeq(pending, 1, m)[k] = pending[k]
          /\ Len(SubSeq(pending, m + 1, Len(pending))) = Len(pending) - m
          /\ \A k \in 1..(Len(pending) - m) :
                SubSeq(pending, m + 1, Len(pending))[k] = pending[m + k]
          /\ SubSeq(pending, 1, m) \in Seq(Nat)
          /\ SubSeq(pending, m + 1, Len(pending)) \in Seq(Nat)
      BY ONLY <2>1, CutEnds
    <3>1. /\ Len(SubSeq(pending, 1, m)) = m
          /\ \A k \in 1..m : SubSeq(pending, 1, m)[k] = pending[k]
          /\ SubSeq(pending, 1, m) \in Seq(Nat)
      BY ONLY <3>0, Zenon
    <3>2. Len(SubSeq(pending, m + 1, Len(pending))) = Len(pending) - m
      BY ONLY <3>0, Zenon
    <3>3. \A k \in 1..(Len(pending) - m) :
             SubSeq(pending, m + 1, Len(pending))[k] = pending[m + k]
      BY ONLY <3>0, Zenon
    <3> QED
      BY ONLY <3>1, <3>2, <3>3, Zenon
<1> HIDE DEF p, w, l
<1>4. /\ Len(delivered \o p) = d + Len(p) /\ delivered \o p \in Seq(Nat)
      /\ \A k \in 1..(d + Len(p)) : (delivered \o p)[k] = IF k <= d THEN delivered[k] ELSE p[k - d]
  BY <1>1, <1>3, ConcatProperties
<1> HIDE DEF d
<1>5. /\ Len(delivered') = d + m /\ delivered' \in Seq(Nat)
      /\ \A k \in 1..(d + m) : delivered'[k] = IF k <= d THEN delivered[k] ELSE p[k - d]
  BY <1>3, <1>4, Zenon DEF p
<1>6. /\ Len(pending') = l - m /\ \A k \in 1..(l - m) : pending'[k] = pending[m + k]
  BY <1>3, Zenon DEF w
<1>n. d \in Nat /\ l \in Nat /\ m \in 1..l
  BY <1>1
<1>7. \A k \in 1..(d + m) : delivered'[k] = k
  <2> SUFFICES ASSUME NEW k \in 1..(d + m) PROVE delivered'[k] = k
    OBVIOUS
  <2>1. CASE k \in 1..d
    <3>1. k <= d
      BY ONLY <1>n, <2>1
    <3> QED
      BY <1>2, <1>5, <2>1, <3>1, Zenon
  <2>2. CASE k \notin 1..d
    <3>1. ~(k <= d) /\ k - d \in 1..m /\ k - d \in 1..l /\ d + (k - d) = k
      BY ONLY <1>n, <2>2, k \in 1..(d + m)
    <3> QED
      BY <1>2, <1>3, <1>5, <3>1, Zenon
  <2> QED
    BY <2>1, <2>2
<1>8. \A k \in 1..(l - m) : pending'[k] = (d + m) + k
  <2> SUFFICES ASSUME NEW k \in 1..(l - m) PROVE pending'[k] = (d + m) + k
    OBVIOUS
  <2>1. m + k \in 1..l /\ d + (m + k) = (d + m) + k
    BY ONLY <1>n, k \in 1..(l - m)
  <2> QED
    BY <1>2, <1>6, <2>1, Zenon
<1>9. (d + m) + (l - m) = pos[recvSeq]
  <2>1. (d + m) + (l - m) = d + l
    BY ONLY <1>n
  <2> QED
    BY <1>2, <2>1, Zenon
<1>10. ReadInOrder(pos)'
  BY <1>2, <1>5, <1>6, <1>7, <1>8, <1>9, Zenon DEF ReadInOrder
<1> QED
  BY <1>5, <1>10, Zenon DEF d

(* Every step keeps the stream in order, and no position moves: one step   *)
(* per action.                                                             *)
LEMMA StreamNext ==
    ASSUME TypeOK, SequenceInv, FlusherInv, CloseInv, NEW pos \in [Nat -> Nat], StreamAt(pos),
           [Next]_vars
    PROVE  \E q \in [Nat -> Nat] : StreamAt(q)' /\ \A i \in 0..Len(sealed) : q[i] = pos[i]
<1>a. /\ pc \in [Threads -> PCs] /\ rec \in [Threads -> Records]
      /\ Writers \subseteq Threads /\ Closers \subseteq Threads
      /\ flushing \in BOOLEAN
  BY DEF TypeOK, LocksTypeOK, RecordTypeOK, BufferTypeOK, Threads
<1>b. \A t \in Writers : \A u \in Closers : t # u
  BY ThreadsAssumption
<1>c. SealedInOrder(pos) /\ RestInOrder(pos) /\ WireIsSealed /\ ReadInOrder(pos)
  BY DEF StreamAt
<1>d. ASSUME StreamAt(pos)'
      PROVE  \E q \in [Nat -> Nat] : StreamAt(q)' /\ \A i \in 0..Len(sealed) : q[i] = pos[i]
  BY <1>d, Zenon
<1>e. SealedInOrder(pos)' /\ RestInOrder(pos)' /\ WireIsSealed' /\ ReadInOrder(pos)' => StreamAt(pos)'
  BY Zenon DEF StreamAt
<1> USE <1>a, <1>b
<1>1. ASSUME NEW t \in Writers, WriteCall(t) \/ WriteRefused(t) PROVE StreamAt(pos)'
  <2>1. UNCHANGED <<sealed, wbuf, accepted, wire, rec>> /\ UNCHANGED readerVars
    BY <1>1 DEF WriteCall, WriteRefused, netVars, histVars
  <2>2. pc[t] \in {"idle", "wLock"} /\ pc'[t] \in {"idle", "wLock"}
        /\ \A u \in Threads \ {t} : pc'[u] = pc[u]
    BY <1>1 DEF WriteCall, WriteRefused
  <2>3. RestInOrder(pos)'
    BY <1>c, <2>1, <2>2, RestKept DEF Unsealed
  <2>4. WireIsSealed'
    BY <1>c, <2>1, <2>2, WireKept
  <2> QED
    BY <1>c, <1>e, <2>1, <2>3, <2>4, SealedKept, ReadKept
<1>2. ASSUME NEW t \in Writers, WriteEnter(t) PROVE StreamAt(pos)'
  <2>1. /\ sealed' = sealed /\ wire' = wire /\ UNCHANGED readerVars
        /\ accepted' = accepted + size[t] /\ pc[t] = "wLock" /\ ~werr
    BY <1>2 DEF WriteEnter, netVars, Refused
  <2>2. CASE flushing
    <3>1. wbuf' = wbuf \o NewBytes(t) /\ rec' = rec /\ pc'[t] = "idle"
          /\ \A u \in Threads \ {t} : pc'[u] = pc[u]
      BY <1>2, <2>2 DEF WriteEnter, FlushSeen
    <3>2. /\ size[t] \in Nat
          /\ Len(wbuf') = Len(wbuf) + size[t]
          /\ \A k \in 1..Len(wbuf) : wbuf'[k] = wbuf[k]
          /\ \A k \in 1..size[t] : wbuf'[Len(wbuf) + k] = accepted + k
      BY <3>1, EnterBytes, Zenon
    <3>3. \A u \in Writers : pc[u] \in Unsealed <=> pc'[u] \in Unsealed
      BY <2>1, <3>1 DEF Unsealed
    <3>4. RestInOrder(pos)'
      BY <1>c, <2>1, <3>1, <3>2, <3>3, RestAppend, Zenon
    <3>5. WireIsSealed'
      BY <1>c, <2>1, <3>1, WireKept
    <3> QED
      BY <1>c, <1>e, <2>1, <3>4, <3>5, SealedKept, ReadKept
  <2>3. CASE ~flushing
    <3> DEFINE buf == wbuf \o NewBytes(t)
               base == pos[Len(sealed)]
    <3>1. FlushTurn(t, buf) /\ buf \in Seq(Nat)
      BY <1>2, <2>3, EnterBuffer DEF WriteEnter, FlushSeen
    <3>2. \A u \in Writers : pc[u] \notin Unsealed
      BY <2>3, FlusherNone DEF Unsealed
    <3>3. base + Len(wbuf) = accepted /\ \A k \in 1..Len(wbuf) : wbuf[k] = accepted - Len(wbuf) + k
      BY <1>c, <3>2 DEF RestInOrder
    <3>4. Len(wbuf) \in Nat /\ accepted \in Nat /\ base \in Nat /\ size[t] \in Nat
      BY EnterBytes, StreamTypes
    <3>5. /\ Len(buf) = Len(wbuf) + size[t]
          /\ \A k \in 1..Len(wbuf) : buf[k] = wbuf[k]
          /\ \A k \in 1..size[t] : buf[Len(wbuf) + k] = accepted + k
      BY EnterBytes
    <3> HIDE DEF buf, base
    <3> DEFINE n == Len(wbuf)
               m == size[t]
    <3>6. n \in Nat /\ m \in Nat /\ accepted \in Nat /\ base \in Nat /\ base + n = accepted
      BY <3>3, <3>4
    <3> HIDE DEF n, m
    <3>7. accepted + m \in Nat /\ base + (n + m) = accepted + m
      BY ONLY <3>6
    <3>8. \A k \in 1..(n + m) : buf[k] = (accepted + m) - (n + m) + k
      <4>1. /\ \A k \in 1..n : wbuf[k] = accepted - n + k
            /\ \A k \in 1..n : buf[k] = wbuf[k]
            /\ \A k \in 1..m : buf[n + k] = accepted + k
        BY <3>3, <3>5, Zenon DEF n, m
      <4> SUFFICES ASSUME NEW k \in 1..(n + m) PROVE buf[k] = (accepted + m) - (n + m) + k
        OBVIOUS
      <4>2. /\ (accepted + m) - (n + m) + k = accepted - n + k
            /\ \/ k \in 1..n
               \/ k - n \in 1..m /\ n + (k - n) = k /\ accepted + (k - n) = accepted - n + k
        BY ONLY <3>6, k \in 1..(n + m), AppendPositions
      <4> QED
        BY <4>1, <4>2, Zenon
    <3>9. /\ accepted' \in Nat /\ pos[Len(sealed)] + Len(buf) = accepted'
          /\ \A k \in 1..Len(buf) : buf[k] = accepted' - Len(buf) + k
      BY <2>1, <3>5, <3>7, <3>8, Zenon DEF n, m, base
    <3>10. RestInOrder(pos)'
      BY <2>1, <3>1, <3>2, <3>9, RestTurn, Zenon
    <3>11. WireIsSealed'
      <4>1. \A u \in Threads : pc'[u] \in {"advance", "raw"} => pc'[u] = pc[u] /\ rec'[u] = rec[u]
        BY <2>1, <3>1, FlushTurnOutside DEF Critical
      <4> QED
        BY <1>c, <2>1, <4>1, WireKept
    <3> QED
      BY <1>c, <1>e, <2>1, <3>10, <3>11, SealedKept, ReadKept
  <2> QED
    BY <2>2, <2>3
<1>3. ASSUME NEW t \in Writers, WriteResume(t) PROVE StreamAt(pos)'
  <2>1. /\ sealed' = sealed /\ wire' = wire /\ UNCHANGED readerVars
        /\ accepted' = accepted /\ pc[t] \in {"wrote", "failed"}
    BY <1>3 DEF WriteResume, netVars, histVars
  <2>2. \A u \in Writers : pc[u] \notin Unsealed
    BY <2>1, FlusherOthers DEF Unsealed, Emitting
  <2>3. CASE pc[t] = "failed"
    <3>1. /\ wbuf' = wbuf /\ pc'[t] = "idle"
          /\ \A u \in Threads \ {t} : pc'[u] = pc[u] /\ rec'[u] = rec[u]
      BY <1>3, <2>3 DEF WriteResume
    <3>2. RestInOrder(pos)'
      BY <1>c, <2>1, <2>2, <3>1, RestKept DEF Unsealed
    <3>3. WireIsSealed'
      BY <1>c, <2>1, <3>1, WireKept
    <3> QED
      BY <1>c, <1>e, <2>1, <3>2, <3>3, SealedKept, ReadKept
  <2>4. CASE pc[t] = "wrote"
    <3>1. FlushTurn(t, wbuf) /\ wbuf \in Seq(Nat)
      BY <1>3, <2>4 DEF WriteResume, TypeOK, BufferTypeOK
    <3>2. /\ accepted' \in Nat /\ pos[Len(sealed)] + Len(wbuf) = accepted'
          /\ \A k \in 1..Len(wbuf) : wbuf[k] = accepted' - Len(wbuf) + k
      BY <1>c, <2>1, <2>2, StreamTypes DEF RestInOrder
    <3>3. RestInOrder(pos)'
      BY <2>1, <2>2, <3>1, <3>2, RestTurn, Zenon
    <3>4. WireIsSealed'
      <4>1. \A u \in Threads : pc'[u] \in {"advance", "raw"} => pc'[u] = pc[u] /\ rec'[u] = rec[u]
        BY <2>4, <3>1, FlushTurnOutside DEF Critical
      <4> QED
        BY <1>c, <2>1, <4>1, WireKept
    <3> QED
      BY <1>c, <1>e, <2>1, <3>3, <3>4, SealedKept, ReadKept
  <2> QED
    BY <2>1, <2>3, <2>4
<1>4. ASSUME NEW t \in Threads, LockWire(t) \/ Advance(t) PROVE StreamAt(pos)'
  <2>1. UNCHANGED <<sealed, wbuf, accepted, wire, rec>> /\ UNCHANGED readerVars
    BY <1>4 DEF LockWire, Advance, netVars, histVars
  <2>2. /\ \/ pc[t] = "wireLock" /\ pc'[t] = "seal"
           \/ pc[t] = "advance" /\ pc'[t] = "raw"
        /\ \A u \in Threads \ {t} : pc'[u] = pc[u]
    BY <1>4 DEF LockWire, Advance
  <2>3. RestInOrder(pos)'
    BY <1>c, <2>1, <2>2, RestKept DEF Unsealed
  <2>4. WireIsSealed'
    BY <1>c, <2>1, <2>2, WireKept
  <2> QED
    BY <1>c, <1>e, <2>1, <2>3, <2>4, SealedKept, ReadKept
<1>5. ASSUME NEW t \in Threads, RawWriteOk(t) \/ RawWriteFail(t) PROVE StreamAt(pos)'
  <2>1. /\ sealed' = sealed /\ wbuf' = wbuf /\ accepted' = accepted /\ rec' = rec
        /\ UNCHANGED readerVars
        /\ pc[t] = "raw" /\ pc'[t] \in {"wrote", "failed"}
        /\ \A u \in Threads \ {t} : pc'[u] = pc[u]
    BY <1>5 DEF RawWriteOk, RawWriteFail, RawReturn, histVars
  <2>2. RestInOrder(pos)'
    BY <1>c, <2>1, RestKept DEF Unsealed
  <2>3. PICK w \in BOOLEAN : wire' = wire \/ wire' = Append(wire, OnWire(rec[t], w))
    BY <1>5 DEF RawWriteOk, RawWriteFail
  <2>4. WireIsSealed'
    BY <1>c, <2>1, <2>3, WireTakes, Zenon
  <2> QED
    BY <1>c, <1>e, <2>1, <2>2, <2>4, SealedKept, ReadKept
<1>6. ASSUME NEW t \in Closers, CloseStep(t) PROVE StreamAt(pos)'
  <2>1. /\ UNCHANGED <<sealed, wbuf, accepted, wire>> /\ UNCHANGED readerVars
        /\ \A u \in Threads \ {t} : pc'[u] = pc[u] /\ rec'[u] = rec[u]
    BY <1>6 DEF CloseStep, CloseCall, CloseOnceDone, CloseLock, CloseResume, RawClose, netVars, histVars
  <2>2. pc'[t] \notin {"advance", "raw"}
    BY <1>6 DEF CloseStep, CloseCall, CloseOnceDone, CloseLock, CloseResume, RawClose
  <2>3. RestInOrder(pos)'
    BY <1>c, <2>1, RestKept
  <2>4. WireIsSealed'
    BY <1>c, <2>1, <2>2, WireKept
  <2> QED
    BY <1>c, <1>e, <2>1, <2>3, <2>4, SealedKept, ReadKept
<1>7. ASSUME ReadStep PROVE StreamAt(pos)'
  <2>1. UNCHANGED <<sealed, wbuf, accepted, wire, rec, pc>>
    BY <1>7 DEF ReadStep, ReadRecord, ReadEnd, ReadDeliver, senderVars, netVars, histVars
  <2>2. SealedInOrder(pos)' /\ RestInOrder(pos)' /\ WireIsSealed'
    BY <1>c, <2>1, SealedKept, RestKept, WireKept
  <2>3. CASE ReadRecord
    <3>1. /\ sealed' = sealed /\ delivered' = delivered /\ pending = <<>> /\ rpos < Len(wire)
      BY <2>1, <2>3 DEF ReadRecord, MayRead
    <3>2. rpos + 1 \in 1..Len(wire)
      <4>1. rpos \in Nat /\ Len(wire) \in Nat /\ rpos < Len(wire)
        BY <3>1, StreamTypes
      <4> QED
        BY ONLY <4>1
    <3>3. CASE Opens(wire[rpos + 1])
      <4>1. /\ wire[rpos + 1].seq = recvSeq /\ recvSeq' = recvSeq + 1
            /\ pending' = (IF wire[rpos + 1].typ = "data" THEN wire[rpos + 1].payload ELSE <<>>)
            /\ rerr' = IF wire[rpos + 1].typ = "alert" THEN "eof" ELSE "nil"
        BY <2>3, <3>3 DEF ReadRecord, Opens
      <4>2. rerr' # "nil" => wire[rpos + 1].typ = "alert"
        BY <4>1
      <4>3. ReadInOrder(pos)'
        BY <1>c, <3>1, <3>2, <4>1, <4>2, ReadOpens, Zenon DEF CloseInv
      <4> QED
        BY <1>e, <2>2, <4>3
    <3>4. CASE ~Opens(wire[rpos + 1])
      <4>1. pending' = pending /\ recvSeq' = recvSeq
        BY <2>3, <3>4 DEF ReadRecord
      <4>2. ReadInOrder(pos)'
        BY <1>c, <3>1, <4>1, Zenon DEF ReadInOrder
      <4> QED
        BY <1>e, <2>2, <4>2
    <3> QED
      BY <3>3, <3>4
  <2>4. CASE ReadEnd
    <3>1. /\ sealed' = sealed /\ delivered' = delivered /\ pending = <<>>
          /\ pending' = pending /\ recvSeq' = recvSeq
      BY <2>1, <2>4 DEF ReadEnd, MayRead
    <3>2. ReadInOrder(pos)'
      BY <1>c, <3>1, Zenon DEF ReadInOrder
    <3> QED
      BY <1>e, <2>2, <3>2
  <2>5. CASE ReadDeliver
    <3>1. PICK m \in 1..Len(pending) :
              /\ delivered' = delivered \o SubSeq(pending, 1, m)
              /\ pending' = SubSeq(pending, m + 1, Len(pending))
      BY <2>5 DEF ReadDeliver
    <3>2. sealed' = sealed /\ recvSeq' = recvSeq /\ rerr' = rerr /\ pending # <<>>
      BY <2>1, <2>5 DEF ReadDeliver
    <3>3. ReadInOrder(pos)'
      BY <1>c, <3>1, <3>2, ReadHands, Zenon
    <3> QED
      BY <1>e, <2>2, <3>3
  <2> QED
    BY <1>7, <2>3, <2>4, <2>5 DEF ReadStep
<1>8. ASSUME Reset PROVE StreamAt(pos)'
  <2>1. UNCHANGED <<sealed, wbuf, accepted, rec, pc>> /\ UNCHANGED readerVars
    BY <1>8 DEF Reset, senderVars, histVars
  <2>2. PICK m \in rpos..Len(wire) : wire' = SubSeq(wire, 1, m)
    BY <1>8 DEF Reset
  <2>3. rpos \in Nat /\ Len(wire) \in Nat /\ m \in Nat /\ m <= Len(wire)
    BY <2>2, StreamTypes
  <2>4. \A i \in 1..m : i \in 1..Len(wire)
    BY ONLY <2>3
  <2>5. Len(SubSeq(wire, 1, m)) = m /\ \A i \in 1..m : SubSeq(wire, 1, m)[i] = wire[i]
    <3>1. \A i \in 1..m : wire[i] \in WireRecords
      BY <2>4, StreamTypes
    <3> QED
      BY <2>3, <3>1, SubSeqProperties
  <2>6. Len(wire') = m /\ \A i \in 1..m : wire'[i] = wire[i]
    BY <2>2, <2>5, Zenon
  <2>7. WireIsSealed'
    BY <1>c, <2>1, <2>4, <2>6 DEF WireIsSealed
  <2> QED
    BY <1>c, <1>e, <2>1, <2>7, SealedKept, RestKept, ReadKept
<1>9. ASSUME UNCHANGED vars PROVE StreamAt(pos)'
  <2>1. UNCHANGED <<sealed, wbuf, accepted, rec, pc, wire>> /\ UNCHANGED readerVars
    BY <1>9 DEF vars, senderVars, netVars, readerVars, histVars
  <2> QED
    BY <1>c, <1>e, <2>1, SealedKept, RestKept, WireKept, ReadKept
<1>10. ASSUME NEW t \in Threads, Seal(t)
       PROVE  \E q \in [Nat -> Nat] : StreamAt(q)' /\ \A i \in 0..Len(sealed) : q[i] = pos[i]
  BY <1>10, StreamSeal
<1> QED
  BY <1>1, <1>2, <1>3, <1>4, <1>5, <1>6, <1>7, <1>8, <1>9, <1>10, <1>d
  DEF Next, WriteStep, RecordStep, Terminated

(* A fresh Conn has sealed nothing and nothing was accepted. *)
LEMMA StreamInit == Init => \E pos \in [Nat -> Nat] : StreamAt(pos) /\ pos[0] = 0
<1> SUFFICES ASSUME Init PROVE \E pos \in [Nat -> Nat] : StreamAt(pos) /\ pos[0] = 0
  OBVIOUS
<1>1. PICK pos \in [Nat -> Nat] : \A i \in Nat : pos[i] = 0
  <2>1. [i \in Nat |-> 0] \in [Nat -> Nat]
    OBVIOUS
  <2> QED
    BY <2>1
<1>2. /\ Len(sealed) = 0 /\ Len(wbuf) = 0 /\ Len(wire) = 0 /\ Len(delivered) = 0 /\ Len(pending) = 0
      /\ accepted = 0 /\ recvSeq = 0 /\ rerr = "nil"
  BY EmptySeq DEF Init
<1>3. \A t \in Threads : pc[t] = "idle"
  BY DEF Init
<1>4. SealedInOrder(pos)
  BY <1>1, <1>2 DEF SealedInOrder
<1>5. RestInOrder(pos)
  <2>1. \A t \in Writers : pc[t] \notin Unsealed
    BY <1>3 DEF Unsealed, Threads
  <2>2. pos[Len(sealed)] + Len(wbuf) = accepted
    BY <1>1, <1>2
  <2>3. \A k \in 1..Len(wbuf) : wbuf[k] = accepted - Len(wbuf) + k
    BY <1>2
  <2> QED
    BY <2>1, <2>2, <2>3, Zenon DEF RestInOrder
<1>6. WireIsSealed
  BY <1>2, <1>3 DEF WireIsSealed
<1>7. ReadInOrder(pos)
  BY <1>1, <1>2 DEF ReadInOrder
<1> QED
  BY <1>1, <1>4, <1>5, <1>6, <1>7 DEF StreamAt

(* Everything the record layer keeps, together. *)
ConnInv == TypeOK /\ SequenceInv /\ FlusherInv /\ CloseInv /\ StreamInv

(* The invariant of the stream at the start. *)
LEMMA ConnInit == Init => ConnInv
BY TypeInit, SequenceInit, FlusherInit, CloseInit, StreamInit DEF ConnInv, StreamInv

(* No step breaks the stream. *)
LEMMA ConnNext == ConnInv /\ [Next]_vars => ConnInv'
<1> SUFFICES ASSUME ConnInv, [Next]_vars PROVE ConnInv'
  OBVIOUS
<1>1. TypeOK /\ SequenceInv /\ FlusherInv /\ CloseInv
  BY DEF ConnInv
<1>2. PICK pos \in [Nat -> Nat] : StreamAt(pos)
  BY DEF ConnInv, StreamInv
<1>3. TypeOK' /\ SequenceInv' /\ FlusherInv' /\ CloseInv'
  BY <1>1, TypeNext, SequenceNext, FlusherNext, CloseNext
<1>4. StreamInv'
  BY <1>1, <1>2, StreamNext, Zenon DEF StreamInv
<1> QED
  BY <1>3, <1>4, Zenon DEF ConnInv

(* The far end never has more than was accepted. *)
LEMMA SealedWithinAccepted ==
    ASSUME TypeOK, NEW pos \in [Nat -> Nat], StreamAt(pos)
    PROVE  /\ pos[Len(sealed)] <= accepted
           /\ \A i \in 0..Len(sealed) : pos[i] <= pos[Len(sealed)]
<1> DEFINE n == Len(sealed)
           b == Len(wbuf)
<1>1. n \in Nat /\ b \in Nat /\ accepted \in Nat /\ pos[n] \in Nat
  BY StreamTypes
<1>2. RestInOrder(pos)
  BY DEF StreamAt
<1>3. ASSUME \A t \in Writers : pc[t] \notin Unsealed PROVE pos[n] <= accepted
  <2>1. pos[n] + b = accepted
    BY <1>2, <1>3 DEF RestInOrder
  <2> HIDE DEF n, b
  <2> QED
    BY <1>1, <2>1
<1>4. ASSUME NEW t \in Writers, pc[t] \in Unsealed PROVE pos[n] <= accepted
  <2> DEFINE l == Len(rec[t].payload)
  <2>1. pos[n] + l + b = accepted
    BY <1>2, <1>4 DEF RestInOrder
  <2>2. l \in Nat
    BY StreamTypes DEF Threads
  <2> HIDE DEF n, b, l
  <2> QED
    BY <1>1, <2>1, <2>2
<1>5. \A i \in 0..n : pos[i] <= pos[n]
  <2>1. \A i, j \in 0..n : i <= j => pos[i] <= pos[j]
    BY DEF StreamAt, SealedInOrder
  <2> HIDE DEF n
  <2>2. n \in 0..n /\ \A i \in 0..n : i <= n
    BY ONLY <1>1
  <2> QED
    BY <2>1, <2>2
<1> QED
  BY <1>3, <1>4, <1>5

(* The inductive invariant gives the order of the bytes. *)
LEMMA StreamIsInOrder == ConnInv => DeliveredInOrder
<1> SUFFICES ASSUME ConnInv PROVE DeliveredInOrder
  OBVIOUS
<1>1. PICK pos \in [Nat -> Nat] : StreamAt(pos)
  BY DEF ConnInv, StreamInv
<1> DEFINE d == Len(delivered)
           p == Len(pending)
           n == Len(sealed)
<1>2. d \in Nat /\ p \in Nat /\ n \in Nat /\ accepted \in Nat /\ recvSeq \in Nat
  BY StreamTypes DEF ConnInv
<1>3. recvSeq <= n /\ d + p = pos[recvSeq] /\ \A k \in 1..d : delivered[k] = k
  BY <1>1 DEF StreamAt, ReadInOrder
<1>4. pos[n] <= accepted /\ \A i \in 0..n : pos[i] <= pos[n]
  BY <1>1, SealedWithinAccepted DEF ConnInv
<1> HIDE DEF d, p, n
<1>5. recvSeq \in 0..n
  BY <1>2, <1>3
<1>6. pos[recvSeq] <= pos[n] /\ pos[n] \in Nat /\ pos[recvSeq] \in Nat
  BY <1>2, <1>4, <1>5
<1>7. d <= accepted
  BY <1>2, <1>3, <1>4, <1>6
<1> QED
  BY <1>3, <1>7 DEF DeliveredInOrder, d

(* The far end reads what Write accepted, in order, without a hole or a    *)
(* repetition.                                                             *)
THEOREM BytesInOrder == Spec => []DeliveredInOrder
BY ConnInit, ConnNext, StreamIsInOrder, PTL DEF Spec

-----------------------------------------------------------------------------
(* Proof of the refinement *)

(* Initial states map to initial states. *)
LEMMA RefinesInit == Init => Stream!Init
BY DEF Init, Stream!Init

(* Every step is a step of the byte stream or changes nothing of it. *)
LEMMA RefinesNext ==
    ASSUME ConnInv, DeliveredInOrder', [Next]_vars
    PROVE  [Stream!Next]_(Stream!streamVars)
<1>0. TypeOK
  BY DEF ConnInv
<1>1. CASE UNCHANGED <<accepted, delivered, rerr>>
  BY <1>1 DEF Stream!streamVars
<1>2. ASSUME NEW t \in Writers, WriteEnter(t) PROVE Stream!Next
  <2>1. accepted' = accepted + size[t] /\ UNCHANGED <<delivered, rerr>>
    BY <1>2 DEF WriteEnter, readerVars
  <2>2. accepted \in Nat /\ size[t] \in Nat
    BY <1>0 DEF TypeOK, HistTypeOK, CallsTypeOK
  <2>3. accepted' \in Nat /\ accepted' >= accepted
    BY <2>1, <2>2
  <2> QED
    BY <2>1, <2>3 DEF Stream!Next, Stream!Accept
<1>3. ASSUME ReadRecord \/ ReadEnd PROVE [Stream!Next]_(Stream!streamVars)
  <2>1. UNCHANGED <<accepted, delivered>> /\ rerr = "nil"
    BY <1>3 DEF ReadRecord, ReadEnd, MayRead, histVars
  <2> QED
    BY <2>1 DEF Stream!Next, Stream!End, Stream!streamVars
<1>4. ASSUME ReadDeliver PROVE Stream!Next
  <2>1. PICK pos \in [Nat -> Nat] : StreamAt(pos)
    BY DEF ConnInv, StreamInv
  <2>2. PICK m \in 1..Len(pending) :
            /\ delivered' = delivered \o SubSeq(pending, 1, m)
            /\ pending' = SubSeq(pending, m + 1, Len(pending))
    BY <1>4 DEF ReadDeliver
  <2>3. /\ sealed' = sealed /\ recvSeq' = recvSeq /\ rerr' = rerr /\ pending # <<>>
        /\ accepted' = accepted
    BY <1>4 DEF ReadDeliver, histVars
  <2>4. rerr = "nil"
    BY <2>1, <2>3 DEF StreamAt, ReadInOrder
  <2>5. Len(delivered') = Len(delivered) + m /\ delivered' \in Seq(Nat)
    <3>1. ReadInOrder(pos)
      BY <2>1 DEF StreamAt
    <3> QED
      BY <1>0, <2>2, <2>3, <3>1, ReadHands, Zenon
  <2> DEFINE n == Len(delivered')
  <2>6. n \in Nat /\ n <= accepted /\ \A i \in 1..n : delivered'[i] = i
    BY <2>3, <2>5, LenProperties DEF DeliveredInOrder
  <2>7. delivered' = [i \in 1..n |-> i]
    <3>1. delivered' \in [1..n -> Nat]
      BY <2>5, LenProperties
    <3> HIDE DEF n
    <3> QED
      BY <2>6, <3>1
  <2>8. n \in Len(delivered)..accepted
    <3>1. Len(delivered) \in Nat /\ Len(pending) \in Nat /\ accepted \in Nat
      BY <1>0, StreamTypes
    <3> DEFINE d == Len(delivered)
    <3>2. n = d + m /\ d \in Nat /\ m \in Nat
      BY <2>5, <3>1
    <3> HIDE DEF n, d
    <3>3. n \in d..accepted
      BY ONLY <2>6, <3>1, <3>2
    <3> QED
      BY <3>3 DEF d
  <2>9. Stream!Deliver
    BY <2>3, <2>4, <2>7, <2>8, Zenon DEF Stream!Deliver, Stream!FirstBytes
  <2> QED
    BY <2>9 DEF Stream!Next
<1>5. ASSUME NEW t \in Writers, WriteCall(t) \/ WriteRefused(t) \/ WriteResume(t)
      PROVE  UNCHANGED <<accepted, delivered, rerr>>
  BY <1>5 DEF WriteCall, WriteRefused, WriteResume, readerVars, histVars
<1>6. ASSUME NEW t \in Threads, RecordStep(t) PROVE UNCHANGED <<accepted, delivered, rerr>>
  BY <1>6 DEF RecordStep, LockWire, Seal, Advance, RawWriteOk, RawWriteFail, RawReturn,
              readerVars, histVars
<1>7. ASSUME NEW t \in Closers, CloseStep(t) PROVE UNCHANGED <<accepted, delivered, rerr>>
  BY <1>7 DEF CloseStep, CloseCall, CloseOnceDone, CloseLock, CloseResume, RawClose,
              readerVars, histVars
<1>8. ASSUME Reset \/ UNCHANGED vars PROVE UNCHANGED <<accepted, delivered, rerr>>
  BY <1>8 DEF Reset, vars, readerVars, histVars
<1> QED
  BY <1>1, <1>2, <1>3, <1>4, <1>5, <1>6, <1>7, <1>8
  DEF Next, WriteStep, ReadStep, Terminated

(* The two Conns and the socket between them implement the byte stream.    *)
THEOREM ConnRefinesByteStream == Spec => ImplementsByteStream
<1>1. ConnInv /\ ConnInv' /\ [Next]_vars => [Stream!Next]_(Stream!streamVars)
  <2> SUFFICES ASSUME ConnInv, ConnInv', [Next]_vars PROVE [Stream!Next]_(Stream!streamVars)
    OBVIOUS
  <2>1. DeliveredInOrder'
    BY StreamIsInOrder, PTL
  <2> QED
    BY <2>1, RefinesNext
<1>2. Spec => []ConnInv
  BY ConnInit, ConnNext, PTL DEF Spec
<1> QED
  BY <1>1, <1>2, RefinesInit, PTL DEF Spec, ImplementsByteStream, Stream!Spec

-----------------------------------------------------------------------------
(* Proof of the clean end *)

(* What a step does to the wire: it only loses what the far end has not    *)
(* read, and that only when the connection is reset.                       *)
LEMMA WireSteps ==
    ASSUME TypeOK, [Next]_vars
    PROVE  /\ netUp' => netUp
           /\ \A j \in 1..rpos : j \in 1..Len(wire) /\ wire'[j] = wire[j]
           /\ netUp' => \A j \in 1..Len(wire) : j \in 1..Len(wire') /\ wire'[j] = wire[j]
           /\ werr => werr'
<1>a. /\ wire \in Seq(WireRecords) /\ Len(wire) \in Nat /\ rpos \in Nat /\ rpos <= Len(wire)
      /\ rec \in [Threads -> Records] /\ netUp \in BOOLEAN
  BY StreamTypes DEF TypeOK, NetTypeOK, RecordTypeOK
<1>b. \A j \in 1..rpos : j \in 1..Len(wire)
  BY <1>a
<1>1. CASE netUp' = netUp /\ wire' = wire /\ (werr => werr')
  BY <1>1, <1>b
<1>2. ASSUME NEW t \in Threads, RawWriteOk(t) \/ RawWriteFail(t)
      PROVE  netUp' = netUp /\ werr' = werr /\ \A j \in 1..Len(wire) : j \in 1..Len(wire') /\ wire'[j] = wire[j]
  <2>1. netUp' = netUp /\ werr' = werr
    BY <1>2 DEF RawWriteOk, RawWriteFail, RawReturn
  <2>2. PICK w \in BOOLEAN : wire' = wire \/ wire' = Append(wire, OnWire(rec[t], w))
    BY <1>2 DEF RawWriteOk, RawWriteFail
  <2>3. OnWire(rec[t], w) \in WireRecords
    BY <1>a DEF OnWire, Records, WireRecords
  <2>4. CASE wire' = wire
    BY <2>1, <2>4
  <2>5. CASE wire' = Append(wire, OnWire(rec[t], w))
    <3> DEFINE e == OnWire(rec[t], w)
    <3> HIDE DEF e
    <3>1. Len(Append(wire, e)) = Len(wire) + 1 /\ \A j \in 1..Len(wire) : Append(wire, e)[j] = wire[j]
      BY <1>a, <2>3, AppendProperties DEF e
    <3>2. Len(wire') = Len(wire) + 1 /\ \A j \in 1..Len(wire) : wire'[j] = wire[j]
      BY <2>5, <3>1, Zenon DEF e
    <3>3. \A j \in 1..Len(wire) : j \in 1..(Len(wire) + 1)
      BY ONLY <1>a
    <3> QED
      BY <2>1, <3>2, <3>3, Zenon
  <2> QED
    BY <2>2, <2>4, <2>5
<1>3. ASSUME Reset
      PROVE  netUp' = FALSE /\ werr' = werr /\ \A j \in 1..rpos : wire'[j] = wire[j]
  <2>1. netUp' = FALSE /\ werr' = werr
    BY <1>3 DEF Reset, senderVars
  <2>2. PICK m \in rpos..Len(wire) : wire' = SubSeq(wire, 1, m)
    BY <1>3 DEF Reset
  <2>3. m \in Nat /\ m <= Len(wire) /\ rpos <= m
    BY <1>a, <2>2
  <2>4. (\A j \in 1..m : j \in 1..Len(wire)) /\ \A j \in 1..rpos : j \in 1..m
    BY ONLY <1>a, <2>3
  <2>5. \A j \in 1..m : SubSeq(wire, 1, m)[j] = wire[j]
    <3>1. \A j \in 1..m : wire[j] \in WireRecords
      BY <2>4, StreamTypes
    <3> QED
      BY <2>3, <3>1, SubSeqProperties
  <2> QED
    BY <2>1, <2>2, <2>4, <2>5, Zenon
<1>4. ASSUME NEW t \in Writers, WriteStep(t) PROVE netUp' = netUp /\ wire' = wire /\ (werr => werr')
  BY <1>4 DEF WriteStep, WriteCall, WriteRefused, WriteEnter, WriteResume, netVars
<1>5. ASSUME NEW t \in Threads, LockWire(t) \/ Seal(t) \/ Advance(t)
      PROVE  netUp' = netUp /\ wire' = wire /\ werr' = werr
  BY <1>5 DEF LockWire, Seal, Advance, netVars
<1>6. ASSUME NEW t \in Closers, CloseStep(t) PROVE netUp' = netUp /\ wire' = wire /\ werr' = werr
  BY <1>6 DEF CloseStep, CloseCall, CloseOnceDone, CloseLock, CloseResume, RawClose, netVars
<1>7. ASSUME ReadStep \/ UNCHANGED vars PROVE netUp' = netUp /\ wire' = wire /\ werr' = werr
  BY <1>7 DEF ReadStep, ReadRecord, ReadEnd, ReadDeliver, vars, netVars, senderVars
<1>8. CASE \E t \in Threads : RawWriteOk(t) \/ RawWriteFail(t)
  BY <1>2, <1>8, <1>b
<1>9. CASE Reset
  BY <1>3, <1>9, <1>b
<1> QED
  BY <1>1, <1>4, <1>5, <1>6, <1>7, <1>8, <1>9 DEF Next, RecordStep, Terminated

(* What the socket took stays taken as long as the connection is up. *)
LEMMA TakenKept ==
    ASSUME TypeOK, [Next]_vars, netUp', NEW i, Taken(i)
    PROVE  Taken(i)'
BY WireSteps DEF Taken

(* Every data record is accounted for, step by step. *)
LEMMA DataTakenNext ==
    ASSUME TypeOK, TypeOK', FlusherInv, WireIsSealed', DataTaken, [Next]_vars
    PROVE  DataTaken'
<1> SUFFICES ASSUME NEW i \in 1..Len(sealed'), sealed'[i].typ = "data", ~werr', netUp', ~Taken(i)'
             PROVE  \E t \in Writers : \/ pc'[t] = "failed"
                                       \/ pc'[t] \in {"advance", "raw"} /\ rec'[t].seq + 1 = i
  BY DEF DataTaken
<1>a. /\ pc \in [Threads -> PCs] /\ rec \in [Threads -> Records]
      /\ Writers \subseteq Threads /\ Closers \subseteq Threads
  BY DEF TypeOK, LocksTypeOK, RecordTypeOK, Threads
<1>b. ~werr /\ netUp /\ ~Taken(i)
  BY WireSteps, TakenKept
<1>c. ASSUME i \in 1..Len(sealed), sealed[i].typ = "data"
      PROVE  \E t \in Writers : \/ pc[t] = "failed"
                                \/ pc[t] \in {"advance", "raw"} /\ rec[t].seq + 1 = i
  BY <1>b, <1>c DEF DataTaken
<1> USE <1>a
<1>1. ASSUME sealed' = sealed,
             \A u \in Writers : pc[u] \in {"advance", "raw", "failed"} => pc'[u] = pc[u] /\ rec'[u] = rec[u]
      PROVE  \E t \in Writers : \/ pc'[t] = "failed"
                                \/ pc'[t] \in {"advance", "raw"} /\ rec'[t].seq + 1 = i
  BY <1>1, <1>c
<1>2. ASSUME NEW t \in Writers, WriteStep(t)
      PROVE  /\ sealed' = sealed
             /\ \A u \in Writers : pc[u] \in {"advance", "raw", "failed"} => pc'[u] = pc[u] /\ rec'[u] = rec[u]
  <2>1. sealed' = sealed /\ \A u \in Threads \ {t} : pc'[u] = pc[u] /\ rec'[u] = rec[u]
    BY <1>2 DEF WriteStep, WriteCall, WriteRefused, WriteEnter, WriteResume, FlushTurn, histVars
  <2>2. pc[t] \notin {"advance", "raw"}
    BY <1>2 DEF WriteStep, WriteCall, WriteRefused, WriteEnter, WriteResume
  <2>3. pc[t] # "failed"
    BY <1>2 DEF WriteStep, WriteCall, WriteRefused, WriteEnter, WriteResume
  <2> QED
    BY <2>1, <2>2, <2>3
<1>3. ASSUME NEW t \in Threads, LockWire(t) \/ Advance(t)
      PROVE  \E u \in Writers : \/ pc'[u] = "failed"
                                \/ pc'[u] \in {"advance", "raw"} /\ rec'[u].seq + 1 = i
  <2>1. /\ sealed' = sealed /\ rec' = rec
        /\ \A u \in Writers : /\ pc[u] = "failed" => pc'[u] = "failed"
                              /\ pc[u] \in {"advance", "raw"} => pc'[u] \in {"advance", "raw"}
    BY <1>3 DEF LockWire, Advance, histVars
  <2> QED
    BY <1>c, <2>1
<1>4. ASSUME NEW t \in Threads, Seal(t)
      PROVE  \E u \in Writers : \/ pc'[u] = "failed"
                                \/ pc'[u] \in {"advance", "raw"} /\ rec'[u].seq + 1 = i
  <2>1. /\ pc[t] = "seal" /\ pc'[t] = "advance" /\ rec'[t].typ = rec[t].typ
        /\ \A u \in Threads \ {t} : rec'[u] = rec[u] /\ pc'[u] = pc[u]
    BY <1>4, SealEffect
  <2>2. CASE i \in 1..Len(sealed)
    <3>1. sealed[i].typ = "data"
      BY <1>4, <2>2, SealedGrows
    <3> QED
      BY <1>c, <2>1, <2>2, <3>1
  <2>3. CASE i = Len(sealed) + 1
    <3>1. rec[t].typ = "data" /\ i = Len(sealed')
      BY <1>4, <2>1, <2>3, SealedGrows
    <3>2. t \in Writers
      BY <3>1 DEF FlusherInv, RecordsMatch, Threads
    <3>3. rec'[t].seq + 1 = i
      BY <2>1, <3>1 DEF WireIsSealed
    <3> QED
      BY <2>1, <3>2, <3>3
  <2> QED
    BY <1>4, <2>2, <2>3, SealedGrows
<1>5. ASSUME NEW t \in Threads, RawWriteFail(t) \/ RawWriteOk(t)
      PROVE  \E u \in Writers : \/ pc'[u] = "failed"
                                \/ pc'[u] \in {"advance", "raw"} /\ rec'[u].seq + 1 = i
  <2>1. /\ sealed' = sealed /\ rec' = rec /\ pc[t] = "raw"
        /\ \A u \in Threads \ {t} : pc'[u] = pc[u]
    BY <1>5 DEF RawWriteFail, RawWriteOk, RawReturn, histVars
  <2>2. CASE RawWriteFail(t)
    <3>1. pc'[t] = "failed"
      BY <2>2 DEF RawWriteFail, RawReturn
    <3> QED
      BY <1>c, <2>1, <3>1
  <2>3. CASE RawWriteOk(t)
    <3>1. wire' = Append(wire, OnWire(rec[t], TRUE))
      BY <2>3 DEF RawWriteOk
    <3> DEFINE e == OnWire(rec[t], TRUE)
    <3>2. e \in WireRecords /\ e.seq = rec[t].seq /\ e.whole /\ rec[t].seq \in Nat
      BY DEF OnWire, Records, WireRecords
    <3>3. wire \in Seq(WireRecords) /\ Len(wire) \in Nat
      BY StreamTypes DEF TypeOK, NetTypeOK
    <3> HIDE DEF e
    <3>4. Len(Append(wire, e)) = Len(wire) + 1 /\ Append(wire, e)[Len(wire) + 1] = e
      BY <3>2, <3>3, AppendProperties
    <3>5. Len(wire') = Len(wire) + 1 /\ wire'[Len(wire) + 1] = e
      BY <3>1, <3>4, Zenon DEF e
    <3>6. Len(wire) + 1 \in 1..(Len(wire) + 1)
      BY ONLY <3>3
    <3>7. \E j \in 1..Len(wire') : wire'[j].seq = rec[t].seq /\ wire'[j].whole
      BY <3>2, <3>5, <3>6, Zenon
    <3>8. rec[t].seq + 1 # i
      <4>1. rec[t].seq # i - 1
        BY <3>7 DEF Taken
      <4>2. i \in Int
        OBVIOUS
      <4> QED
        BY ONLY <3>2, <4>1, <4>2
    <3> QED
      BY <1>c, <2>1, <3>8
  <2> QED
    BY <1>5, <2>2, <2>3
<1>6. ASSUME NEW t \in Closers, CloseStep(t)
      PROVE  /\ sealed' = sealed
             /\ \A u \in Writers : pc[u] \in {"advance", "raw", "failed"} => pc'[u] = pc[u] /\ rec'[u] = rec[u]
  BY <1>6, ThreadsAssumption
  DEF CloseStep, CloseCall, CloseOnceDone, CloseLock, CloseResume, RawClose, histVars
<1>7. ASSUME ReadStep \/ Reset \/ UNCHANGED vars PROVE sealed' = sealed /\ pc' = pc /\ rec' = rec
  BY <1>7 DEF ReadStep, ReadRecord, ReadEnd, ReadDeliver, Reset, vars, senderVars, histVars
<1> QED
  BY <1>1, <1>2, <1>3, <1>4, <1>5, <1>6, <1>7 DEF Next, RecordStep, Terminated

(* Only the far end's two looks at the socket change what it has read of   *)
(* it, and only from a state without an error.                             *)
LEMMA ReaderSteps ==
    ASSUME [Next]_vars
    PROVE  \/ UNCHANGED <<rpos, recvSeq, rerr>>
           \/ ReadRecord
           \/ ReadEnd
<1>1. ASSUME NEW t \in Writers, WriteStep(t) PROVE UNCHANGED <<rpos, recvSeq, rerr>>
  BY <1>1 DEF WriteStep, WriteCall, WriteRefused, WriteEnter, WriteResume, readerVars
<1>2. ASSUME NEW t \in Threads, RecordStep(t) PROVE UNCHANGED <<rpos, recvSeq, rerr>>
  BY <1>2 DEF RecordStep, LockWire, Seal, Advance, RawWriteOk, RawWriteFail, RawReturn, readerVars
<1>3. ASSUME NEW t \in Closers, CloseStep(t) PROVE UNCHANGED <<rpos, recvSeq, rerr>>
  BY <1>3 DEF CloseStep, CloseCall, CloseOnceDone, CloseLock, CloseResume, RawClose, readerVars
<1>4. ASSUME ReadDeliver \/ Reset \/ UNCHANGED vars PROVE UNCHANGED <<rpos, recvSeq, rerr>>
  BY <1>4 DEF ReadDeliver, Reset, vars, readerVars
<1> QED
  BY <1>1, <1>2, <1>3, <1>4 DEF Next, ReadStep, Terminated

(* The far end reads without a gap, step by step. *)
LEMMA ReadWithoutGapNext ==
    ASSUME TypeOK, ReadWithoutGap, [Next]_vars
    PROVE  ReadWithoutGap'
<1> SUFFICES ASSUME rerr' = "nil" PROVE recvSeq' = rpos' /\ \A j \in 1..rpos' : wire'[j].seq = j - 1
  BY DEF ReadWithoutGap
<1>a. rpos \in Nat
  BY StreamTypes
<1>b. \A j \in 1..rpos : wire'[j] = wire[j]
  BY WireSteps
<1>1. CASE UNCHANGED <<rpos, recvSeq, rerr>>
  BY <1>1, <1>b DEF ReadWithoutGap
<1>2. CASE ReadRecord
  <2>1. /\ rerr = "nil" /\ wire' = wire /\ rpos' = rpos + 1
        /\ recvSeq' = recvSeq + 1 /\ wire[rpos + 1].seq = recvSeq
    BY <1>2 DEF ReadRecord, MayRead, Opens, netVars
  <2>2. recvSeq = rpos /\ \A j \in 1..rpos : wire[j].seq = j - 1
    BY <2>1 DEF ReadWithoutGap
  <2>3. \A j \in 1..(rpos + 1) : j \in 1..rpos \/ (j = rpos + 1 /\ rpos = j - 1)
    BY ONLY <1>a
  <2> QED
    BY <2>1, <2>2, <2>3, Zenon
<1>3. CASE ReadEnd
  BY <1>3 DEF ReadEnd
<1> QED
  BY <1>1, <1>2, <1>3, ReaderSteps

(* Once the alert is sealed, what Close remembered of its start stays. *)
LEMMA CloseFixed ==
    ASSUME AlertInv, [Next]_vars, NEW a \in 1..Len(sealed), AlertAt(a)
    PROVE  overlap' = overlap /\ closeAt' = closeAt
<1>0. once # "new" /\ \A t \in Closers : pc[t] # "cLock"
  BY DEF AlertInv
<1>1. ASSUME NEW t \in Writers, WriteStep(t) PROVE overlap' = overlap /\ closeAt' = closeAt
  BY <1>1 DEF WriteStep, WriteCall, WriteRefused, WriteEnter, WriteResume, histVars
<1>2. ASSUME NEW t \in Threads, RecordStep(t) PROVE overlap' = overlap /\ closeAt' = closeAt
  BY <1>2 DEF RecordStep, LockWire, Seal, Advance, RawWriteOk, RawWriteFail, RawReturn, histVars
<1>3. ASSUME NEW t \in Closers, CloseStep(t) PROVE overlap' = overlap /\ closeAt' = closeAt
  BY <1>0, <1>3
  DEF CloseStep, CloseCall, CloseOnceDone, CloseLock, CloseResume, RawClose, OnceFirst, histVars
<1>4. ASSUME ReadStep \/ Reset \/ UNCHANGED vars PROVE overlap' = overlap /\ closeAt' = closeAt
  BY <1>4 DEF ReadStep, ReadRecord, ReadEnd, ReadDeliver, Reset, vars, histVars
<1> QED
  BY <1>1, <1>2, <1>3, <1>4 DEF Next, Terminated

(* Only sealing changes what is sealed. *)
LEMMA SealedSteps == [Next]_vars => sealed' = sealed \/ \E t \in Threads : Seal(t)
<1> SUFFICES ASSUME [Next]_vars, ~\E t \in Threads : Seal(t) PROVE sealed' = sealed
  OBVIOUS
<1>1. ASSUME NEW t \in Writers, WriteStep(t) PROVE sealed' = sealed
  BY <1>1 DEF WriteStep, WriteCall, WriteRefused, WriteEnter, WriteResume, histVars
<1>2. ASSUME NEW t \in Threads, RecordStep(t) PROVE sealed' = sealed
  BY <1>2 DEF RecordStep, LockWire, Advance, RawWriteOk, RawWriteFail, RawReturn, histVars
<1>3. ASSUME NEW t \in Closers, CloseStep(t) PROVE sealed' = sealed
  BY <1>3 DEF CloseStep, CloseCall, CloseOnceDone, CloseLock, CloseResume, RawClose, histVars
<1>4. ASSUME ReadStep \/ Reset \/ UNCHANGED vars PROVE sealed' = sealed
  BY <1>4 DEF ReadStep, ReadRecord, ReadEnd, ReadDeliver, Reset, vars, histVars
<1> QED
  BY <1>1, <1>2, <1>3, <1>4 DEF Next, Terminated

(* What is sealed stays sealed. *)
LEMMA AlertStays ==
    ASSUME TypeOK, [Next]_vars, NEW a \in 1..Len(sealed)
    PROVE  AlertAt(a)' <=> AlertAt(a)
<1>1. CASE sealed' = sealed
  BY <1>1 DEF AlertAt
<1>2. ASSUME NEW t \in Threads, Seal(t) PROVE AlertAt(a)' <=> AlertAt(a)
  BY <1>2, SealedGrows DEF AlertAt
<1> QED
  BY <1>1, <1>2, SealedSteps

(* The socket was closed before the reset, and the far end is at the end   *)
(* of what it took, or at a record that was cut there.                     *)
AtEnd == /\ netUp
         /\ \A j \in 1..Len(wire) : j \in 1..rpos \/ ~wire[j].whole

(* A far end that sees the end of the stream reads an alert, or finds the  *)
(* socket closed after one.                                                *)
LEMMA EndHasAlert ==
    ASSUME TypeOK, CloseInv, WireIsSealed, ReadRecord \/ ReadEnd, rerr' = "eof"
    PROVE  \/ /\ ReadRecord /\ wire[rpos + 1].seq = recvSeq /\ recvSeq + 1 \in 1..Len(sealed)
              /\ AlertAt(recvSeq + 1)
           \/ AtEnd /\ \E a \in 1..Len(sealed) : AlertAt(a)
<1>a. rpos \in Nat /\ Len(wire) \in Nat
  BY StreamTypes
<1>b. ~sockOpen => \E a \in 1..Len(sealed) : AlertAt(a)
  BY DEF CloseInv, OnceInv, AlertInv
<1>1. CASE ReadRecord /\ Opens(wire[rpos + 1])
  <2>1. /\ wire[rpos + 1].seq = recvSeq /\ wire[rpos + 1].typ = "alert" /\ rpos < Len(wire)
    BY <1>1 DEF ReadRecord, Opens
  <2>2. rpos \in Nat /\ recvSeq \in Nat /\ Len(wire) \in Nat /\ Len(sealed) \in Nat
    BY StreamTypes
  <2>3. rpos + 1 \in 1..Len(wire)
    BY ONLY <2>1, <2>2
  <2>4. recvSeq < Len(sealed) /\ sealed[recvSeq + 1].typ = "alert"
    BY <2>1, <2>3 DEF WireIsSealed
  <2>5. recvSeq + 1 \in 1..Len(sealed)
    BY ONLY <2>2, <2>4
  <2> QED
    BY <1>1, <2>1, <2>4, <2>5 DEF AlertAt
<1>2. CASE ReadRecord /\ ~Opens(wire[rpos + 1])
  <2>1. EndsInRecord(wire[rpos + 1])
    BY <1>2 DEF ReadRecord
  <2>2. ~wire[rpos + 1].whole /\ rpos + 1 = Len(wire) /\ ~sockOpen /\ netUp
    BY <2>1 DEF EndsInRecord
  <2>3. \A j \in 1..Len(wire) : j \in 1..rpos \/ j = rpos + 1
    BY ONLY <1>a, <2>2
  <2> QED
    BY <1>b, <2>2, <2>3 DEF AtEnd
<1>3. CASE ReadEnd
  <2>1. netUp /\ ~sockOpen /\ rpos = Len(wire)
    BY <1>3 DEF ReadEnd
  <2> QED
    BY <1>b, <2>1 DEF AtEnd
<1> QED
  BY <1>1, <1>2, <1>3

(* What Close remembers, step by step. *)
LEMMA CloseRememberedNext ==
    ASSUME TypeOK, FlusherInv, CloseInv, WireIsSealed, CloseRemembered, [Next]_vars
    PROVE  CloseRemembered'
<1>a. /\ pc \in [Threads -> PCs] /\ accepted \in Nat /\ closeAt \in Nat
      /\ Writers \subseteq Threads /\ Closers \subseteq Threads
  BY DEF TypeOK, LocksTypeOK, HistTypeOK, Threads
<1>b. \A t \in Writers : \A u \in Closers : t # u
  BY ThreadsAssumption
<1>c. ASSUME NEW t \in Closers, pc[t] \in Unsealed PROVE wmu = t /\ wmu # NoThread
  BY <1>c, ThreadsAssumption DEF CloseInv, OnceInv, Emitting, Unsealed, Threads
<1>d. /\ once = "new" <=> closeAt = 0
      /\ closeAt <= accepted + 1
      /\ \A t \in Closers : pc[t] \in Unsealed => (overlap <=> flushing)
  BY DEF CloseRemembered
<1> USE <1>a, <1>b
<1> DEFINE Kept == /\ once' = "new" <=> closeAt' = 0
                   /\ closeAt' <= accepted' + 1
                   /\ \A t \in Closers : pc'[t] \in Unsealed => (overlap' <=> flushing')
<1>1. ASSUME NEW t \in Writers, WriteStep(t) PROVE Kept
  <2>1. once' = once /\ closeAt' = closeAt /\ overlap' = overlap
    BY <1>1 DEF WriteStep, WriteCall, WriteRefused, WriteEnter, WriteResume, histVars
  <2>2. \A u \in Closers : pc'[u] = pc[u]
    BY <1>1 DEF WriteStep, WriteCall, WriteRefused, WriteEnter, WriteResume, FlushTurn
  <2>3. closeAt' <= accepted' + 1
    <3>1. size[t] \in Nat
      BY DEF TypeOK, CallsTypeOK
    <3>2. accepted' = accepted \/ accepted' = accepted + size[t]
      BY <1>1 DEF WriteStep, WriteCall, WriteRefused, WriteEnter, WriteResume, histVars
    <3> QED
      BY <1>d, <2>1, <3>1, <3>2
  <2>4. flushing' = flushing \/ wmu = NoThread
    BY <1>1 DEF WriteStep, WriteCall, WriteRefused, WriteEnter, WriteResume, WmuFree
  <2> QED
    BY <1>c, <1>d, <2>1, <2>2, <2>3, <2>4
<1>2. ASSUME NEW t \in Threads, RecordStep(t) PROVE Kept
  <2>1. UNCHANGED <<once, closeAt, accepted, overlap, flushing>>
    BY <1>2 DEF RecordStep, LockWire, Seal, Advance, RawWriteOk, RawWriteFail, RawReturn, histVars
  <2>2. \A u \in Closers : pc'[u] \in Unsealed => pc[u] \in Unsealed
    BY <1>2 DEF RecordStep, LockWire, Seal, Advance, RawWriteOk, RawWriteFail, RawReturn, Unsealed
  <2> QED
    BY <1>d, <2>1, <2>2
<1>3. ASSUME NEW t \in Closers, CloseStep(t) PROVE Kept
  <2>1. CASE CloseCall(t)
    <3>1. UNCHANGED <<accepted, overlap, flushing>>
          /\ \A u \in Closers : pc'[u] \in Unsealed => pc[u] \in Unsealed
      BY <2>1 DEF CloseCall, Unsealed
    <3>2. \/ once' = once /\ closeAt' = closeAt
          \/ once' = "running" /\ closeAt' = accepted + 1
      BY <2>1 DEF CloseCall
    <3> QED
      BY <1>d, <3>1, <3>2
  <2>2. CASE CloseOnceDone(t) \/ RawClose(t)
    <3>1. UNCHANGED <<once, closeAt, accepted, overlap, flushing>>
          /\ \A u \in Closers : pc'[u] \in Unsealed => pc[u] \in Unsealed
      BY <2>2 DEF CloseOnceDone, RawClose, Unsealed, histVars
    <3> QED
      BY <1>d, <3>1
  <2>3. CASE CloseLock(t)
    <3>1. UNCHANGED <<once, closeAt, accepted, flushing>> /\ overlap' = flushing
      BY <2>3 DEF CloseLock
    <3> QED
      BY <1>d, <3>1
  <2>4. CASE CloseResume(t)
    <3>1. UNCHANGED <<closeAt, accepted, overlap, flushing>> /\ once' = "done"
          /\ \A u \in Closers : pc'[u] \in Unsealed => pc[u] \in Unsealed
      BY <2>4 DEF CloseResume, Unsealed, histVars
    <3>2. once = "running"
      BY <2>4 DEF CloseResume, CloseInv, OnceInv, Closing, Emitting
    <3> QED
      BY <1>d, <3>1, <3>2
  <2> QED
    BY <1>3, <2>1, <2>2, <2>3, <2>4 DEF CloseStep
<1>4. ASSUME ReadStep \/ Reset \/ UNCHANGED vars PROVE Kept
  <2>1. UNCHANGED <<once, closeAt, accepted, overlap, flushing, pc>>
    BY <1>4 DEF ReadStep, ReadRecord, ReadEnd, ReadDeliver, Reset, vars, senderVars, histVars
  <2> QED
    BY <1>d, <2>1
<1>5. Kept
  BY <1>1, <1>2, <1>3, <1>4 DEF Next, Terminated
<1>6. ASSUME rerr' = "eof" PROVE \E a \in 1..Len(sealed') : AlertAt(a)'
  <2>1. \E a \in 1..Len(sealed) : AlertAt(a)
    <3>1. CASE rerr = "eof"
      BY <3>1 DEF CloseRemembered
    <3>2. CASE rerr # "eof"
      BY <1>6, <3>2, ReaderSteps, EndHasAlert
    <3> QED
      BY <3>1, <3>2
  <2>2. PICK a \in 1..Len(sealed) : AlertAt(a)
    BY <2>1
  <2>3. AlertAt(a)'
    BY <2>2, AlertStays
  <2> QED
    BY <2>3 DEF AlertAt
<1> QED
  BY <1>5, <1>6 DEF CloseRemembered

(* The alert that overtook no flush ends the stream, step by step. *)
LEMMA AlertIsLastNext ==
    ASSUME TypeOK, TypeOK', FlusherInv, CloseInv, DataTaken, CloseRemembered,
           NEW pos \in [Nat -> Nat], StreamAt(pos), AlertIsLast(pos),
           NEW q \in [Nat -> Nat], StreamAt(q)', \A i \in 0..Len(sealed) : q[i] = pos[i],
           [Next]_vars
    PROVE  AlertIsLast(q)'
<1> SUFFICES ASSUME NEW a \in 1..Len(sealed'), AlertAt(a)', ~overlap', ~werr'
             PROVE  closeAt' <= q[a] + 1 /\ (netUp' => \A i \in 1..(a - 1) : Taken(i)')
  BY DEF AlertIsLast
<1>a. Len(sealed) \in Nat /\ ~werr
  BY StreamTypes, WireSteps
<1>1. CASE a \in 1..Len(sealed)
  <2>1. AlertAt(a)
    BY <1>1, AlertStays
  <2>2. overlap' = overlap /\ closeAt' = closeAt
    BY <1>1, <2>1, CloseFixed DEF CloseInv
  <2>3. closeAt <= pos[a] + 1 /\ (netUp => \A i \in 1..(a - 1) : Taken(i))
    BY <1>1, <1>a, <2>1, <2>2 DEF AlertIsLast
  <2>4. a \in 0..Len(sealed)
    BY ONLY <1>1, <1>a
  <2>5. q[a] = pos[a]
    BY <2>4
  <2>6. netUp' => \A i \in 1..(a - 1) : Taken(i)'
    BY <2>3, WireSteps, TakenKept
  <2> QED
    BY <2>2, <2>3, <2>5, <2>6, Zenon
<1>2. CASE a \notin 1..Len(sealed)
  <2>1. PICK t \in Threads : Seal(t)
    BY <1>2, SealedSteps
  <2> DEFINE n == Len(sealed)
  <2>2. /\ a = n + 1 /\ n \in Nat /\ Len(sealed') = n + 1
        /\ pc[t] = "seal" /\ rec[t].typ = "alert"
        /\ UNCHANGED <<accepted, closeAt, overlap, werr, netUp, wire>>
    <3>1. a = n + 1 /\ sealed'[a] = rec'[t] /\ Len(sealed') = n + 1
      BY <1>2, <2>1, SealedGrows
    <3>2. rec'[t].typ = rec[t].typ /\ pc[t] = "seal"
      BY <2>1, SealEffect
    <3>3. UNCHANGED <<accepted, closeAt, overlap, werr, netUp, wire>>
      BY <2>1 DEF Seal, netVars
    <3> QED
      BY <1>a, <3>1, <3>2, <3>3 DEF AlertAt
  <2>3. t \in Closers /\ pc[t] \in Unsealed
    BY <2>2 DEF FlusherInv, RecordsMatch, Threads, Unsealed
  <2>4. ~flushing /\ wbuf = <<>>
    BY <1>a, <2>2, <2>3 DEF CloseRemembered, FlusherInv, NothingStranded
  <2>5. \A u \in Writers : pc[u] \notin Emitting
    BY <2>4 DEF FlusherInv, OneFlusher
  <2>6. pos[n] = accepted
    <3>1. \A u \in Writers : pc[u] \notin Unsealed
      BY <2>5 DEF Emitting, Unsealed
    <3>2. pos[n] + Len(wbuf) = accepted /\ Len(wbuf) = 0
      BY <2>4, <3>1, EmptySeq DEF StreamAt, RestInOrder
    <3>3. pos[n] \in Nat /\ accepted \in Nat
      BY <2>2, StreamTypes
    <3> QED
      BY ONLY <3>2, <3>3
  <2>7. q[n] = pos[n] /\ q[n] <= q[n + 1]
    <3>1. n \in 0..n /\ n \in 0..(n + 1) /\ n + 1 \in 0..(n + 1) /\ n <= n + 1
      BY ONLY <2>2
    <3>2. \A i, j \in 0..(n + 1) : i <= j => q[i] <= q[j]
      BY <2>2 DEF StreamAt, SealedInOrder
    <3> QED
      BY <3>1, <3>2, Zenon
  <2>8. closeAt' <= q[a] + 1
    <3>1. closeAt <= accepted + 1 /\ closeAt \in Nat /\ accepted \in Nat
      BY StreamTypes DEF CloseRemembered
    <3>2. q[n] \in Nat /\ q[n + 1] \in Nat
      BY <2>2
    <3>3. closeAt <= q[n + 1] + 1
      <4>1. \A x, y, z \in Nat : x <= y + 1 /\ y <= z => x <= z + 1
        OBVIOUS
      <4>2. accepted <= q[n + 1]
        BY <2>6, <2>7, Zenon
      <4> QED
        BY <3>1, <3>2, <4>1, <4>2, Zenon
    <3> QED
      BY <2>2, <3>3, Zenon
  <2>9. ASSUME netUp', NEW i \in 1..(a - 1) PROVE Taken(i)'
    <3>1. i \in 1..n
      BY ONLY <2>2, i \in 1..(a - 1)
    <3>2. sealed[i].typ = "data"
      BY <2>3, <3>1 DEF CloseInv, AlertInv, AlertAt
    <3>3. Taken(i)
      BY <1>a, <2>2, <2>5, <2>9, <3>1, <3>2 DEF DataTaken, Emitting
    <3> QED
      BY <2>9, <3>3, TakenKept
  <2> QED
    BY <2>8, <2>9
<1> QED
  BY <1>1, <1>2

(* A far end that sees the clean end has read what Close found accepted,   *)
(* step by step.                                                           *)
LEMMA CompleteNext ==
    ASSUME TypeOK, CloseInv, NEW pos \in [Nat -> Nat], StreamAt(pos), CleanAt(pos), [Next]_vars
    PROVE  CleanCloseIsComplete'
<1> SUFFICES ASSUME rerr' = "eof", closeAt' > 0, ~overlap', ~werr'
             PROVE  Len(delivered') >= closeAt' - 1
  BY DEF CleanCloseIsComplete
<1> DEFINE n == Len(sealed)
           d == Len(delivered)
<1>a. n \in Nat /\ d \in Nat /\ recvSeq \in Nat /\ closeAt \in Nat /\ rpos \in Nat /\ ~werr
  BY StreamTypes, WireSteps
<1>b. SealedInOrder(pos) /\ WireIsSealed /\ ReadInOrder(pos)
  BY DEF StreamAt
<1>c. AlertIsLast(pos) /\ CloseRemembered /\ ReadWithoutGap
  BY DEF CleanAt
<1>1. CASE rerr = "eof"
  <2>1. PICK a \in 1..Len(sealed) : AlertAt(a)
    BY <1>1, <1>c DEF CloseRemembered
  <2>2. overlap' = overlap /\ closeAt' = closeAt
    BY <2>1, CloseFixed DEF CloseInv
  <2>3. pending = <<>>
    BY <1>1, <1>b DEF ReadInOrder
  <2>4. delivered' = delivered
    <3>1. ASSUME NEW t \in Writers, WriteStep(t) PROVE delivered' = delivered
      BY <3>1 DEF WriteStep, WriteCall, WriteRefused, WriteEnter, WriteResume, readerVars
    <3>2. ASSUME NEW t \in Threads, RecordStep(t) PROVE delivered' = delivered
      BY <3>2 DEF RecordStep, LockWire, Seal, Advance, RawWriteOk, RawWriteFail, RawReturn, readerVars
    <3>3. ASSUME NEW t \in Closers, CloseStep(t) PROVE delivered' = delivered
      BY <3>3 DEF CloseStep, CloseCall, CloseOnceDone, CloseLock, CloseResume, RawClose, readerVars
    <3>4. ASSUME ReadStep \/ Reset \/ UNCHANGED vars PROVE delivered' = delivered
      BY <2>3, <3>4 DEF ReadStep, ReadRecord, ReadEnd, ReadDeliver, Reset, vars, readerVars
    <3> QED
      BY <3>1, <3>2, <3>3, <3>4 DEF Next, Terminated
  <2>5. Len(delivered) >= closeAt - 1
    BY <1>1, <1>a, <2>2 DEF CleanAt, CleanCloseIsComplete
  <2> QED
    BY <2>2, <2>4, <2>5
<1>2. CASE rerr # "eof"
  <2>1. ReadRecord \/ ReadEnd
    BY <1>2, ReaderSteps
  <2>2. /\ rerr = "nil" /\ pending = <<>> /\ delivered' = delivered
        /\ closeAt' = closeAt /\ overlap' = overlap
    BY <2>1 DEF ReadRecord, ReadEnd, MayRead, histVars
  <2>3. d = pos[recvSeq]
    <3>1. d + Len(pending) = pos[recvSeq] /\ Len(pending) = 0
      BY <1>b, <2>2, EmptySeq DEF ReadInOrder
    <3> QED
      BY <1>a, <3>1
  <2>4. ASSUME NEW a \in 1..n, AlertAt(a)
        PROVE  /\ closeAt <= pos[a] + 1 /\ pos[a] = pos[a - 1] /\ a - 1 \in Nat /\ a \in Nat
               /\ netUp => \A i \in 1..(a - 1) : Taken(i)
    <3>1. closeAt <= pos[a] + 1 /\ (netUp => \A i \in 1..(a - 1) : Taken(i))
      BY <1>a, <1>c, <2>2, <2>4 DEF AlertIsLast
    <3>2. Len(sealed[a].payload) = 0
      BY <2>4, EmptySeq DEF CloseInv, AlertInv, AlertAt
    <3>3. pos[a] = pos[a - 1] + Len(sealed[a].payload)
      BY <1>b DEF SealedInOrder
    <3>4. a - 1 \in Nat /\ a \in Nat
      BY ONLY <1>a, a \in 1..n
    <3>5. pos[a] = pos[a - 1] + 0
      BY <3>2, <3>3, Zenon
    <3>6. pos[a - 1] \in Nat
      BY <3>4
    <3> QED
      BY <3>1, <3>4, <3>5, <3>6
  <2>5. CASE ReadRecord /\ wire[rpos + 1].seq = recvSeq /\ recvSeq + 1 \in 1..n /\ AlertAt(recvSeq + 1)
    <3>1. closeAt <= pos[recvSeq + 1] + 1 /\ pos[recvSeq + 1] = pos[(recvSeq + 1) - 1]
      BY <2>4, <2>5
    <3>2. (recvSeq + 1) - 1 = recvSeq
      BY ONLY <1>a
    <3>3. closeAt <= d + 1
      BY <2>3, <3>1, <3>2, Zenon
    <3> HIDE DEF d
    <3>4. d >= closeAt - 1
      BY ONLY <1>a, <3>3
    <3> QED
      BY <2>2, <3>4, Zenon DEF d
  <2>6. ASSUME AtEnd, NEW a \in 1..n, AlertAt(a) PROVE Len(delivered') >= closeAt' - 1
    <3>1. /\ closeAt <= pos[a] + 1 /\ pos[a] = pos[a - 1] /\ a - 1 \in Nat /\ a \in Nat
          /\ \A i \in 1..(a - 1) : Taken(i)
      BY <2>4, <2>6 DEF AtEnd
    <3>2. recvSeq = rpos /\ \A j \in 1..rpos : wire[j].seq = j - 1
      BY <1>c, <2>2 DEF ReadWithoutGap
    <3>3. a - 1 <= recvSeq
      <4>1. CASE a - 1 = 0
        BY <1>a, <4>1
      <4>2. CASE a - 1 # 0
        <5>1. a - 1 \in 1..(a - 1)
          BY ONLY <3>1, <4>2
        <5>2. PICK j \in 1..rpos : wire[j].seq = (a - 1) - 1
          BY <2>6, <3>1, <5>1 DEF Taken, AtEnd
        <5>3. j - 1 = (a - 1) - 1
          BY <3>2, <5>2
        <5> QED
          BY ONLY <1>a, <3>1, <3>2, <5>3, j \in 1..rpos
      <4> QED
        BY <4>1, <4>2
    <3>4. recvSeq <= n /\ \A i, j \in 0..n : i <= j => pos[i] <= pos[j]
      BY <1>b DEF ReadInOrder, SealedInOrder
    <3>5. a - 1 \in 0..n /\ recvSeq \in 0..n
      <4> HIDE DEF n
      <4> QED
        BY ONLY <1>a, <3>4, a \in 1..n
    <3>6. pos[a - 1] <= pos[recvSeq]
      BY <3>3, <3>4, <3>5
    <3>7. pos[a - 1] \in Nat /\ pos[recvSeq] \in Nat
      BY <1>a, <3>1
    <3> HIDE DEF d
    <3>8. d >= closeAt - 1
      BY ONLY <1>a, <2>3, <3>1, <3>6, <3>7
    <3> QED
      BY <2>2, <3>8, Zenon DEF d
  <2> QED
    BY <1>b, <2>1, <2>5, <2>6, EndHasAlert
<1> QED
  BY <1>1, <1>2

(* Everything the clean end rests on, together. *)
CleanInv ==
    /\ TypeOK
    /\ SequenceInv
    /\ FlusherInv
    /\ CloseInv
    /\ \E pos \in [Nat -> Nat] : StreamAt(pos) /\ CleanAt(pos)

(* A fresh Conn has no end yet. *)
LEMMA CleanInit == Init => CleanInv
<1> SUFFICES ASSUME Init PROVE CleanInv
  OBVIOUS
<1>1. PICK pos \in [Nat -> Nat] : StreamAt(pos)
  BY StreamInit
<1>2. /\ Len(sealed) = 0 /\ rpos = 0 /\ recvSeq = 0 /\ rerr = "nil" /\ once = "new"
      /\ closeAt = 0 /\ accepted = 0
  BY EmptySeq DEF Init
<1>3. \A t \in Closers : pc[t] = "idle"
  BY DEF Init, Threads
<1>4. DataTaken /\ ReadWithoutGap /\ AlertIsLast(pos)
  BY <1>2 DEF DataTaken, ReadWithoutGap, AlertIsLast
<1>5. CloseRemembered /\ CleanCloseIsComplete
  BY <1>2, <1>3 DEF CloseRemembered, CleanCloseIsComplete, Unsealed
<1>6. CleanAt(pos)
  BY <1>4, <1>5 DEF CleanAt
<1> QED
  BY <1>1, <1>6, TypeInit, SequenceInit, FlusherInit, CloseInit DEF CleanInv

(* Every step keeps it. *)
LEMMA CleanNext == CleanInv /\ [Next]_vars => CleanInv'
<1> SUFFICES ASSUME CleanInv, [Next]_vars PROVE CleanInv'
  OBVIOUS
<1>1. TypeOK /\ SequenceInv /\ FlusherInv /\ CloseInv
  BY DEF CleanInv
<1>2. PICK pos \in [Nat -> Nat] : StreamAt(pos) /\ CleanAt(pos)
  BY DEF CleanInv
<1>3. TypeOK' /\ SequenceInv' /\ FlusherInv' /\ CloseInv'
  BY <1>1, TypeNext, SequenceNext, FlusherNext, CloseNext
<1>4. PICK q \in [Nat -> Nat] : StreamAt(q)' /\ \A i \in 0..Len(sealed) : q[i] = pos[i]
  BY <1>1, <1>2, StreamNext
<1>5. WireIsSealed /\ WireIsSealed'
  BY <1>2, <1>4 DEF StreamAt
<1>6. DataTaken /\ ReadWithoutGap /\ CloseRemembered /\ AlertIsLast(pos)
  BY <1>2 DEF CleanAt
<1>7. DataTaken' /\ ReadWithoutGap' /\ CloseRemembered'
  BY <1>1, <1>3, <1>5, <1>6, DataTakenNext, ReadWithoutGapNext, CloseRememberedNext
<1>8. AlertIsLast(q)'
  BY <1>1, <1>2, <1>3, <1>4, <1>6, AlertIsLastNext
<1>9. CleanCloseIsComplete'
  BY <1>1, <1>2, CompleteNext
<1>10. CleanAt(q)'
  BY <1>7, <1>8, <1>9, Zenon DEF CleanAt
<1> QED
  BY <1>3, <1>4, <1>10, Zenon DEF CleanInv

(* A far end that sees the clean end of the stream after a Close that met  *)
(* no flush has read every byte accepted before that Close.                *)
THEOREM CleanEndIsComplete == Spec => []CleanCloseIsComplete
<1>1. CleanInv => CleanCloseIsComplete
  BY DEF CleanInv, CleanAt
<1> QED
  BY <1>1, CleanInit, CleanNext, PTL DEF Spec
=============================================================================
