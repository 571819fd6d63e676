-------------------------------- MODULE Conn --------------------------------
(***************************************************************************)
(* The record layer of conn.go, one direction of it: goroutines that call  *)
(* Write and Close on one Conn, the socket under it, and the far Conn that *)
(* Reads.  The other direction runs the same code on disjoint state.       *)
(*                                                                         *)
(* A byte is named by its place in the order in which Write appended it to *)
(* wbuf: the n-th byte accepted is the number n.  So the far end has read  *)
(* the stream that was written when it has read 1, 2, 3, ...               *)
(*                                                                         *)
(* A step ends where the code releases or waits for a lock or the socket.  *)
(***************************************************************************)
EXTENDS Naturals, Sequences

CONSTANTS
    Writers,    \* goroutines that call Conn.Write
    Closers,    \* goroutines that call Conn.Close
    NoThread,   \* the holder of a mutex nobody holds
    Sizes,      \* the lengths of the slices passed to Write
    Takes,      \* what Shaper.Next may ask for (any integer: Shaper is an interface)
    Faults,     \* socket faults that happen: subset of {"none", "part", "reset"}
    SocketCap,  \* records the socket buffers before raw.Write blocks
    MaxCalls,   \* bound: calls of Write per goroutine
    MaxBytes    \* bound: bytes accepted by Write

Threads == Writers \cup Closers

ASSUME ThreadsAssumption == /\ Writers \cap Closers = {}
                            /\ NoThread \notin Threads
ASSUME BoundsAssumption  == /\ Sizes \subseteq Nat
                            /\ Takes \subseteq Nat
                            /\ SocketCap \in Nat \ {0}
                            /\ MaxCalls \in Nat
                            /\ MaxBytes \in Nat
ASSUME FaultsAssumption  == Faults \subseteq {"none", "part", "reset"}

VARIABLES
    pc,         \* where each goroutine is
    size,       \* len(b) of the Write in progress
    calls,      \* Writes started, per goroutine
    wmu,        \* holder of Conn.wmu
    wireMu,     \* holder of Conn.wireMu
    once,       \* Conn.closeOnce: "new", "running" or "done"
    wbuf,       \* Conn.wbuf
    flushing,   \* Conn.flushing
    werr,       \* Conn.werr # nil
    sendSeq,    \* Conn.sendSeq
    rec,        \* the record each goroutine is emitting in writeRecord
    sockOpen,   \* raw.Close has not been called
    netUp,      \* the connection has not been reset
    wire,       \* records the socket took, in the order it took them
    rpos,       \* how many of them the far end has consumed
    recvSeq,    \* far Conn.recvSeq
    pending,    \* far Conn.pending
    rerr,       \* far Conn.rerr: "nil", "eof" or "fail"
    accepted,   \* history: how many bytes Write appended to wbuf
    sealed,     \* history: every record sealed, in order
    delivered,  \* history: bytes the far Read returned
    closeAt,    \* history: 1 + accepted when Close was first called, 0 before
    overlap     \* history: a flush was in progress when Close got wmu

senderVars == <<pc, size, calls, wmu, wireMu, once, wbuf, flushing, werr, sendSeq, rec>>
netVars    == <<sockOpen, netUp, wire>>
readerVars == <<rpos, recvSeq, pending, rerr, delivered>>
histVars   == <<accepted, sealed, closeAt, overlap>>
vars       == <<senderVars, netVars, readerVars, histVars>>

NoRec == [typ |-> "none", payload |-> <<>>, seq |-> 0]

Init ==
    /\ pc = [t \in Threads |-> "idle"]
    /\ size = [t \in Writers |-> 0]
    /\ calls = [t \in Writers |-> 0]
    /\ wmu = NoThread
    /\ wireMu = NoThread
    /\ once = "new"
    /\ wbuf = <<>>
    /\ flushing = FALSE
    /\ werr = FALSE
    /\ sendSeq = 0
    /\ rec = [t \in Threads |-> NoRec]
    /\ sockOpen = TRUE
    /\ netUp = TRUE
    /\ wire = <<>>
    /\ rpos = 0
    /\ recvSeq = 0
    /\ pending = <<>>
    /\ rerr = "nil"
    /\ accepted = 0
    /\ sealed = <<>>
    /\ delivered = <<>>
    /\ closeAt = 0
    /\ overlap = FALSE

-----------------------------------------------------------------------------
(* Write *)

(* A goroutine calls Write with n bytes. *)
WriteCall(t) ==
    /\ pc[t] = "idle"
    /\ calls[t] < MaxCalls
    /\ \E n \in Sizes : /\ accepted + n <= MaxBytes
                        /\ size' = [size EXCEPT ![t] = n]
    /\ calls' = [calls EXCEPT ![t] = @ + 1]
    /\ pc' = [pc EXCEPT ![t] = "wLock"]
    /\ UNCHANGED <<wmu, wireMu, once, wbuf, flushing, werr, sendSeq, rec>>
    /\ UNCHANGED <<netVars, readerVars, histVars>>

(* The shaper's answer, forced back into range by Write. *)
ClampAboveOnly(take, n) == IF take > n THEN n ELSE take
Clamp(take, n) == IF take = 0 \/ take > n THEN n ELSE take

(* The test of the flush loop. *)
LoopDoneEarly(buf) == Len(buf) <= 1
LoopDone(buf) == buf = <<>>

(* The flushing flag while a chunk is out, with rest left in wbuf. *)
FlushingUntilLast(rest) == rest # <<>>
FlushingDuring(rest) == TRUE

(* One turn of the flush loop over buf, up to the point where Write lets   *)
(* go of wmu: cut a chunk and go to writeRecord, or find buf empty and     *)
(* return.                                                                 *)
FlushTurn(t, buf) ==
    IF LoopDone(buf)
    THEN /\ wbuf' = buf
         /\ flushing' = FALSE
         /\ pc' = [pc EXCEPT ![t] = "idle"]
         /\ rec' = [rec EXCEPT ![t] = NoRec]
    ELSE \E take \in Takes :
            LET n == Clamp(take, Len(buf))
            IN  /\ rec' = [rec EXCEPT ![t] = [typ     |-> "data",
                                              payload |-> SubSeq(buf, 1, n),
                                              seq     |-> 0]]
                /\ wbuf' = SubSeq(buf, n + 1, Len(buf))
                /\ flushing' = FlushingDuring(wbuf')
                /\ pc' = [pc EXCEPT ![t] = "wireLock"]

(* wmu.Lock() returns. *)
WmuFree == wmu = NoThread

(* Write's first look at werr. *)
RefusedNever == FALSE
Refused == werr

(* The sticky error: nothing is queued. *)
WriteRefused(t) ==
    /\ pc[t] = "wLock"
    /\ WmuFree
    /\ Refused
    /\ size' = [size EXCEPT ![t] = 0]
    /\ pc' = [pc EXCEPT ![t] = "idle"]
    /\ UNCHANGED <<calls, wmu, wireMu, once, wbuf, flushing, werr, sendSeq, rec>>
    /\ UNCHANGED <<netVars, readerVars, histVars>>

(* The bytes that this Write appends. *)
NewBytes(t) == [i \in 1..size[t] |-> accepted + i]

(* Another goroutine is the flusher. *)
FlushSeenNever == FALSE
FlushSeen == flushing

(* Append, and either leave the bytes to the flush in progress or become   *)
(* the flusher.                                                            *)
WriteEnter(t) ==
    /\ pc[t] = "wLock"
    /\ WmuFree
    /\ ~Refused
    /\ accepted' = accepted + size[t]
    /\ size' = [size EXCEPT ![t] = 0]
    /\ \/ /\ FlushSeen
          /\ wbuf' = wbuf \o NewBytes(t)
          /\ pc' = [pc EXCEPT ![t] = "idle"]
          /\ UNCHANGED <<flushing, rec>>
       \/ /\ ~FlushSeen
          /\ FlushTurn(t, wbuf \o NewBytes(t))
    /\ UNCHANGED <<calls, wmu, wireMu, once, werr, sendSeq>>
    /\ UNCHANGED <<netVars, readerVars, sealed, closeAt, overlap>>

(* Back from writeRecord, with wmu again. *)
WriteResume(t) ==
    /\ WmuFree
    /\ \/ /\ pc[t] = "failed"
          /\ flushing' = FALSE
          /\ werr' = TRUE
          /\ rec' = [rec EXCEPT ![t] = NoRec]
          /\ pc' = [pc EXCEPT ![t] = "idle"]
          /\ UNCHANGED wbuf
       \/ /\ pc[t] = "wrote"
          /\ FlushTurn(t, wbuf)
          /\ UNCHANGED werr
    /\ UNCHANGED <<size, calls, wmu, wireMu, once, sendSeq>>
    /\ UNCHANGED <<netVars, readerVars, histVars>>

-----------------------------------------------------------------------------
(* writeRecord, reached by the flusher without wmu and by Close with it *)

(* wireMu.Lock() returns. *)
WireFreeAlways == TRUE
WireFree == wireMu = NoThread

LockWire(t) ==
    /\ pc[t] = "wireLock"
    /\ WireFree
    /\ wireMu' = t
    /\ pc' = [pc EXCEPT ![t] = "seal"]
    /\ UNCHANGED <<size, calls, wmu, once, wbuf, flushing, werr, sendSeq, rec>>
    /\ UNCHANGED <<netVars, readerVars, histVars>>

(* AEAD seal: the sequence number is the nonce. *)
Seal(t) ==
    /\ pc[t] = "seal"
    /\ rec' = [rec EXCEPT ![t].seq = sendSeq]
    /\ sealed' = Append(sealed, rec'[t])
    /\ pc' = [pc EXCEPT ![t] = "advance"]
    /\ UNCHANGED <<size, calls, wmu, wireMu, once, wbuf, flushing, werr, sendSeq>>
    /\ UNCHANGED <<netVars, readerVars, accepted, closeAt, overlap>>

(* sendSeq++, then into raw.Write. *)
Advance(t) ==
    /\ pc[t] = "advance"
    /\ sendSeq' = sendSeq + 1
    /\ pc' = [pc EXCEPT ![t] = "raw"]
    /\ UNCHANGED <<size, calls, wmu, wireMu, once, wbuf, flushing, werr, rec>>
    /\ UNCHANGED <<netVars, readerVars, histVars>>

(* A record, whole or cut short, as the socket takes it. *)
OnWire(r, whole) == [typ |-> r.typ, payload |-> r.payload, seq |-> r.seq, whole |-> whole]

(* raw.Write returned: wireMu is released. *)
RawReturn(t, outcome) ==
    /\ wireMu' = NoThread
    /\ pc' = [pc EXCEPT ![t] = outcome]
    /\ UNCHANGED <<size, calls, wmu, once, wbuf, flushing, werr, sendSeq, rec>>
    /\ UNCHANGED <<sockOpen, netUp, readerVars, histVars>>

(* raw.Write takes the whole record.  It blocks while the far end is       *)
(* SocketCap records behind.                                               *)
RawWriteOk(t) ==
    /\ pc[t] = "raw"
    /\ sockOpen /\ netUp
    /\ Len(wire) - rpos < SocketCap
    /\ wire' = Append(wire, OnWire(rec[t], TRUE))
    /\ RawReturn(t, "wrote")

(* raw.Write returns an error having written nothing, or part of the       *)
(* record: the socket is closed under it, the connection was reset, or a   *)
(* write deadline passed.                                                  *)
RawWriteFail(t) ==
    /\ pc[t] = "raw"
    /\ \/ ~sockOpen \/ ~netUp \/ "none" \in Faults
       \/ "part" \in Faults
    /\ \/ UNCHANGED wire
       \/ /\ netUp
          /\ "part" \in Faults
          /\ wire' = Append(wire, OnWire(rec[t], FALSE))
    /\ RawReturn(t, "failed")

-----------------------------------------------------------------------------
(* Close *)

(* closeOnce has not let anybody in. *)
OnceFirstByDone == once # "done"
OnceFirst == once = "new"

(* closeOnce: the first caller runs the alert, a caller that arrives while *)
(* it runs waits, a later one goes straight to raw.Close.                  *)
CloseCall(t) ==
    /\ pc[t] = "idle"
    /\ \/ /\ OnceFirst
          /\ once' = "running"
          /\ closeAt' = accepted + 1
          /\ pc' = [pc EXCEPT ![t] = "cLock"]
       \/ /\ once = "running"
          /\ pc' = [pc EXCEPT ![t] = "once"]
          /\ UNCHANGED <<once, closeAt>>
       \/ /\ once = "done"
          /\ pc' = [pc EXCEPT ![t] = "rawClose"]
          /\ UNCHANGED <<once, closeAt>>
    /\ UNCHANGED <<size, calls, wmu, wireMu, wbuf, flushing, werr, sendSeq, rec>>
    /\ UNCHANGED <<netVars, readerVars, accepted, sealed, overlap>>

CloseOnceDone(t) ==
    /\ pc[t] = "once"
    /\ once = "done"
    /\ pc' = [pc EXCEPT ![t] = "rawClose"]
    /\ UNCHANGED <<size, calls, wmu, wireMu, once, wbuf, flushing, werr, sendSeq, rec>>
    /\ UNCHANGED <<netVars, readerVars, histVars>>

(* writeSized: wmu is taken here and held until writeRecord returns.       *)
CloseLock(t) ==
    /\ pc[t] = "cLock"
    /\ WmuFree
    /\ wmu' = t
    /\ rec' = [rec EXCEPT ![t] = [typ |-> "alert", payload |-> <<>>, seq |-> 0]]
    /\ overlap' = flushing
    /\ pc' = [pc EXCEPT ![t] = "wireLock"]
    /\ UNCHANGED <<size, calls, wireMu, once, wbuf, flushing, werr, sendSeq>>
    /\ UNCHANGED <<netVars, readerVars, accepted, sealed, closeAt>>

(* The alert is out, or failed: the error is dropped. *)
CloseResume(t) ==
    /\ pc[t] \in {"wrote", "failed"}
    /\ wmu' = NoThread
    /\ once' = "done"
    /\ rec' = [rec EXCEPT ![t] = NoRec]
    /\ pc' = [pc EXCEPT ![t] = "rawClose"]
    /\ UNCHANGED <<size, calls, wireMu, wbuf, flushing, werr, sendSeq>>
    /\ UNCHANGED <<netVars, readerVars, histVars>>

RawClose(t) ==
    /\ pc[t] = "rawClose"
    /\ sockOpen' = FALSE
    /\ pc' = [pc EXCEPT ![t] = "closed"]
    /\ UNCHANGED <<size, calls, wmu, wireMu, once, wbuf, flushing, werr, sendSeq, rec>>
    /\ UNCHANGED <<netUp, wire, readerVars, histVars>>

-----------------------------------------------------------------------------
(* The far Conn: Read *)

(* decryptRecord authenticates a record against recvSeq. *)
Opens(r) == r.whole /\ r.seq = recvSeq

(* Read goes to the socket: nothing is pending and no error is kept. *)
MayReadPastError == pending = <<>>
MayRead == pending = <<>> /\ rerr = "nil"

(* io.ReadFull gives io.EOF for a record that was cut exactly behind its   *)
(* header, when the socket ends there.                                     *)
EndsInRecord(r) == ~r.whole /\ rpos + 1 = Len(wire) /\ ~sockOpen /\ netUp

(* Read with nothing pending pulls the next record off the socket. *)
ReadRecord ==
    /\ MayRead
    /\ rpos < Len(wire)
    /\ LET r == wire[rpos + 1]
       IN  \/ /\ Opens(r)
              /\ recvSeq' = recvSeq + 1
              /\ pending' = IF r.typ = "data" THEN r.payload ELSE <<>>
              /\ rerr' = IF r.typ = "alert" THEN "eof" ELSE "nil"
           \/ /\ ~Opens(r)
              /\ r.whole \/ rpos + 1 < Len(wire) \/ ~sockOpen \/ ~netUp
              /\ rerr' \in {"fail"} \cup {e \in {"eof"} : EndsInRecord(r)}
              /\ UNCHANGED <<recvSeq, pending>>
    /\ rpos' = rpos + 1
    /\ UNCHANGED <<senderVars, netVars, histVars, delivered>>

(* The socket ends between two records: io.ReadFull gives io.EOF, or the   *)
(* error of a reset.                                                       *)
ReadEnd ==
    /\ MayRead
    /\ rpos = Len(wire)
    /\ ~sockOpen \/ ~netUp
    /\ rerr' = IF netUp THEN "eof" ELSE "fail"
    /\ UNCHANGED <<senderVars, netVars, histVars, rpos, recvSeq, pending, delivered>>

(* Read copies a prefix of pending to its caller. *)
ReadDeliver ==
    /\ pending # <<>>
    /\ \E n \in 1..Len(pending) :
          /\ delivered' = delivered \o SubSeq(pending, 1, n)
          /\ pending' = SubSeq(pending, n + 1, Len(pending))
    /\ UNCHANGED <<senderVars, netVars, histVars, rpos, recvSeq, rerr>>

-----------------------------------------------------------------------------
(* The network resets the connection: what the far end has not taken yet   *)
(* may be lost from any point on.                                          *)
Reset ==
    /\ "reset" \in Faults
    /\ netUp
    /\ netUp' = FALSE
    /\ \E n \in rpos..Len(wire) : wire' = SubSeq(wire, 1, n)
    /\ UNCHANGED <<senderVars, sockOpen, readerVars, histVars>>

Quiet(t) == pc[t] \in {"idle", "closed"}

(* Every call has returned and the far end waits for bytes that nobody is  *)
(* going to write.  Not a step of the program: what is left without it is  *)
(* a real deadlock.                                                        *)
Terminated ==
    /\ \A t \in Threads : Quiet(t)
    /\ \A t \in Writers : pc[t] = "idle"
    /\ pending = <<>>
    /\ rerr = "nil" /\ rpos < Len(wire) => ~wire[rpos + 1].whole
    /\ UNCHANGED vars

WriteStep(t) == WriteCall(t) \/ WriteRefused(t) \/ WriteEnter(t) \/ WriteResume(t)
RecordStep(t) == LockWire(t) \/ Seal(t) \/ Advance(t) \/ RawWriteOk(t) \/ RawWriteFail(t)
CloseStep(t) == CloseCall(t) \/ CloseOnceDone(t) \/ CloseLock(t) \/ CloseResume(t) \/ RawClose(t)
ReadStep == ReadRecord \/ ReadEnd \/ ReadDeliver

Next ==
    \/ \E t \in Writers : WriteStep(t)
    \/ \E t \in Threads : RecordStep(t)
    \/ \E t \in Closers : CloseStep(t)
    \/ ReadStep
    \/ Reset
    \/ Terminated

Spec == Init /\ [][Next]_vars

(* What the sender's fairness may rely on: a goroutine that can take a     *)
(* step takes it (Go's mutexes are starvation free), and a socket with     *)
(* room takes the record.  A fault is never owed.                          *)
RecordProgress(t) ==
    \/ LockWire(t) \/ Seal(t) \/ Advance(t) \/ RawWriteOk(t)
    \/ RawWriteFail(t) /\ (~sockOpen \/ ~netUp)
WriteProgress(t) == WriteRefused(t) \/ WriteEnter(t) \/ WriteResume(t) \/ RecordProgress(t)
CloseProgress(t) ==
    CloseOnceDone(t) \/ CloseLock(t) \/ CloseResume(t) \/ RawClose(t) \/ RecordProgress(t)

(* The far end may stop reading for ever. *)
FairSpec ==
    /\ Spec
    /\ \A t \in Writers : WF_vars(WriteProgress(t))
    /\ \A t \in Closers : WF_vars(CloseProgress(t))

(* The far end keeps calling Read. *)
ReaderFair == WF_vars(ReadStep)

-----------------------------------------------------------------------------
(* Types *)

Bytes == 1..MaxBytes

PCs == {"idle", "wLock", "wireLock", "seal", "advance", "raw", "wrote", "failed",
        "once", "cLock", "rawClose", "closed"}

Records == [typ : {"none", "data", "alert"}, payload : Seq(Nat), seq : Nat]

WireRecords == [typ : {"none", "data", "alert"}, payload : Seq(Nat), seq : Nat, whole : BOOLEAN]

(* In particular, only Close holds wmu from one step to the next. *)
LocksTypeOK ==
    /\ pc \in [Threads -> PCs]
    /\ wmu \in Closers \cup {NoThread}
    /\ wireMu \in Threads \cup {NoThread}
    /\ once \in {"new", "running", "done"}

CallsTypeOK ==
    /\ size \in [Writers -> Nat]
    /\ calls \in [Writers -> 0..MaxCalls]

BufferTypeOK ==
    /\ wbuf \in Seq(Nat)
    /\ flushing \in BOOLEAN
    /\ werr \in BOOLEAN

(* In particular, nobody emits an empty data record. *)
RecordTypeOK ==
    /\ sendSeq \in Nat
    /\ rec \in [Threads -> Records]
    /\ \A t \in Threads : rec[t].typ = "data" => rec[t].payload # <<>>

NetTypeOK ==
    /\ sockOpen \in BOOLEAN
    /\ netUp \in BOOLEAN
    /\ wire \in Seq(WireRecords)
    /\ rpos \in Nat
    /\ rpos <= Len(wire)

ReaderTypeOK ==
    /\ recvSeq \in Nat
    /\ pending \in Seq(Nat)
    /\ rerr \in {"nil", "eof", "fail"}
    /\ delivered \in Seq(Nat)

HistTypeOK ==
    /\ accepted \in Nat
    /\ sealed \in Seq(Records)
    /\ closeAt \in Nat
    /\ overlap \in BOOLEAN

(* Every variable has its type. *)
TypeOK ==
    /\ LocksTypeOK
    /\ CallsTypeOK
    /\ BufferTypeOK
    /\ RecordTypeOK
    /\ NetTypeOK
    /\ ReaderTypeOK
    /\ HistTypeOK

-----------------------------------------------------------------------------
(* Safety *)

(* A nonce seals one record: however Write, the flush it hands bytes to    *)
(* and Close interleave, and whether or not the socket took the record,    *)
(* the i-th record sealed has sequence number i - 1 (conn.go:182-185).     *)
NonceNeverReused ==
    \A i \in 1..Len(sealed) : sealed[i].seq = i - 1

(* Records reach the socket in the order of their sequence numbers, which  *)
(* is the only order the far end can decrypt (conn.go:185-187).            *)
WireInSequence ==
    \A i, j \in 1..Len(wire) : i < j => wire[i].seq < wire[j].seq

(* At most one close_notify is ever sealed, with any number of goroutines  *)
(* in Close (closeOnce, conn.go:190-191).                                  *)
OneAlert ==
    \A i, j \in 1..Len(sealed) :
        sealed[i].typ = "alert" /\ sealed[j].typ = "alert" => i = j

(* The far end reads the bytes that Write accepted, in the order it        *)
(* accepted them, without a hole or a repetition, whatever the socket does *)
(* to a record and whoever flushed it.                                     *)
DeliveredInOrder ==
    /\ Len(delivered) <= accepted
    /\ \A i \in 1..Len(delivered) : delivered[i] = i

(* Bytes that Write left to another goroutine's flush are not stranded:    *)
(* when no flush is in progress the buffer is empty, or the error that     *)
(* every later Write returns is set.                                       *)
NothingStranded ==
    ~flushing /\ ~werr => wbuf = <<>>

(* Once the socket has failed a data record no further data record is      *)
(* sealed: the far end could not decrypt it (the sequence number is spent).*)
(* Only the alert may follow.                                              *)
NoDataAfterFailure ==
    werr => \A t \in Threads : rec[t].typ # "data"

(* When Close found no flush in progress, a far end that sees the clean    *)
(* end of the stream has read every byte accepted before Close was called, *)
(* unless a Write was told of an error.                                    *)
CleanCloseIsComplete ==
    /\ rerr = "eof" /\ closeAt > 0 /\ ~overlap /\ ~werr
    => Len(delivered) >= closeAt - 1

-----------------------------------------------------------------------------
(* What a comment claims and Close does not keep *)

(* conn_race_test.go:78: a close_notify does not overtake a flush: no byte *)
(* accepted before Close was called is sealed after the alert.             *)
FlushNotOvertaken ==
    \A i, j \in 1..Len(sealed) :
        i < j /\ sealed[i].typ = "alert" =>
            \A k \in 1..Len(sealed[j].payload) : sealed[j].payload[k] >= closeAt

-----------------------------------------------------------------------------
(* Liveness *)

(* If the far end keeps reading, every accepted byte reaches it, including *)
(* the ones handed to another goroutine's flush while it was ending,       *)
(* unless the socket failed or somebody called Close.                      *)
EventuallyDelivered ==
    ReaderFair =>
        \A n \in Bytes :
            accepted >= n ~> Len(delivered) >= n \/ werr \/ ~netUp \/ once # "new"

-----------------------------------------------------------------------------
(* Refinement *)

Stream == INSTANCE ByteStream WITH ended <- rerr # "nil"

(* The two Conns and the socket between them implement the byte stream     *)
(* that Write's and Read's callers rely on.                                *)
ImplementsByteStream == Stream!Spec
=============================================================================
