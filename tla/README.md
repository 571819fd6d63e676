# Verification of twiddle

twiddle is a transport that disguises a tunnel as the TLS 1.3 traffic of a
browser to a popular site (the *cover*).  This directory holds TLA+ models of the
parts of it that keep state or run concurrently, the TLC configurations that
check them on small instances, and TLAPS proofs of the main results for every
instance.

`PROJECT.json` is the index: which definition models which lines (`map`), what
each run checks (`runs`), the change of the model that each property notices
(`mutants`), what is hard to test in the code (`hazards`), where the code
disagrees with what its comments say (`findings`) and what is proved (`theorems`).

## 1. The system

| part | source | state | operations |
|---|---|---|---|
| record layer | `conn.go` | write buffer, flush flag, sticky error, send and receive sequence numbers, two mutexes, `closeOnce` | `Write`, `Read`, `Close`, `writeSized`, `consumeRecord` |
| opening handshake | `handshake.go` | none of its own: drives the socket in lock step and rotates the credential | `Client`, `Server` |
| tickets | `auth.go`, `echcarrier.go` | the ticket key | `Issue`, `IssueFullFor`, `VerifyTicketAuth`, `VerifyECHTicketAuth` |
| replay gate | `replay.go` | per client: newest issue time, tickets of that second, last use | `Consume` |
| contact memory | `contacts.go` | time of the last full handshake per (local, remote) host, generation | `needsFull`, `record`, `Reset` |
| harvester | `harvester.go` | emit pool, samples of other builds held aside, the pool file | `NewHarvester`, `Offer` |
| hello pool | `source.go`, `pool.go` | pool files, read once | `LoadPool`, `Sanitize`, `Usable`, `Fingerprint` |
| hello rewriting | `twiddle.go`, `hello.go`, `serverhello.go` | none | `Twiddle`, `Shuffle`, `Rerandomize` |
| cover profiles | `cover.go` | tables | `CoverFor`, `Valid`, `DrawFullRemainder`, `Adopt` |
| shaping | `shaping.go` | none | `Shaper.Next` |
| cover prober | `harvest/coverprobe` | recorder of one TLS session, range of the samples | `ProbeBoth`, `SampleFull` |
| tools | `harvest/cmd/`, `cmd/`, `site/` | none that the transport uses | credentials, captures, reports |

**How they interact.**  `Client` asks the contact memory for the shape of the
opening (full or resumed), draws a hello from the pool, rewrites it around the
credential and writes it.  `Server` validates the hello against the cover
profile, verifies its ticket, spends it at the replay gate and answers; anything
else is `ErrNotOurs`, which the embedding adapter (not in this repository)
forwards to the real cover.  Both ends then exchange as many records as the
profile says, and the server mints the next credential, which the client must use
next time.  What both return is a `Conn`.  The harvester runs beside this, on the
device, and feeds the pool.  The prober runs on the egress and feeds its profile.

**What is hard.**  Goroutines share a `Conn`, a gate, a contact memory and a
harvester; locks are released around socket and file writes; decisions are made
at one time and acted on at a later one (verify/spend, decide/record,
snapshot/write); the two ends read by counting records; the opening sets no
deadline; files are replaced while calls overlap and processes die; bounds and
horizons meet at equality; a hello passes five rewriting steps of which each has
its own idea of what a hello must contain, and is authenticated over the bytes of
the last; sizes measured on one connection are emitted on another.  `PROJECT.json` lists each hazard at its line.

**What makes each part correct.**
Record layer: no nonce twice, the wire in sequence, the bytes written are the
bytes read, nothing accepted is stranded.
Gate: a ticket is good once; a genuine unspent ticket is refused only when
superseded.
Contact memory: no resumption without a full handshake that the same observer saw.
Opening: completion means agreement, alteration never completes, the stream is
aligned afterwards, nobody waits forever, rotation sustains itself.
Harvester: one build in the pool, an update takes over, the file is never torn, it
is behind the pool only after a write or a read that failed, and a client with a
device pool falls back to another source only where it cannot read the file, and says so.
Emission: what the screening admits is emitted, what is emitted is accepted and
answered, it looks like a browser's, and nothing of the user's own connection is in it.
Prober: an adopted profile is valid and made of lengths that were measured.

## 2. Modules

| module | models | checked by | proofs |
|---|---|---|---|
| `Conn` | one direction of `conn.go`: n goroutines in `Write` and `Close`, the socket, the far `Read` | `MCConn` | `ConnProofs` |
| `ByteStream` | what `Conn` promises its callers; `Conn` refines it | `MCConn` | `ConnProofs` |
| `ReplayGate` | `Issue`, age check, `Consume` under concurrent `Server` calls and a clock | `MCReplayGate` | `ReplayGateProofs` |
| `Contacts` | `ContactMemory` under concurrent `Client` calls, a clock and changes of network | `MCContacts` | `ContactsProofs` |
| `Handshake` | `Client` and `Server` record by record, credential rotation | `MCHandshake` | `HandshakeProofs` |
| `Harvester` | `Offer` up to the unlock | `MCHarvester` | `PoolFileProofs` |
| `PoolFile` | `Harvester` composed with `writePoolFile`, `LoadPool`, crashes and restarts | `MCPoolFile` | `PoolFileProofs` |
| `Cover` | profiles, `Valid`, the sizes a server draws, `Adopt` (operators) | `MCOpening` | `OpeningProofs` |
| `CoverProbe` | the prober against an upstream that chooses its records; extends `Cover` | `MCOpening` | `OpeningProofs` |
| `Hello` | a ClientHello and each function that rewrites or checks one (operators) | `MCOpening` | `EmissionProofs` |
| `Opening` | `CoverProbe` composed with `Client`, `Twiddle` and `Server` on one hello | `MCOpening` | `OpeningProofs`, `EmissionProofs` |
| `NatLemmas` | nothing of the code: the least of a set of naturals, induction, loops; what the proofs about loops rest on | | itself |

### Conn
A step ends where the code releases or waits for a lock or the socket, so a
`Write` is: take `wmu` and append (`WriteEnter`), lock the wire (`LockWire`),
number and seal (`Seal`), the socket's answer (`RawWriteOk`, `RawWriteFail`,
`RawReturn`), retake `wmu` (`WriteResume`) and go round the flush loop.  Bytes are
named by their place in the order in which `Write` accepted them, which makes
"the stream read is the stream written" the statement that the far end reads
1, 2, 3, ...  The shaper is any function (`Takes`), as `Shaper` is an interface;
`Clamp` is what `Write` makes of its answer.  A socket fault takes nothing, a part
of a record, or resets the connection; where a record is cut exactly behind its header
the far `Read` may report `io.EOF` instead of an error (`EndsInRecord`).  `sealed`, `accepted`, `delivered`,
`closeAt` and `overlap` are history.

### ReplayGate
Tickets store whole seconds (`UnixSecond`); a companion ticket has the issue time
of its credential.  A handler verifies a ticket at one reading of the clock and
spends it at a later one, at most `MaxDelay` ticks apart.  Anybody may present any
issued ticket any number of times.  The egress may restart (`Restart`): the cache is
memory only, so it is empty afterwards, and the handlers are gone, while the ticket
key lives on.  What a restart and the memory backstop forget is the history variable
`forgotten`: spent tickets whose record is lost and that have not been admitted
since.  `SingleUse` therefore says that a ticket is admitted at most once between two
losses of its client's record, and at most once at all where there are none.

### Contacts
The memory's purpose is stated from the side of an observer, who sits on one
network and sees its openings complete (`lastFull`).  Two networks may hand out
the same local address; the caller then has to call `Reset`, and does
(`MoveAndReset`).  A move to a network with an address of its own may come without
`Reset` (`MoveSilently`).  Assumed: one reading of the clock per critical section
(in the code `time.Now()` is evaluated just before the lock is taken), and a socket
that was opened on the network the client is on when it decides.

### Handshake
Each read or write of a record is a step.  A key is what it was derived from, the
transcript as each end saw it.  An encrypted record is its key, number and body.
The gate is the set of spent tickets, which is what `ReplayGate` proves it to be
for a client that spends its newest credential.  Openings come one after the
other.  *Altered* means that the payload of a record changed; a changed length
field is a cut.  The egress may have been probed at another time than the client
was provisioned, so the number of records in its full profile is arbitrary
(`ServerFulls`); the resumed profile comes from one table and is the same at both.
The server spends a ticket before the opening is complete, so a cut may leave the
client with one that is spent.  `tried` is the set of shapes in which the credential
has been presented; `CleanOpeningsComplete` claims an opening that is the first of its
shape on its credential, also when the one before it was cut: the companion ticket
and the ordinary one are spent separately.

### Harvester and PoolFile
A hello is its build, the length of its server name and the part of the body the
emitter cannot regenerate.  Fingerprints are hashes; `Rank` is their order, which
decides ties.  `PoolFile` takes `Offer` up to the unlock from `Harvester` as one
step and follows it by the system calls of `os.WriteFile` and `os.Rename` on
inodes: opening `path.tmp` truncates whatever inode has that name.  A line is
written whole or not at all, and a crash kills the process, not the disk.  `unsaved`
records that a write failed, which is when `Offer` returned an error.  A read of the
file may fail although the file is there and whole (no permission, no descriptor, an
I/O error): `NewHarvester` then drops the error and starts with an empty pool
(`Restart(FALSE)`, remembered in `unread`), while `LoadPool` takes the next source and
puts the reason into `Skipped` (`ReadError`, `SkippedDevice`).  `LoadPool` takes the
first of device file, configuration and compiled-in pool that has a hello, and of that
one the largest build; it is a function of the disk and of which of the two files can
be read, so that what a client would load is known in every state.  The sources that a client is configured
with are any sequences of hellos, also with one hello twice: `LoadPool` does not
remove duplicates, so what `NoSilentFallback` says of them is that they have one
fingerprint at most.  `MinorityWaits` says that no group held aside outnumbers the
pool and that none is of the pool's build.  It does not say that a hello held aside
is unknown to the pool: the contribution key leaves the server name out and the
fingerprint has its length, so a sample held aside under one length may share its
key with one that joins the pool later under another, and the code does not look.

### Cover and CoverProbe
A profile is the record of its fields with record lengths as integers; the table of
the three measured covers is the code's.  `Adopt` is one function of a profile and a
probe's result, and returns the profile unchanged with every error.  In `CoverProbe`
a session of the prober is a dial (`Dial`, where the upstream chooses the records of
its opening), reads of the recorder (`Read`), the point where `crypto/tls` reports
the handshake complete and the recorder is frozen (`HandshakeDone`), the request that
banks a ticket, the response, and the close.  The upstream may send a record before
it sees the client's Finished (`SendEarly`), sessions fail anywhere, and the second
one may or may not resume.  `ProbeBoth` adopts a full and a resumed result;
`SampleFull` repeats the pair and merges the lowest and highest length of each record.
`crypto/tls` and the upstream are external.  The recorder sits below `crypto/tls` and
counts a record of any type and length as soon as its bytes arrive, so that what is
read ahead of the handshake (`Early`) and what answers the banking request
(`Responses`) may be anything that has a header: `crypto/tls` looks at them after the
freeze, and its refusal only ends the banking loop (`BankEnds`).  All that is assumed
(`UpstreamAssumption`) is that the application records of the opening itself have
between 22 and 16406 bytes, because `crypto/tls` has accepted each of them when it
reports the handshake complete, and TLS 1.3 allows no others.  `sent` is the history of
the records of the samples of a probe, as the upstream sent them; the recorder's own
reading of them is not used to say what was measured.

### Hello and Opening
A pool is the set of its hellos, as a draw is uniform.  A hello is its random,
session id, suites and sequence of extensions.  A value that
the emitter regenerates is represented by where it came from (*tapped*, *zero*,
*fresh*, a ticket, a MAC over a hello), which is what the properties tell apart; the
extensions that have a rule of their own (GREASE, server name, supported groups, key
share, ECH, session ticket, early data, pre-shared key) keep the structure that the
rule looks at.  A MAC is the term of its key and the hello it covers, so a change of
the hello after authentication, or another order of the steps, invalidates it.
Captures are any sets of hellos that a browser may have sent (`CaptureAssumption`,
`IsBrowsers`): each extension type once, GREASE apart, and a GREASE key share only of
a group that is offered, as RFC 8446 (4.2, 4.2.8) asks of a client.
`ParseClientHello` does not check this; what the tap sees are hellos of the device's
browser.  The name "visited" stands for the names of tapped connections, and the cover
that a client is configured with is not one of them (`TappedNameAssumption`).
`Opening` runs `Client`'s checks of its configuration and choice of shape
(`ClientRefuses`, `ClientPicks`), the five steps of `Twiddle` in their order (`sni`,
`rerandomize`, `shuffle`, `keyshare`, `auth`), each of which may fail
(`TwiddleFails`), and `Server` up to the last record of the opening: validation and
authentication (`ServerReads`), synthesis of the ServerHello (`ServerAnswers`), one
record of the remainder after the other at a length that the profile may draw
(`ServerWritesRemainder`), and the client's flight.  The server's profile is whatever
the prober left.  The age and the spending of tickets are `ReplayGate`'s, the keys
and the rotation `Handshake`'s.

## 3. Runs

| run | bounds | what it shows |
|---|---|---|
| `conn` | 2 writers, 1 closer, 2 calls each, 3 bytes, socket of 2 records, every fault | nonces, wire order, delivered stream, hand-off of the flush, failure is sticky, a close that meets no flush is complete, refinement of `ByteStream` |
| `conn_progress` | 2 writers of 1 call, 2 closers, 3 bytes in records of one, socket of 1 record that may be reset | one `close_notify`; no deadlock of `closeOnce`, `wmu` and `wireMu`; every accepted byte is delivered |
| `conn_overtake` | *violation* | `Close` overtakes a flush |
| `replay` | 2 clients in a cache of 1, 2 handlers, 4 tickets, restarts at any time; the horizon outlasts `MaxAge` by more than the delay | tickets are single-use between losses of the record, siblings pass in any order, the bound is kept |
| `replay_equal` | *violation*: horizon = `MaxAge`, the default | a ticket is admitted twice at the boundary |
| `contacts` | 2 connections, 3 networks of which 2 share an address, 2 egresses, 2 entries | no resumption without a predecessor |
| `handshake` | 3 openings, 2 kinds of records altered, full profiles of 0 to 3 records against 2 | agreement, tamper evidence, alignment; openings end; clean ones complete, on the rotated credential or on the other half of one whose first opening was cut |
| `harvester_update` | 2 builds of 3 hellos, pool of 2 | the build in use takes over |
| `harvester_starved` | *violation*: server names of two lengths | trimming starves the build in use |
| `pool_file` | 3 groups of hellos, pool of 2, 1 caller, 1 crash, failing writes and reads | one build in the pool, nothing held aside outnumbers it; the file is whole, holds the pool in use unless a write failed or the last start could not read it, and is never replaced by a shorter one but after such a start; the client falls back to a worse source only with the reason in `Skipped` |
| `pool_file_torn` | *violation*: 2 callers | they share `path.tmp` and tear the file |
| `opening` | 1 egress probed at most twice with 2 samples each, 1 record per session beyond its opening, which may be one that `crypto/tls` refuses, 9 upstream openings; 14 captured pools, each as captured and as the device pool keeps it; 2 GREASE codepoints | what is screened is emitted, what is emitted is accepted and answered, but for the cases the properties name, it has a browser's shape and nothing of the tapped connection; profiles stay valid and measured |

**Why the bounds are enough.**  Three bytes with slices of 0 to 2 let a flush take
several turns, leave bytes to another goroutine and meet `Close` in between; two
writers and one closer are every pair of lock holders.  Two tickets of one second,
a third of another, one eviction and one admission to a full cache are all that the
gate's branches distinguish.
Two entries and two egresses on three networks make the contact memory evict live
entries; the theorem then removes the bound.  A pool of 2 with 3 hellos of a
build fills and overflows the pool and, with three groups, the samples held aside
(`MaxPool` + 1).  Profiles shorter by one, equal and longer by one than the
client's are the three ways in which counts can disagree.  In `opening` each captured
hello lacks one thing that some step needs (a name, GREASE at either end, a key share
of 32 bytes, a whole key share, a session id, a suite, an ECH payload of the needed
size) or has one too many (a pre-shared key, a ticket, GREASE in between, a second
X25519 entry); upstreams are at the edges of what a TLS record may be (22 and 16406
bytes) and of what `Adopt` takes, on both sides.  What arrives behind the opening is a
record of the server (41 bytes) or one that is no TLS record (10 bytes), and a flight of
one record makes with it one of two, so that the range of an adopted profile may have
an end that `writeSized` refuses.  Two samples are the least that has a
range, two probes the least that adopts over an adopted profile, and a probe of
another host is refused.

**Deadlock** is checked in the `conn` runs, where a goroutine inside a call that
nobody can wake would be one, and in `contacts` and `opening`.  Elsewhere the model really stops:
the gate at the end of its clock, the openings at `MaxDials`, the harvester when
every hello is known.

**Fairness.**  `Conn`: each goroutine inside a call keeps running (weak fairness
of its steps; Go's mutexes are starvation free), and nothing is owed by the far end, which may
stop reading, so that a `raw.Write` never returns; `EventuallyDelivered` names the
reader's fairness as its premise.  `Handshake`: both calls
keep running, the caller of a failed one closes the socket, and the adapter
answers what is not ours.  Nothing is assumed of the network: `OpeningEnds` holds
because a record that was sent is there to be read or the socket is cut.  It is
stated for ends with the same number of records, because with different numbers
and no cut both ends may indeed wait forever (no deadline is set in
`handshake.go`; it is the caller's).  `Harvester`: the browser in use keeps
offering each of its hellos.

## 4. Findings

1. `conn.go`: `close_notify` can overtake bytes of a flush in progress
   (`conn_overtake`), which a test comment excludes.
2. `replay.go`: with horizon = `MaxAge` a ticket can be admitted twice at exactly
   that age (`replay_equal`).
3. `harvester.go`: overlapping `Offer`s share `path.tmp`, and the file that one
   renames may be the one another has just truncated (`pool_file_torn`).
4. `harvester.go`: trimming can starve the updated browser (`harvester_starved`).
   With the default pool of 32: once the pool is full and another group holds more
   than half of the 33 places held aside, every further sample of the new build
   evicts an older one of its own.  Such a group is easily had, because the
   fingerprint contains the length of the server name: the old build's hellos for
   names of another length are one.

Smaller observations that no run is spent on.  `Close` waits for the wire with
`wmu` held, so behind a stalled flush it blocks every `Write`, which
`conn.go:175-176` means to avoid; no property says otherwise.  And `replay.go:132` calls what is older than a
client's newest ticket "spent or forged", while it may also be a genuine ticket of
an older credential that was never presented; `RefusedOnlyWhenSuperseded` states
what does hold.

An existing pool file that cannot be read is treated like a missing one at the start
(`harvester.go:50-58`, as its comment says): the pool is empty beside a full file,
nobody is told, and the next `Offer` replaces the file by one hello.  The comment
weighs refusing to harvest against going on, not what the first write afterwards
destroys.  `FileIsCurrent` and `NeverShrinks` except this case and show that it is the
only one, besides a failed write for the first.  `LoadPool` does report its own failed
read; it goes on with an older source all the same.

From `opening`, whose properties name these cases as their exceptions:
- `Usable` passes a hello that `Twiddle` refuses on every connection, because its
  key share has no X25519 entry of 32 bytes or is cut short; one that `Server` does
  not take for ours, because it never offered the cover's suite or its first X25519
  entry has another length; and one without a session id, which `Server`
  authenticates, spends and then cannot answer.
- A client configured for a full handshake with a credential that has no companion
  fails in `Twiddle`, not when its configuration is checked.
- An ECH extension cut before its suite has another contribution key once emitted.
- `freshKeyShare` zeroes the key of a group it does not know, where the comment at
  `twiddle.go:136-137` speaks of random contents.
- `crypto/tls` reads ahead, so a record that the server sends before the client's
  Finished may be counted into the opening, which `coverprobe.go:153-155` excludes;
  `AdoptsMeasured` counts such a record as measured.  An error of `tc.Close` discards
  a complete sample.
- The recorder counts such a record before `crypto/tls` has looked at it
  (`coverprobe.go:240-256`), the refusal that follows only ends the banking loop
  (`coverprobe.go:195`), and a session that then does not resume is accepted
  (`coverprobe.go:315`).  So a record of 6 to 21 or of more than 16406 bytes, from the
  server or from whoever can inject it, reaches the result; `Adopt` asks for more than
  5 bytes only (`cover.go:412`).  Every full opening that draws that length then fails
  in `writeSized` after its ticket was spent.  `opening` reaches this; `SpentIsAnswered`
  names it and shows that, besides a hello without a session id, nothing else leaves a
  spent ticket unanswered.

## 5. Proofs

All for arbitrary constants that satisfy the modules' named assumptions: any number
of goroutines, clients, networks, openings, probes and hellos, any pool size, any
sequence of bytes.  None of the invariants below is inductive by itself; what each
needs is said here.  Each strengthened invariant was checked by TLC on the instance
of its run (`EmitInv` with one probe instead of two) before it was proved.

**`ConnProofs`.**  `TypeCorrect`; `NoncesAreUnique`; `WireKeepsSequence`.  That the
next record's number is fresh follows from who is inside `writeRecord`.  `SequenceInv`
adds that at most one goroutine is, and holds `wireMu` (`WireMutex`); that `sendSeq`
counts the records sealed except for one between sealing and `sendSeq++`
(`NumberInv`); and that everything on the wire is numbered below what is in hand
(`WireBelow`).

And the stream that the numbers carry:
- `BytesAreNotStranded` and `FailureStopsData` follow from `FlusherInv`: the goroutine
  in the flush loop is the one that set `flushing`, there is one, and after a sticky
  error there is none.
- `OnlyOneAlert`: `closeOnce` is held by the closer that is inside it, and only that
  one has an alert in hand or has sealed one (`CloseInv`).
- `BytesInOrder` and `ConnRefinesByteStream`: `StreamInv` says that there is a
  function from record numbers to positions, where the bytes of each sealed record
  start in the order in which `Write` accepted them, such that the sealed records, the
  record in hand and `wbuf` tile that order without a gap; the socket holds sealed
  records, and the far end holds the bytes of the first `recvSeq` of them.  Every step
  is then a step of `ByteStream` or leaves its variables alone.
- `CleanEndIsComplete` adds what is known of the end (`CleanInv`): a data record that
  was sealed is on the wire, on its way, or failed; the far end has read a prefix of
  the wire without a gap; an end of the stream, also one at a record cut behind its
  header, comes after all that the socket took (`AtEnd`); and an alert whose `Close` met no flush was sealed after
  everything accepted before it.  The case that this leaves out is finding 1.

**`ReplayGateProofs`.**  `TypeCorrect`; `TicketsAreSingleUse`, from the assumption
`HorizonOutlasts` (`MaxAge` plus the verify-to-spend delay is less than the
horizon), which finding 2 shows to be needed.  `GateInv` adds that a handler
holds only what it verified at most `MaxDelay` ago, and that every spent ticket is
covered by its client's entry, is past the horizon, or is forgotten
(`SpentIsCovered`).  The backstop and a restart move tickets from the first case to
the third, an admission moves them back.  `CacheStaysBounded` needs that the tracked
clients are finitely many (`BoundInv`).  `RefusalsAreSuperseded` needs that an entry
records only tickets that were spent and that two tickets differ in their identity
(`RefusalInv`); it holds for any horizon.

**`ContactsProofs`.**  `TypeCorrect`, the memory's bound included;
`ResumptionsHavePredecessors`; `EntriesHaveHandshakes`.  `HistoryInv` adds
`EntriesAreEarned`: since the last `Reset` the client was on one home network and on
networks with addresses of their own, every opening that may still be recorded too,
and on these no entry is younger than the last full handshake the observer saw.  The
witness for the home network changes with `Reset`, which is why the generation check
is needed.

**`HandshakeProofs`.**  `TypeCorrect`; `CompletedEndsAgree`; `AlteredNeverOpens`;
`StreamsStartInStep`, for any profiles at the two ends, also ones of different
lengths.  The two ends never agree on where they are by a message that says so: they
count.  `OpeningInv` therefore relates the counters of each end to its place in the
code (`ClientInv`, `ServerInv`), the places of the two ends to each other (`BothInv`),
and says that what is in flight in each direction is a contiguous stretch of what its
sender wrote, starting where its reader is (`ToServerInv`, `ToClientInv`); a client
that reads a ticket where it expects one has then counted as many records as the
server planned.  `AlteredInv` says for each kind of alteration which end can no longer
get past which read.

**`PoolFileProofs`.**  The pool and its file.
- `PoolIsOneBuild`, `MinoritiesAreHeld`, `PoolsStayBounded`, for `Offer` by any number
  of goroutines, from `HarvestInv`: the pool is one build without a repeated
  contribution and within its bound, and each group held aside is of another build,
  without a repetition, and no larger than the pool.  What `largestBuild`, `trim` and
  grouping do to a pool is proved by induction over their loops (`GroupFacts`,
  `LargestBuildFacts`, `TrimFacts`, `NewestFacts`), and so is what `NewHarvester` makes
  of a good pool (`LoadedGood`) and of any file (`LoadedSound`).
- `FileTypesHold`, `PoolSurvivesOverlap` and `PoolNeverRepeats`, for any number of
  overlapping calls, with crashes and failing writes at every system call.  The pool in
  memory is `HarvestInv` until the first restart (`FirstRun`), because the lock covers
  all that `Offer` does to it.  After a restart on a torn file two builds may be mixed;
  what is left is `OverlapInv`: the two pools keep their bounds and hold each
  contribution once, snapshots fit a pool, a call that writes has a file open, and
  there is always another inode for `path.tmp` (a counting argument,
  `FreeInodeExists`).
- `FileStaysWhole`, `FileStaysCurrent`, `FileNeverShrinks`, `PoolSurvivesRestart` and
  `FallbackIsReported`, with crashes and failing writes at every system call and starts
  that cannot read the file, under the hypothesis
  `OneAtATime`: calls of `Offer` do not overlap.  Finding 3 shows that it is needed for
  the first, and a restart on the file that finding 3 tears that it is needed for
  `PoolSurvivesRestart`: `NewHarvester` does not look at builds.  `FileInv` adds what the inode of `path.tmp` holds at each
  place of the call (nothing before the write, the whole snapshot before the rename),
  that it is another inode than the pool file's, and that the snapshot is the pool.
  `FileNeverShrinks` needs more (`LearnedInv`): what the process holds never has fewer
  hellos than the file, unless its start could not read the file.

**`OpeningProofs`.**  `ProbeTypesHold`; `ProfilesStayValid`; `AdoptionIsMeasured`;
`SpentTicketsAreAnswered`.  `ProbeInv` follows a record from the upstream to the
profile: what the recorder had when it was frozen is a prefix of what was sent
(`TapInv`); every length in the result, and both ends of every range, was sent at that
place in a sample of this host (`ResultInv`), which makes it a length of an opening or
of a record read ahead (`AppLens`); and `Adopt` of a valid profile is valid, with such
lengths at both ends of every range (`AdoptOK`).  `OpenInv` adds that through
the five steps of `Twiddle` a hello stays one and keeps whether it has a session id,
and that a length that `writeSized` refuses was drawn between two ends of which one was
read ahead and never accepted (`FitsOrRefused`, `AtRefused`).

**`EmissionProofs`.**  `UsableHellosSurvive`, `EmittedHellosAreOurs`,
`EmissionsLookLikeChrome`, `NothingTappedIsEmitted` and `KeysSurviveEmitter`: for
every set of captures, every draw and every permutation.  The argument follows a hello
from the entry that was drawn to the wire.  `Moved` relates the two: the extensions of
the one are a permutation of those of the other, each *become* what the emitter may
make of its type (`Becomes`: GREASE another codepoint, a share another key of the same
group and length, an ECH payload another of the same kind, anything else itself).
`Rewrote` adds what has been replaced so far: the host, the random, every key, the GREASE
group, two different codepoints at the ends.  One lemma per step (`AfterSetSNI`,
`AfterRerandomize`, `AfterShuffle`, `AfterSetKeyShare`) takes `Rewrote` to the next,
and `Wired` says what either authenticator adds (`ResumedWire`,
`FullWire`); dropping extensions is a loop, of which `Left` is the invariant.  The
inductive invariant `EmitInv` is then small: what `Client` chose (`Chosen`), how far
the hello is built at each place of `Twiddle` (`Built`), and that a hello on the wire
that the egress can take is valid and authentic (`WireIsOurs`).  `KeysSurviveEmitter`
rests on the canonical form being a bag: a permutation of extensions with equal
canonical forms has the same one.  The state of the prober and the type of the opening
come from `ProbeInv` and `OpenInv`.

**`NatLemmas`.**  Induction is used through `SetInduction`, which has the property as
a set of naturals, and loops through `LoopExists`: where every step of a
loop has a value, the sequence of the values that the loop carries exists.

**What the proofs assume of the constants** (each is evaluated by TLC on the runs'
instances).  Most are ranges.  The others: the horizon outlasts a ticket
(`HorizonOutlasts`, a hypothesis of one theorem); an egress has a profile in the table
(`EgressAssumption`); the application records of an upstream's opening, which `crypto/tls` has accepted, have
TLS's lengths, and any other record has a header (`UpstreamAssumption`); captured entries are hellos that a browser may send
(`CaptureAssumption`), and the cover is not a tapped name (`TappedNameAssumption`);
there are two GREASE codepoints (`GreaseAssumption`);
fingerprints are ordered by numbers (`RankAssumption`); finitely many goroutines are in
`Offer` (`OffererAssumption`); the configured pools hold parsed hellos
(`SourceAssumption`).

**Only model-checked.**
- All liveness: the prover does not do fairness.

Of the safety properties that the runs check none is left.  The properties of the
file under overlapping calls of `Offer` are not theorems because they are false there
(`pool_file_torn`).

## 6. Not modelled

- Cryptography: sealing, MACs, key derivation.  A record opens where it should.
- Byte layout: `ParseClientHello`, `Marshal` and the offsets of each field.  A hello
  is taken as parsed; what a malformed one does is modelled only for the key share
  and the ECH extension, which the rewriting steps parse again.
- The two shapers' own tables, and the limit of a record's length: `Conn` takes any
  answer of a shaper, with `Sizes` and `Takes` standing for pieces that fit a record.
  `decryptRecord` refuses a length above 2^14 + 256 (`conn.go:350`) and the header has 16
  bits for it (`conn.go:309`), so an implementation of `Shaper` that answered with more
  than that would break the stream; neither of the two in `shaping.go` does.
- Overlapping calls of `Offer` beyond `pool_file_torn`: that the file is current is
  checked for one caller at a time.  Of two, the later rename may be the older
  snapshot, until the next change of the pool.
- Captures that were not sanitised keep what `Sanitize` removes; `NothingTapped` is
  about the device pool.
- Power loss: neither `os.WriteFile` nor `os.Rename` is followed by a sync.
- Helpers that only report (`FullOpeningBurst` and the lookups beside it).
- The credential tool (`cmd/`), the capture and analysis tools (`harvest/cmd/`) and
  `site/`: one-shot programs and pages without state of their own.

## 7. Plan

Done: the core (`Conn`, `ReplayGate`), then `Contacts`, `Handshake`, `Harvester`,
`PoolFile`, then `Cover`, `CoverProbe`, `Hello`, `Opening`, `LoadPool` and the restart
of the egress.  Proved: every safety property that the runs check and the
refinement of `ByteStream`; those of the pool file for calls that do not overlap, and
of the rest what survives overlapping calls.

Left to prove: liveness (`OpeningEnds`, `CleanOpeningsComplete`, `EventuallyDelivered`,
`UpdateTakesOver`), which is out of this prover's reach.

Left to model: the two shapers, of which every answer should be one that `Write` can
use and the padded length a measured mode.
