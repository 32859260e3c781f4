# A TLA+ development for the NaiveFox transport

The transport is a Caddy module (Go) that carries TCP streams inside traffic that looks like
an ordinary web application. A client opens a session, proves that it knows the password, and
from then on its streams are multiplexed in *cells* over one of three carriers: a WebSocket, an
HTTP/3 stream, or a TLS connection cut into short HTTPS requests ("packet delivery"). This
directory models the parts in which the hard behaviour lies, checks them with TLC and proves
nearly all of their safety properties, for every value of the constants, with TLAPS.

## 1. Inventory

| Part | State | Operations | What makes it correct |
|---|---|---|---|
| **Packet connection** `internal/packet/conn.go` | upload blocks (in order, pending, receipts), replay queue, cursors, generation, cork, deadline, one mutex and one broadcast channel | `Put`, `Read`, `Write`, `Cork`, `Uncork`, `Ack`, `Attach`, `Next`, `Flight`, `SetDeadline`, `Close` | every upload block read once and in order; output replayable until acknowledged and within its limits; bytes leave in TLS's order; nobody sleeps for ever |
| **Packet handlers** `packet.go` | packet sessions by id and nonce, setup replies, the state published after AUTH, idle times, admission | `beginPacket`, `reservePacketSession`, `authenticatePacket`, `uploadPacket`, `downloadPacket`, `runPacket`, `prepareBegin`, `prepareAuth`, `close`, `expirePackets`, `closePackets` | a network that loses, repeats and reorders requests yields two reliable streams; a late request never harms the session; a setup retry shares its answer only with its exact copy; a closed session leaves nothing running |
| **Stream multiplexer** `internal/mux/peer.go` | stream table, per stream credit, budget, grant, queues, offsets, half-close flags; round-robin order and cursor | `Open`, `Receive`, `take`, `pressure`, `attach`, reading and writing goroutines, `removeStream`, `Close` | credit is conserved, all data arrives, FIN after all data, finished streams retire, no legal run of two peers is a protocol error |
| **Cell writer / realtime receiver** `realtime.go` | cell sequences both ways, the acknowledgement owed, two wake tokens, heartbeat and batch timers | `writeCells`, `receiveRealtime`, `waitRealtimeCoalesce`, upgrade | frames and acknowledgements leave whenever there are any; cells are taken in order; all ends with the session |
| **Startup journal** `startup.go` | 40 steps, journal of answers with reference counts, process-wide byte counter, deadline | `startup`, `writeStartup`, `reserveStartupBytes`, `release` | a step is applied once; a retry gets the same answer; no bytes leak or are returned early |
| **Sessions** `transport.go` | table of visitor sessions, count of packet sessions, idle time, authentication, stop channel | `getSession`, `expire`, `session.close`, `Cleanup` | limits hold across both tables, authenticated sessions stay, expiry always finishes, nothing enters after Cleanup |
| **HTTP/3 carrier** `h3.go` | `pendingUploads` by sequence, `h3Active` slots | `h3Upload`, `orderedUpload`, `h3Stream` | 204 only for a cell that was applied, in order; a cancelled or late request leaves no cell behind |
| **Upstream dialing** `upstream.go` | setup context and its callback, socket, deadline timers with generations | `dialUpstreamTLS`, `dialUpstreamH2`, `Close`, `setDeadline` | an error leaves no socket, the end of the setup never kills the tunnel, a moved deadline never fires |
| **Cell codec** `internal/cell` | split buffer | `Encode`, `Decode`, stream splitter | decode inverts encode |
| **Authentication, policy, application site, configuration** | none, or immutable after provisioning | pure checks and I/O | - |

How they interact. An HTTP handler finds its session under `Transport.mu` and works on it under
`session.mu`. `Peer` has its own mutex, one goroutine per stream and direction, and a goroutine
per dial whose callback takes `session.mu` again. `writeCells` sleeps on `Peer.changes`, takes
frames under `Peer.mu` and writes the carrier. In packet delivery the carrier is `tls.Conn` over
`packet.Conn`: the read loop of `runPacket` calls `Read`, the cell writer that the first
download starts calls `Cork`, `Write` and `Uncork`, while upload handlers call `Ack` and `Put` and
download handlers `Attach` and `Next`, all concurrently. An `expire` pass holds `Transport.mu` and
takes every `session.mu` in turn. Packet setup takes `packetMu`, then `Transport.mu`, then a visitor's
`session.mu`; AUTH of a visitor is committed under its `session.mu` alone. HTTP/3 uploads serialise on
`uploadMu`, whose holder applies the cells of other requests.

What is hard: wakeups through a channel that is replaced at every signal; a write that gives up its
mutex in the middle; requests that arrive twice, late or overtaken; a response superseded by its
successor; FIN, RESET and CREDIT that cross each other and retirement at two ends at different
times; reference counts shared by the journal and overlapping writers; choices made under one mutex and
carried out under another; a session that is published while it is closed; callbacks of contexts and
timers that have already started; waits with a mutex held, and deadlines. `PROJECT.json` lists each hazard with its line and the properties that
would catch it going wrong.

## 2. Modules

| Module | Models | Notes |
|---|---|---|
| `PacketConn` | `internal/packet/conn.go` | one connection and the goroutines inside its calls |
| `PacketLink` | `uploadPacket`, `downloadPacket` of `packet.go`, network and client, over `PacketConn` | composes the connection with its users |
| `ReliableStream` | nothing: the promise | two streams of which the receivers hold prefixes; `PacketLink` implements it |
| `Mux` | `internal/mux/peer.go`, both ends, and `writeCells` of `realtime.go` as the frame-taking goroutine | joined by a FIFO carrier |
| `Startup` | `startup.go`, `session.close`, `expire` and `getSession` of `transport.go` for one session, the upgrade of `realtime.go` | two mutexes as state |
| `Sessions` | both session tables: `getSession`, `expire`, `Cleanup` of `transport.go`; setup, goroutines, close and expiry of packet sessions of `packet.go` | `packetMu` and `Transport.mu` as state |
| `Carrier` | `h3.go`; `receiveRealtime`, `writeCells` and the reader of `realtime.go` | one session after startup, three kinds of carrier |
| `Upstream` | `upstream.go` | one dial, and the tunnel it returns |
| `PacketConnProofs`, `PacketLinkProofs`, `StartupProofs`, `SessionsProofs`, `CarrierProofs`, `UpstreamProofs` | - | the TLAPS proofs about the module of that name |
| `MuxProofs`, `MuxDeliveryProofs` | - | the proofs about `Mux`: scheduler and flow control; wakeups, half-close and agreement of the two ends |
| `MCPacketConn`, `MCPacketLink`, `MCMux`, `MCSessions`, `MCCarrier` | - | constants and scenes for TLC |

`Mux`, `Sessions` and `Carrier` have a variable `scene`, chosen at the start from the constant `Scenes`
and never changed: what the surroundings of the component do in this behaviour (which requests come,
which connections fail, whether the session ends). A scene restricts only the environment; the
component's own actions are the same in all. One run so covers several situations, each of
which would be too large together with the others.

The definitions whose comment begins "Defective variant" are plausible mistakes in the definition
that follows them. No specification uses them: they exist to confirm that each property notices
the mistake.

### PacketConn

Every method runs under `c.mu`, so a method, or one iteration of its loop up to `waitLocked`, is
one action. `writeLocked` is the exception: it may append several blocks under one hold of the
mutex and give it up between two blocks when there is no room. Its iterations are therefore the
actions `WriteBlock`, `WriteWait`, `WriteFail`, and the variable `mutex` names the writer between
two iterations, during which every other action waits. `waiting` holds the goroutines asleep in
`waitLocked`; `signal` closes the channel all of them captured under the mutex and so empties it.

Abstractions. A digest is the body it is taken of (SHA-256 without collisions). A body is a size
and a tag. An output byte is named by its place in the order in which TLS produced it (`From`), an
output block also by its place in the output (`End`): the two agree as long as the order is kept.
`input` is kept in
blocks; the code packs the same bytes into chunks of 16 KiB, and a read that crosses a block's end
is two steps `ReadData` here. `math.MaxUint64`, the
sequence number that is never used, is the constant `MaxSeq`. A timer may fire at any moment once
armed (`DeadlinePasses`). `SetReadDeadline` and `SetWriteDeadline` have no caller in the repository.

Who calls. `Cork` and `Uncork` are called by the cell writer alone, which starts with the first
download (`downloadPacket`); the client asks for it only once it has the auth reply, and
`runPacket` writes HELLO and clears the deadline before that reply. `PostHandshake = TRUE` adds
what `crypto/tls` may write later from the reading goroutine.

### PacketLink

The upload handler is two actions, `UploadAck` and `UploadPut`, because the two calls take the mutex
separately. A request stays in the network when it is delivered, so it may be delivered again and
in any order, or be lost. `Cut` breaks a response. The client (which is not in this repository)
is modelled from `docs/HTTPS.md` "Delivery contract" and the client of `packet_test.go` and is marked
external. The writer here is TLS without the cork; corked writing is checked in `PacketConn`.

### Mux

Both ends are `Peer`s, the client in the role without a dial function. Each frame is received by
one action and `take` handles one stream per action while holding the mutex (`Unlocked`). Bytes
are counted, offsets wrap modulo `Offsets`. `carrier` is the goroutine of `writeCells`: it looks at
`pressure`, takes data or only control frames, and sleeps until `changes` has a token. Not modelled:
coalescing delays and heartbeats (they only postpone or repeat a take), ACK frames and cell
padding, the counters of `Stats`, frame-format checks that two peers never fail.

An OPEN has the size of its authority (`OpenBody`); `take` passes it over when the rest of the cell is
too small, and remembers that in the history field `late`. A connection may fail at any moment, also
at the client before its OPEN has left. A frame `Receive` answers with an error stays at the head of the wire:
`Refused` says so, and `Close` follows, since every caller of `Receive` ends the session on an error.
A scene says how many streams are opened (`ids`), which targets answer (`dials`), how many bytes the local
connections deliver, for which streams they reach end of file (`finishing`) or fail (`failing`) at each end, and which end
may close. The repository runs only the server role in production; the client role is in its tests.

### Startup

`smu` and `tmu` name the holder of `session.mu` and `Transport.mu` where a goroutine keeps one across
a wait. Steps alternate between uploads and downloads. A body is "auth", "empty", "open" (an OPEN
frame) or "bad" (an OPEN followed by a frame `Receive` refuses). `Dials` bounds the dials of one
session: an upload with an OPEN needs a dial goroutine that was not used. The journal bytes
of all other sessions are one number that grows and shrinks at any time within the limit. A failing
`cell.Encode` is left out: `take` stays within the capacity it is given.

### Sessions

Two mutexes are held across steps that others see, `packetMu` and `Transport.mu` (`tMu`); a session's own
mutex guards single steps. A choice made under a session's mutex and carried out after it was released
is two actions with the choice in `arg`: `Admit` and `VisitDrop` of `getSession`, `Reserve` or `Room` and
`Drop` of `reservePacketSession`. `packetSession.close` is `Closed` (the flag, under `p.mu`, with
`cancel` and `raw.Close`) followed by `StateClose` (statistics under `tMu`, then the Peer), because another
goroutine can look in between; for a closer that holds `packetMu` the two are one step. One pass of
`expirePackets` or `closePackets` is `Sweep`, then `SweepLook` and `SweepDrop` for each session.

Time is a choice where the code compares it: a pass may find any session too old. TLS and `packet.Conn` are
external here: a flight is there once `runPacket` wrote it, calls on a closed connection fail, and
any call may fail. The table of visitors is a set, and `older` the order of their `last` times, which is all that
the choice of the oldest looks at. Tokens are never reused. The slot count and the insertion into the tables are one
step (`Create`), since `packetMu` is held over both. An answer no property looks at frees the handler
at once. Left out: the failures of `rand.Read` and of `Put(0, ...)` on a new connection, the
wrong-cursor 409 (the same answer as a missing reply), uploads and downloads (`PacketLink`; here they only
close a session, `HandlerCloses`).

### Carrier

One session after its startup. Requests are numbered as they arrive. `uploadMu` is state; reading the
body and waiting for `uploadMu` are one place of the handler, since nothing depends on the time in
between, and the result of a select is a disjunction over its ready branches. `Drain` is one turn of
the loop that applies cells, possibly of others. A cell is "frames", "empty" or "bad" (whatever makes
`receiveRealtime` refuse it). Waking the writer is part of the critical section before it:
the token only becomes visible earlier. The Peer is what it has to send: nothing, bytes in a reader's
hand (pressure that cannot be taken yet) or frames. `Timer` is the heartbeat or the end of a batch
at any moment, so cell capacities and the tests that shorten a batch do not matter. The same writer
serves a WebSocket and a packet session, whose uplink is `Read`.

### Upstream

`after` is the callback of `context.AfterFunc`, which runs concurrently once the context is done;
`StopAfter` and `Return` are the deferred function. A phase (TLS, CONNECT, SOCKS, HTTP/2) succeeds or fails
at any time, and only a closed socket forces it to. The timers of `upstreamH2Conn` fire at any
time: `TimerFires` starts the callback, `TimedOut` is the part under the mutex, `TimerCloses` the `Close`
after it. `want` remembers what the user last asked for. `MaxSets` bounds the calls of
`setDeadline`. Bytes, headers and the mapping of errors to `os.ErrDeadlineExceeded` are left out.

## 3. Runs

| Run | Question | Result |
|---|---|---|
| `packet` | do new, repeated, conflicting, oversized and out-of-window blocks leave exactly the right input; do writers, acknowledgements, two responses and a flight keep the replay queue exact, wake everybody and end with Close? | holds |
| `packet_link` | is what the client receives a prefix of what TLS wrote, however requests and responses are lost and overtaken? | holds |
| `packet_link_up` | the same for uploads; are receipts truthful, and does every block arrive? | holds |
| `packet_cork_race` | does `OutputInOrder` survive TLS writing on its own account? | **violated** |
| `mux_live` | does every byte arrive, does a finished stream retire at both ends, does every goroutine end when its stream or the session does? | holds |
| `mux_safe` | flow control, failing dials, targets and local connections, RESET crossing everything else, several streams on one carrier, a full table, OPENs too large for the rest of a cell: what can the ends refuse each other? | holds |
| `startup` | concurrent steps, retries, transition, deadline and expiry | holds |
| `startup_lock` | does expiry always finish? | **violated** |
| `sessions` | do the limits of both tables hold, do retries agree, do visits spare authenticated sessions, is shutdown final, and is nothing left hanging? | holds |
| `session_evict` | is an authenticated session ever evicted, by packet setup too? | **violated** |
| `carrier` | does 204 mean applied, is an ACK ever lost or late, does everything end once the session is closed? | holds |
| `upstream` | is the outcome of a dial sound, does a moved deadline ever fire, does the end of the context end the setup? | holds |

Bounds, and why they are enough. *Packet*: blocks of one and two bytes, windows of two and three
slots, more sequence numbers than slots, so that the window slides, receipts are dropped and
`MaxSeq` is reached; a body larger than a block and one with the same number and other contents
are among the inputs; a write of three bytes needs two blocks and the replay queue holds four, so
a write blocks in the middle; two responses suffice for one to supersede the other, and the
generations repeat and skip. In `packet` a behaviour uploads or downloads; `packet_link` has both
directions. `packet_link` has one upload request in flight at a time, because
uploads matter to it only through the cursor they acknowledge; `packet_link_up` has three and no
downloads. *Mux*: windows of three and two bytes with chunks of two, so that a chunk crosses the
remaining credit, the floor and the end of the window; in `mux_safe` offsets wrap after three bytes and four are
sent, in `mux_live` after two and three are sent, so the last DATA carries an offset that has wrapped; a queue of
one slot makes readers wait, in `Break` with a second chunk in hand when the session ends; a cell has room for one or two small frames, so frames
and streams compete. One stream suffices for flow control and closing (scenes `Flow`, `Stream`, `Finish`, `Break`, `Abort`); `Pair` has
two, where streams end while the scheduler is between them. `Crowd` opens a third stream when the first of two
has finished at the client. `Rush` has four streams, a table of two and an OPEN that fills a cell: it
is passed over while another leaves, and a client connection fails before its OPEN has left. *Startup*: four steps (two rounds), two overlapping
requests, a limit of two answers and a remainder. *Sessions*: one or two slots, so that the limit
is always near; two handlers beside the ticker, Cleanup and the goroutines of each packet session; three
visitors, so that of two the oldest is evicted; one nonce with two bodies and two AUTH bodies of
which one verifies, so that retries and conflicts both happen; two packet sessions in sequence for
the reuse of a nonce. *Carrier*: three requests for two slots; sequences 0 to 2 with `Limit` as the
last one, so that both directions reach the end of the numbers. *Upstream*: three settings of each deadline,
so that a callback may be two generations late.

The three violations (each is a finding in `PROJECT.json`):

* `packet_cork_race`. `Uncork` clears `corked` and then writes; if the queue is full it waits
  without the mutex. A record TLS writes from its reading goroutine at that moment (the answer to
  a KeyUpdate) overtakes the rest of the cell. `packet` shows that the order holds without
  such writes.
* `startup_lock`. `startup` calls `Peer.Close` with `session.mu` held, `Close` waits for the dial
  goroutines, and a dial that has just started waits for `session.mu`. The next `expire` waits for
  it with `Transport.mu` held, and with it every session.
* `session_evict`. `reservePacketSession` closes the visitor it chose without looking at `authed`
  again; its AUTH may have been committed since, under `session.mu` alone. `sessions` shows that
  `getSession`, which looks again, keeps the promise (`VisitsSpareAuthenticated`).

Three more disagreements between the two roles of `Peer` are part of what `OnlyOpeningsRefused` says, and all three
happen in `mux_safe`: the server refuses the opening of a stream, and with it the whole session, because

* its table is full (peer.go:355). `Peer.Open` checks the client's own table, and the server removes a finished stream later: its
  copy stays until the last CREDIT is sent and its FIN written, although docs/PROTOCOL.md:142 says that completed
  half-closes "retire entries immediately". At the limit the OPEN that takes the freed place comes too early.
* `take` passed over the OPEN (peer.go:466) and a later one left first: `f.Stream <= p.highest` (peer.go:355), although
  docs/PROTOCOL.md:105 says that stream ids are "monotonically increasing". It takes an OPEN that does not fit
  in the rest of a cell, and a later one that is shorter or whose turn comes first in the next cell.
* the local connection failed before the OPEN left: RESET goes out in its place (peer.go:462), for a stream the server
  never saw.

They need the client role, which the repository has in its tests only, so they are no findings of their own; the property and
its theorem say that nothing else is ever refused.

## 4. Fairness

* `PacketConn`: a goroutine inside a call that can go on does (Go schedules runnable goroutines,
  `sync.Mutex` does not starve waiters). Nothing is assumed of clients, of `Close` or of time, so
  the only liveness property is what the code alone guarantees: `CloseReleases`.
* `PacketLink`: the client goes on retrying, a block sent again and again is delivered and so is its
  reply (strong fairness per block), handlers run to their end, `runPacket` goes on reading.
* `Mux`: weak fairness of *some* step of the two programs, the weakest form: dials end by their
  timeout, the carrier delivers until the session is closed, local connections accept what is
  written to them, and reading a closed one returns. New data, EOF, failures and `Close` are not
  assumed to happen.
* `Carrier`: weak fairness of the writer without its timers (`WriterRuns`) and of *some* handler: reading a body and
  writing a cell have deadlines, a select with a ready branch goes on. Neither the 45 s timer of a waiting upload nor
  the heartbeat and the batch timer of the writer are counted on, nor is any request, cell or end of the session.
  `CloseDrains` follows from these alone.
* `Upstream`: weak fairness of the steps of the setup that do not wait for the proxy and of the callback.
  A phase is not assumed to end unless the socket was closed; that is the point of `SetupReturns`.
* `Sessions` needs none. `Settled` is an invariant: wherever none of the steps that come of themselves
  (`System`) is possible, nothing is left hanging. Each of these steps moves its process forward towards
  its end and none moves it back, except the bounded loops over a table, so the system
  cannot go on for ever without a client and the states `Settled` speaks of are where it comes to rest.
* `Startup`: strong fairness per goroutine, since a waiter gets a mutex that is released again and
  again; the violation found does not depend on it.

Deadlock checking is off where the system may rest: a closed connection, silent local
connections, an expired session. That nobody waits wrongly is stated by the properties instead
(`NoLostWakeup`, `NoStall`, `CloseReleases`, `CancelDrains`, `Settled`, `CloseDrains`, `SetupReturns`,
`ExpireReturns`).

## 5. Proofs

Each theorem holds for every value of the constants, and so for any number of requests, responses, streams,
sessions, blocks and steps. Scenes restrict only the environment, so a theorem for every set of scenes is
one for every environment.

| Module | Theorem | Statement |
|---|---|---|
| `PacketConnProofs` | `TypeCorrect` | `Spec => []TypeOK` |
| | `UploadWindowHolds` | `Spec => []UploadWindow` |
| | `UploadDelivery` | `Spec => []UploadExactlyOnce` |
| | `ReplaySafe`, `ReplayStaysBounded` | `Spec => []ReplayWindow`, `Spec => []ReplayBound` |
| | `OutputKeepsOrder` | `~PostHandshake` implies `Spec => []OutputInOrder` |
| | `NoSleeperForgotten` | `Spec => []NoLostWakeup` |
| | `MissingBlockFits` | `Spec => []HeadBlockFits` |
| | `CursorsNeverReturn` | `Spec => CursorsMonotone` |
| `PacketLinkProofs` | `LinkIsReliable` | `LinkSpec => ImplementsStream`: the refinement of `ReliableStream` |
| | `ReceiptsAreKept` | `LinkSpec => []ReceiptMeansStored` |
| | `LateRequestsAreHarmless` | `LinkSpec => []LateRequestsHarmless` |
| `MuxProofs` | `SchedulerIsExact` | `Spec => []SchedulerExact` |
| | `CreditIsConserved` | `Spec => []CreditConserved` |
| `MuxDeliveryProofs` | `CarrierNeverStalls` | `Spec => []NoStall` |
| | `FinFollowsData` | `Spec => []FinMeansAll` |
| | `RefusalsExplained` | `Spec => []OnlyOpeningsRefused` |
| | `PeersAgree` | `MaxId <= MaxStreams` implies `Spec => [](PromptOpenings => \A p \in Ends : ~Refused(p))` |
| `StartupProofs` | `RefsAreExact`, `JournalIsExact` | `Spec => []RefsExact`, `Spec => []JournalExact` |
| | `AnswersAreApplied` | `Spec => []AnswerMeansApplied` |
| | `OverReleasesAll` | `Spec => []OverLeavesNothing` |
| `SessionsProofs` | `ReservationsAreExact` | `Spec => []ReservationsExact` |
| | `RetriesDoAgree` | `Spec => []RetriesAgree` |
| | `ShutdownIsFinal` | `Spec => []ShutdownFinal` |
| | `VisitsSpare` | `Spec => VisitsSpareAuthenticated` |
| `CarrierProofs` | `PendingIsExact` | `Spec => []PendingExact` |
| | `AnswerIsExact` | `Spec => []AnswerExact` |
| | `AckIsExact` | `Spec => []AckExact` |
| `UpstreamProofs` | `Outcome` | `Spec => []OutcomeSound` |
| | `NoStaleDeadline` | `Spec => DeadlineMeant` |

Assumptions. They are the named `ASSUME`s of the modules, which TLC evaluates in the runs. `PacketConn`:
sizes are positive, the replay limit holds a block, `ReceiptCount >= UploadSlots`, and the names of the
responses differ from those of the other goroutines. `PacketLink`: the client's blocks are among `Bodies`
(`BodyAssumption`) and its numbers stay below `MaxSeq`. `Mux`: windows, chunks and queues are positive, the
credit floor fits both windows, a cell has room for more than one frame without data, and an OPEN fits into an empty cell
(`OpenAssumption`). The others: sets of requests
and sessions are finite, names differ. The constants of the code satisfy them. `OutputKeepsOrder` has the
hypothesis `~PostHandshake`, without which `packet_cork_race` refutes it. `PeersAgree` has one hypothesis for each of the three
cases of section 3: the session opens no more streams than its table holds, and `PromptOpenings`, no OPEN was passed over and none
was lost with its stream. `RefusalsExplained` needs no hypothesis and says that these are all.

### The inductive invariants

`PacketConn`: one invariant, `Inv`.

* `TypeOK` needs `UploadWindow`: the drain loop of `Put` concatenates blocks of `pending`, and that
  their numbers lie in the window is what makes the result a sequence of bodies.
* `UploadExactlyOnce` needs `UploadWindow`: only because the gap `uploadNext` is never pending does
  the drain take in each number once.
* `ReplayWindow` and `ReplayBound` need each other and `ReplayOffsets`: that the retained blocks lie
  back to back is what makes the subtraction in `ackLocked` exact.
* `NoLostWakeup` needs `HolderWorks`: a writer between two iterations has bytes left and does not
  sleep, so one that goes to sleep does so for lack of room.
* `CursorsMonotone` needs `FirstGeneration`: before the first `Attach` generations are not compared,
  and the first one cannot go back because it is compared with zero.
* `OutputInOrder` needs `Order`: which writer has bytes left, and that those bytes follow the ones in the
  blocks.

* `HeadBlockFits` needs `Accounted`: there is a running total `f` of the sizes of the blocks, from the one being read to
  the end of the window, and it ends in `inputBytes` plus what has been read of the first. Each step of the connection
  gives the next total: `Put` adds its block behind its number, finishing a block subtracts it. With the input
  drained the total starts at the missing block, which adds nothing, and each of the `UploadSlots - 1` behind it adds
  at most `MaxBlock` (`BlocksFit`); so a whole block of the limit is free.

`PacketLink`: `LinkInv` is `Inv`, types, `UpInv` and `DownInv`. Every step of the composition is a step of
`PacketConn`, so `Inv` comes for free. `UpInv`: the client's window contains the connection's cursor, and
whatever is stored, recorded or read under a number is the client's block of that number. `DownInv`: the
client's cursor lies between the floor and the end of the replay queue; the blocks retained or on their way
lie back to back; bytes reach the client only through the response of its latest request
(`Attachment`). The refinement maps the client's blocks and TLS's bytes to the two streams, and every step to a
step of `ReliableStream` or a stutter.

`Mux`. The sums in the properties are sums over queues, and their laws (the total of an appended, shortened
or concatenated sequence) are proved by induction over a set of numbers, which follows from the well-foundedness
of the naturals (`WFMin`). `Shapes` is the type part of all arguments.

* `SchedulerExact` is inductive with `Shapes`, restated as `Scheduling`: the table is listed without
  repetition and no listed stream could retire. It is the invariant of `removeStream`, which moves the cursor
  when it removes a stream before it.
* `CreditConserved` needs `Wires` (a frame belongs to a stream its sender has opened), `Fresh` (an id not opened
  yet is empty at both ends and on the wire), `Idle` (the writer holds bytes only while it writes) and `Scheduling`
  (a stream that left the table owes no credit). The step of each action is a transfer between two terms of the sum.
* `NoStall` needs `Calms`: as long as the carrier's goroutine has no wake token, a
  sleeping one has nothing to send, one that takes control frames only has nothing but data held back by the floor, and one
  in the middle of a cell that is still empty has passed only streams with nothing to send. That is where the
  round-robin count `misses` enters (`Rooms`, `Scheduling`), and `Cancelled`: a cancelled stream in the table is to be
  reset, so its RESET is still to come.
* `FinMeansAll` needs `Pipe`: as long as the receiver listens and the reader has lost no chunk, the bytes read are those
  queued, on the wire, queued at the receiver, in its writer's hand and written. `FinLast` and `FinGot` say that nothing
  of the stream follows FIN on the wire and that FIN was taken only with nothing left before it; `Orderly` says
  the same of the queues at both ends.
* `OnlyOpeningsRefused` needs `Protocol`, all of the above but `Calms`, and
  - `Chains` and `OffsetsAgree`: the chunks queued at an end, the DATA and FIN on the wire and the offset the
    receiver expects form one chain of offsets modulo `Offsets`, so the offset of a frame is the expected one when it arrives;
  - `DataFits` and `CreditFits`: all DATA on its way fits the receiver's budget and all CREDIT the sender's window;
    `CreditConserved` says more, but only while both ends have the stream, and these hold until the last frame has arrived;
  - `Roles`: only the client sends OPEN and only the server OPENED;
  - `Opens`: the scheduler lists the client's streams in the order of their ids, and those whose OPEN waits for its
    first turn (`Waiting`) are in front of the cursor, so the next of them to be served has the lowest id;
  - `OpenFrames`: on the wire, an OPEN that was not passed over (`Lates`) has an id above every OPEN before it and
    above the server's highest; every OPEN is below those still waiting; and any other frame follows the OPEN
    of its stream, unless it is the RESET of a stream that left without one (`Broken`). So an OPEN that was
    passed over may be refused itself, but causes no other to be.

  `HeadIsValid` and `HeadIsOrdered` read off which checks of `Receive` the first frame of a wire passes; `RefusedHead` puts
  together what is left.

`Startup`: `RefsExact`, `JournalExact` and `AnswerMeansApplied` with `Taken` (only steps taken are in the
journal or being answered), `Digests` (the digest of an upload in the journal is that of the body applied) and
`WholeAnswers`. `OverLeavesNothing` needs `OverEmpty` (the end of the session clears the journal, and no step is
committed after it) and the two counts.

`Sessions`: `Tables` is the property; `Asked` says that a check made under `packetMu` is still true when the
session is made, which needs `Mutexes`; `Sweeping` ties a pass to the table it walks; `Born`, `Credible` and
`Waiting` say what a handler that waits has already compared; `Stopping` is the part about Cleanup.

`Carrier`: `Holder` (`uploadMu` names the one handler that drains, with `next = up`), `Entries` (a retained
cell belongs to the request its entry names, which still holds a slot), `Drained` and `History` for the uploads;
`AcksBelow`, `AcksAwake` and `LookRace` (a frame missed between the writer's two looks has left a token) for the writer.

`Upstream`: `OutcomeSound` with `CallbackOrder` (the callback of the context runs only between its
registration and the deferred function, and only once the context is done), `SetupSocket` (until the
return, an unfailed setup with a closed socket means that the callback ran) and `Deadlines` (no timer
of the tunnel exists before it is handed out). `DeadlineMeant` follows from `TimerInv`: a callback that
has started belongs to the current generation only if the deadline last asked for has passed.

Each part has a lemma per action or group of actions and a lemma for the frame (what the others leave alone).

### Only model-checked

* Liveness: `CloseReleases`, `UploadsArrive`, `Delivered`, `FinishedRetire`, `CancelDrains`, `CloseDrains`,
  `SetupReturns`; and `Settled`, which speaks of ENABLED. Both are out of the prover's reach.
* The three findings: a violation is shown by a behaviour.

## 6. Not modelled

* **Destination policy** (`policy.go`): rule matching and DNS, without state; the outcome of a dial is
  a choice in `Mux`.
* **Cell codec** (`internal/cell`): a byte encoding without state between calls; the models use frames.
* **Authentication** (`auth.go`, `internal/packet/auth.go`): comparisons and HMACs; a body verifies or not.
* **Application site** (`application*.go`): an immutable snapshot of files.
* **Configuration** (`caddyfile.go`, `contract.go`): parsing.
* Within the modelled files: statistics, HTTP headers and status codes no property distinguishes,
  cell capacities and padding, the routing of `ServeHTTP`.

## 7. Plan

Done: every component with protocol state has a module, and every safety property that a run checks is a theorem,
except `Settled`, which speaks of ENABLED. Left:

1. The promise of `Mux` as an abstract specification, and its refinement: the bytes of a stream would need an
   identity, where the model counts them.
2. The three refused openings (section 3): once the two ends agree on when a stream stops counting and `take` keeps
   the order of OPENs, the hypotheses of `PeersAgree` can go.

## 8. Running

    tlc -config Packet.cfg MCPacketConn
    tlapm PacketConnProofs.tla

and likewise for every run of `PROJECT.json` and every module `*Proofs.tla`.

`PROJECT.json` names the module and configuration of every run. The largest (`mux_live` and `mux_safe`) take
two to three minutes with two workers, the others up to a minute and a half. The longest proofs (`MuxProofs` and
`MuxDeliveryProofs`, several thousand obligations each) take up to ten minutes each.
