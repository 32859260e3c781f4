-------------------------------- MODULE Mux --------------------------------
(***************************************************************************)
(* Two mux.Peers (internal/mux/peer.go) joined by one carrier: the server  *)
(* end dials targets, the client end opens streams.  A stream is a byte    *)
(* pipe in each direction under credit-based flow control, with half-close *)
(* (FIN), abort (RESET) and retirement.                                    *)
(*                                                                         *)
(* The native client is not in this repository: the client end is Peer in  *)
(* its dial == nil role, as the tests use it.  The carrier (WebSocket, H3  *)
(* or packet cells) delivers frames reliably and in order; each end has    *)
(* one goroutine that takes frames (writeCells of realtime.go).            *)
(*                                                                         *)
(* Every step under Peer.mu is one action.  Receive and take go through    *)
(* their frames and streams in a loop: one iteration is one action, as if  *)
(* each cell held one frame.  Bytes are counted, not stored.               *)
(***************************************************************************)
EXTENDS Naturals, Sequences, FiniteSets, SequencesExt, FiniteSetsExt

CONSTANTS
  MaxId,         \* bound: streams opened in a behaviour
  MaxStreams,    \* streams active at once
  ClientWindow,  \* receive budget of the client, send credit of the server
  ServerWindow,  \* the other way round
  StreamChunk,   \* bytes of the largest chunk read or written at once
  OutputSlots,   \* capacity of the channel stream.output
  CreditFloor,   \* realtimeCreditFloor
  CellBudget,    \* bytes a cell has for frames
  FrameHeader,   \* bytes a frame needs besides its body
  CreditBody,    \* bytes in the body of a CREDIT frame
  OpenBody,      \* stream -> bytes of the authority in its OPEN
  Offsets,       \* byte offsets wrap modulo this (2^32)
  Scenes         \* what the surroundings of the two Peers may do: see scene

Ends == {"client", "server"}

ASSUME MuxAssumption ==
  /\ MaxId \in Nat /\ MaxStreams \in Nat \ {0}
  /\ ClientWindow \in Nat \ {0} /\ ServerWindow \in Nat \ {0}
  /\ StreamChunk \in Nat \ {0} /\ OutputSlots \in Nat \ {0}
  /\ CreditFloor \in 0..ClientWindow /\ CreditFloor <= ServerWindow
  /\ FrameHeader \in Nat \ {0} /\ CreditBody \in Nat \ {0}
  /\ CellBudget \in Nat /\ CellBudget > FrameHeader + CreditBody
  /\ Offsets \in Nat \ {0}
  /\ \A c \in Scenes :
       /\ c.ids \in 0..MaxId /\ c.dials \subseteq 1..MaxId /\ c.bytes \in [Ends -> Nat]
       /\ {c.finishing, c.failing} \subseteq [Ends -> SUBSET (1..MaxId)] /\ c.closing \subseteq Ends

\* A cell of the client holds any OPEN: 4096 bytes against 512 and headers.
ASSUME OpenAssumption ==
  /\ OpenBody \in [1..MaxId -> Nat \ {0}]
  /\ \A i \in 1..MaxId : FrameHeader + OpenBody[i] <= CellBudget

VARIABLES
  scene,    \* streams opened, those whose target answers, bytes each local
            \* connection delivers, the streams whose connection at an end may
            \* reach end of file or fail, the ends that may close
  streams,  \* end -> ids in the map Peer.streams
  st,       \* end -> id -> the stream object, also after it left the map
  order, cursor,  \* the round-robin scheduler
  misses,   \* end -> streams take has passed over since its last frame
  room,     \* end -> bytes left in the cell take is filling
  highest,  \* end -> highest id opened
  closed,   \* end -> Peer.Close was called
  changes,  \* end -> the token in the channel Peer.changes
  carrier,  \* end -> what its frame-taking goroutine does: "check" the
            \* pressure, take "data" or only "controls", "sleep"
  wire,     \* end -> frames it sent, not yet received
  got,      \* history: end -> id -> bytes read from the local connection
  put       \* history: end -> id -> bytes written to the local connection

pvars == <<order, cursor, highest, closed>>
cvars == <<carrier, misses, room>>
vars == <<scene, streams, st, pvars, changes, cvars, wire, got, put>>

Ids == 1..MaxId
Other(p) == IF p = "client" THEN "server" ELSE "client"
Window(p) == IF p = "client" THEN ClientWindow ELSE ServerWindow

\* A queued frame of stream.output: DATA of len bytes, FIN when len is 0.
\* History: late says that take has passed over the stream's OPEN.
NoStream ==
  [cancelled |-> FALSE, conn |-> "none", reader |-> "none", writer |-> "none",
   input |-> 0, inputFin |-> FALSE, inputReady |-> FALSE, writing |-> 0,
   hand |-> 0, output |-> <<>>, pending |-> <<>>,
   open |-> FALSE, late |-> FALSE, ack |-> FALSE, reset |-> FALSE,
   credit |-> 0, budget |-> 0, grant |-> 0, nextIn |-> 0, nextOut |-> 0,
   remoteFin |-> FALSE, remoteFinWritten |-> FALSE, localFinSent |-> FALSE]

NewStream(p) == [NoStream EXCEPT !.credit = Window(Other(p)), !.budget = Window(p)]

Init ==
  /\ scene \in Scenes
  /\ streams = [p \in Ends |-> {}]
  /\ st = [p \in Ends |-> [i \in Ids |-> NoStream]]
  /\ order = [p \in Ends |-> <<>>] /\ cursor = [p \in Ends |-> 0]
  /\ misses = [p \in Ends |-> 0] /\ room = [p \in Ends |-> CellBudget]
  /\ highest = [p \in Ends |-> 0] /\ closed = [p \in Ends |-> FALSE]
  /\ changes = [p \in Ends |-> FALSE] /\ carrier = [p \in Ends |-> "sleep"]
  /\ wire = [p \in Ends |-> <<>>]
  /\ got = [p \in Ends |-> [i \in Ids |-> 0]] /\ put = got

-----------------------------------------------------------------------------
(* Streams. *)

\* take holds Peer.mu from its first stream to its last; the other steps under
\* the mutex need it free.
Taking(p) == carrier[p] \in {"data", "controls"}
Unlocked(p) == ~Taking(p) \/ (misses[p] = 0 /\ room[p] = CellBudget)

SetStream(p, i, s) == st' = [st EXCEPT ![p][i] = s]
Notify(p) == changes' = [changes EXCEPT ![p] = TRUE]

\* Defective variant: the connection stays open.
ClosedStreamOpen(s) == [s EXCEPT !.cancelled = TRUE]

\* stream.close: cancel the context and close the connection if there is one.
ClosedStream(s) ==
  [s EXCEPT !.cancelled = TRUE, !.conn = IF @ = "open" THEN "closed" ELSE @]

\* fail: the stream is to be reset, whether or not it is still in the map.
FailedStream(s) == ClosedStream([s EXCEPT !.reset = TRUE])

\* attach: start the copying goroutines, or drop the connection of a stream
\* cancelled meanwhile.
AttachedStream(s) ==
  IF s.cancelled THEN [s EXCEPT !.conn = "closed"]
  ELSE [s EXCEPT !.conn = "open", !.reader = "reading", !.writer = "idle"]

Retirable(s) == s.localFinSent /\ s.remoteFinWritten /\ s.grant = 0

\* Defective variant: the cursor is not corrected.
RemoveStreamKeep(p, i, from) ==
  /\ streams' = [streams EXCEPT ![p] = @ \ {i}]
  /\ order' = [order EXCEPT ![p] = SelectSeq(@, LAMBDA j : j # i)]
  /\ cursor' = [cursor EXCEPT ![p] = from]

\* removeStream: the ids after a removed one move up; the cursor keeps the
\* turn of the next surviving stream. From is the cursor before the removal.
RemoveStream(p, i, from) ==
  LET k == CHOOSE k \in 1..Len(order[p]) : order[p][k] = i
      c == IF k - 1 < from THEN from - 1 ELSE from
  IN /\ streams' = [streams EXCEPT ![p] = @ \ {i}]
     /\ order' = [order EXCEPT ![p] = RemoveAt(@, k)]
     /\ cursor' = [cursor EXCEPT ![p] = IF c >= Len(order[p]) - 1 THEN 0 ELSE c]

AddStream(p, i, s) ==
  /\ streams' = [streams EXCEPT ![p] = @ \cup {i}]
  /\ order' = [order EXCEPT ![p] = Append(@, i)]
  /\ highest' = [highest EXCEPT ![p] = i]
  /\ SetStream(p, i, s)

Open(i) ==
  /\ Unlocked("client") /\ ~closed["client"] /\ Cardinality(streams["client"]) < MaxStreams
  /\ i = highest["client"] + 1 /\ i <= scene.ids
  /\ AddStream("client", i, AttachedStream([NewStream("client") EXCEPT !.open = TRUE]))
  /\ Notify("client")
  /\ UNCHANGED <<cursor, closed, cvars, wire, got, put>>

\* The goroutine OPEN starts at the server: the dial succeeds or fails.
Dialed(i, ok) ==
  /\ Unlocked("server") /\ st["server"][i].conn = "dialing"
  /\ IF ok THEN i \in scene.dials ELSE i \in scene.failing["server"] \/ st["server"][i].cancelled
  /\ LET s == [st["server"][i] EXCEPT !.conn = "none"] IN
     SetStream("server", i,
       IF ok THEN AttachedStream([s EXCEPT !.ack = TRUE]) ELSE FailedStream(s))
  /\ Notify("server")
  /\ UNCHANGED <<streams, pvars, cvars, wire, got, put>>

-----------------------------------------------------------------------------
(* The goroutine read: local connection to stream.output. *)

\* conn.Read returned n bytes; queuedBytes counts them from here on.
ReadData(p, i, n) ==
  LET s == st[p][i] IN
  /\ s.reader = "reading" /\ s.conn = "open" /\ s.hand = 0
  /\ got[p][i] + n <= scene.bytes[p]
  /\ SetStream(p, i, [s EXCEPT !.hand = n])
  /\ got' = [got EXCEPT ![p][i] = @ + n]
  /\ UNCHANGED <<streams, pvars, changes, cvars, wire, put>>

\* Defective variant: the offset of the next frame is not advanced.
ReadQueueSame(p, i) ==
  LET s == st[p][i] IN
  /\ s.reader = "reading" /\ s.hand > 0 /\ Len(s.output) < OutputSlots
  /\ SetStream(p, i, [s EXCEPT !.output = Append(@, [sequence |-> s.nextOut, len |-> s.hand]),
                               !.hand = 0])
  /\ Notify(p)
  /\ UNCHANGED <<streams, pvars, cvars, wire, got, put>>

ReadQueue(p, i) ==
  LET s == st[p][i] IN
  /\ s.reader = "reading" /\ s.hand > 0 /\ Len(s.output) < OutputSlots
  /\ SetStream(p, i, [s EXCEPT !.output = Append(@, [sequence |-> s.nextOut, len |-> s.hand]),
                               !.nextOut = (@ + s.hand) % Offsets, !.hand = 0])
  /\ Notify(p)
  /\ UNCHANGED <<streams, pvars, cvars, wire, got, put>>

\* The context ended while the chunk waited for room.
ReadDrop(p, i) ==
  LET s == st[p][i] IN
  /\ s.reader = "reading" /\ s.hand > 0 /\ s.cancelled
  /\ SetStream(p, i, [s EXCEPT !.hand = 0, !.reader = "done"])
  /\ UNCHANGED <<streams, pvars, changes, cvars, wire, got, put>>

\* End of file: FIN follows the data, unless the context ends first.
ReadEOF(p, i) ==
  LET s == st[p][i] IN
  /\ i \in scene.finishing[p] /\ s.reader = "reading" /\ s.conn = "open" /\ s.hand = 0
  /\ Len(s.output) < OutputSlots
  /\ SetStream(p, i, [s EXCEPT !.output = Append(@, [sequence |-> s.nextOut, len |-> 0]),
                               !.reader = "done"])
  /\ Notify(p)
  /\ UNCHANGED <<streams, pvars, cvars, wire, got, put>>

ConnFails(p, i) == st[p][i].conn = "closed" \/ i \in scene.failing[p]

\* Defective variant: the carrier is not told of the reset.
ReadErrorQuiet(p, i) ==
  LET s == [st[p][i] EXCEPT !.reader = "done"] IN
  /\ Unlocked(p) /\ st[p][i].reader = "reading" /\ s.hand = 0 /\ ConnFails(p, i)
  /\ SetStream(p, i, IF s.cancelled THEN s ELSE FailedStream(s))
  /\ UNCHANGED <<streams, pvars, changes, cvars, wire, got, put>>

\* conn.Read failed: reset the stream, unless it was closed from here.
ReadError(p, i) ==
  LET s == [st[p][i] EXCEPT !.reader = "done"] IN
  /\ Unlocked(p) /\ st[p][i].reader = "reading" /\ s.hand = 0 /\ ConnFails(p, i)
  /\ SetStream(p, i, IF s.cancelled THEN s ELSE FailedStream(s))
  /\ IF s.cancelled THEN UNCHANGED changes ELSE Notify(p)
  /\ UNCHANGED <<streams, pvars, cvars, wire, got, put>>

-----------------------------------------------------------------------------
(* The goroutine write: stream input to local connection. *)

\* Defective variant: a FIN is passed on before the data queued ahead of it.
WritePopFin(p, i) ==
  LET s == [st[p][i] EXCEPT !.inputReady = IF st[p][i].writer = "wait" THEN FALSE ELSE @]
      n == Min({s.input, StreamChunk})
  IN
  /\ Unlocked(p)
  /\ \/ s.writer = "idle"
     \/ s.writer = "wait" /\ (st[p][i].inputReady \/ s.cancelled)
  /\ SetStream(p, i,
       IF s.cancelled THEN [s EXCEPT !.writer = "done"]
       ELSE IF s.inputFin THEN [s EXCEPT !.writer = "fin", !.inputFin = FALSE]
       ELSE IF s.input > 0
         THEN [s EXCEPT !.writer = "data", !.writing = n, !.input = @ - n]
       ELSE [s EXCEPT !.writer = "wait"])
  /\ UNCHANGED <<streams, pvars, changes, cvars, wire, got, put>>

\* The writer looks at its input, at first, after a chunk, or woken by the
\* token of notifyInput or the end of the context. Coalescing keeps every
\* chunk full but the last, so the first one holds StreamChunk bytes or all
\* there are.
WritePop(p, i) ==
  LET s == [st[p][i] EXCEPT !.inputReady = IF st[p][i].writer = "wait" THEN FALSE ELSE @]
      n == Min({s.input, StreamChunk})
  IN
  /\ Unlocked(p)
  /\ \/ s.writer = "idle"
     \/ s.writer = "wait" /\ (st[p][i].inputReady \/ s.cancelled)
  /\ SetStream(p, i,
       IF s.cancelled THEN [s EXCEPT !.writer = "done"]
       ELSE IF s.input > 0
         THEN [s EXCEPT !.writer = "data", !.writing = n, !.input = @ - n]
       ELSE IF s.inputFin THEN [s EXCEPT !.writer = "fin", !.inputFin = FALSE]
       ELSE [s EXCEPT !.writer = "wait"])
  /\ UNCHANGED <<streams, pvars, changes, cvars, wire, got, put>>

\* Defective variant: the receive budget is not restored.
WriteDoneBudget(p, i) ==
  LET s == st[p][i] IN
  /\ Unlocked(p) /\ s.writer = "data"
  /\ SetStream(p, i, [s EXCEPT !.writer = "idle", !.writing = 0, !.grant = @ + s.writing])
  /\ put' = [put EXCEPT ![p][i] = @ + s.writing]
  /\ Notify(p)
  /\ UNCHANGED <<streams, pvars, cvars, wire, got>>

\* The chunk is in the local socket: only now is its credit granted back.
WriteDone(p, i) ==
  LET s == st[p][i] IN
  /\ Unlocked(p) /\ s.writer = "data"
  /\ SetStream(p, i, [s EXCEPT !.writer = "idle", !.writing = 0,
                               !.budget = @ + s.writing, !.grant = @ + s.writing])
  /\ put' = [put EXCEPT ![p][i] = @ + s.writing]
  /\ Notify(p)
  /\ UNCHANGED <<streams, pvars, cvars, wire, got>>

\* Defective variant: the writer leaves retirement to take.
WriteFinStay(p, i) ==
  /\ Unlocked(p) /\ st[p][i].writer = "fin"
  /\ SetStream(p, i, [st[p][i] EXCEPT !.writer = "done", !.remoteFinWritten = TRUE])
  /\ UNCHANGED <<streams, pvars, changes, cvars, wire, got, put>>

\* CloseWrite done: the stream retires here if its own half is over too.
WriteFin(p, i) ==
  LET s == [st[p][i] EXCEPT !.writer = "done", !.remoteFinWritten = TRUE]
      retire == Retirable(s) /\ i \in streams[p]
  IN
  /\ Unlocked(p) /\ st[p][i].writer = "fin"
  /\ SetStream(p, i, IF retire THEN ClosedStream(s) ELSE s)
  /\ IF retire THEN RemoveStream(p, i, cursor[p]) ELSE UNCHANGED <<streams, order, cursor>>
  /\ UNCHANGED <<highest, closed, changes, cvars, wire, got, put>>

WriteError(p, i) ==
  LET s == [st[p][i] EXCEPT !.writer = "done"] IN
  /\ Unlocked(p) /\ st[p][i].writer \in {"data", "fin"} /\ ConnFails(p, i)
  /\ SetStream(p, i, FailedStream(s))
  /\ Notify(p)
  /\ UNCHANGED <<streams, pvars, cvars, wire, got, put>>

-----------------------------------------------------------------------------
(* Receive, one frame. *)

Frame(kind, i, sequence, len) == [kind |-> kind, stream |-> i, sequence |-> sequence, len |-> len]

\* The checks of Receive. A frame that fails them is a protocol error and
\* ends the session (Refused).
ValidOpen(p, f) ==
  p = "server" /\ f.stream > highest[p] /\ Cardinality(streams[p]) < MaxStreams
Valid(p, f) ==
  LET s == st[p][f.stream] IN
  CASE f.kind = "DATA" -> ~s.remoteFin /\ f.sequence = s.nextIn /\ f.len <= s.budget
    [] f.kind = "FIN" -> ~s.remoteFin /\ f.sequence = s.nextIn
    [] f.kind = "CREDIT" -> f.len <= Window(Other(p)) - s.credit
    [] f.kind = "OPENED" -> p = "client"
    [] f.kind = "RESET" -> TRUE
    [] OTHER -> FALSE

\* The stream after an accepted frame.
Received(s, f) ==
  CASE f.kind = "DATA" ->
         [s EXCEPT !.input = @ + f.len, !.nextIn = (@ + f.len) % Offsets,
                   !.budget = @ - f.len, !.inputReady = TRUE]
    [] f.kind = "FIN" -> [s EXCEPT !.inputFin = TRUE, !.remoteFin = TRUE, !.inputReady = TRUE]
    [] f.kind = "CREDIT" -> [s EXCEPT !.credit = @ + f.len]
    [] f.kind = "RESET" -> ClosedStream(s)
    [] OTHER -> s

\* The next frame is one that Receive answers with an error.
Refused(p) ==
  /\ wire[Other(p)] # <<>> /\ ~closed[p]
  /\ LET f == Head(wire[Other(p)]) IN
     IF f.kind = "OPEN" THEN ~ValidOpen(p, f)
     ELSE f.stream > highest[p] \/ (f.stream \in streams[p] /\ ~Valid(p, f))

Arriving(p) == Unlocked(p) /\ ~closed[p] /\ wire[Other(p)] # <<>>
Consume(p) == wire' = [wire EXCEPT ![Other(p)] = Tail(@)]

ReceiveOpen(p) ==
  LET f == Head(wire[Other(p)]) IN
  /\ Arriving(p) /\ f.kind = "OPEN" /\ ValidOpen(p, f)
  /\ AddStream(p, f.stream, [NewStream(p) EXCEPT !.conn = "dialing"])
  /\ Consume(p) /\ Notify(p)
  /\ UNCHANGED <<cursor, closed, cvars, got, put>>

ReceiveFrame(p) ==
  LET f == Head(wire[Other(p)]) IN
  /\ Arriving(p) /\ f.kind # "OPEN"
  /\ f.stream \in streams[p] /\ Valid(p, f)
  /\ SetStream(p, f.stream, Received(st[p][f.stream], f))
  /\ IF f.kind = "RESET"
       THEN RemoveStream(p, f.stream, cursor[p])
       ELSE UNCHANGED <<streams, order, cursor>>
  /\ Consume(p) /\ Notify(p)
  /\ UNCHANGED <<highest, closed, cvars, got, put>>

\* Frames of a retired stream are skipped.
ReceiveRetired(p) ==
  LET f == Head(wire[Other(p)]) IN
  /\ Arriving(p) /\ f.kind # "OPEN"
  /\ f.stream \notin streams[p] /\ f.stream <= highest[p]
  /\ Consume(p) /\ Notify(p)
  /\ UNCHANGED <<streams, st, pvars, cvars, got, put>>

-----------------------------------------------------------------------------
(* The carrier: pressure and take, one stream. *)

Total(s) ==
  LET sum[k \in 0..Len(s)] == IF k = 0 THEN 0 ELSE sum[k - 1] + s[k] IN sum[Len(s)]
Bytes(frames) == Total([k \in 1..Len(frames) |-> frames[k].len])
QueuedBytes(s) == s.hand + Bytes(s.output) + Bytes(s.pending)

\* Defective variant: the floor also holds back the last bytes of a stream.
ReadyBytesFloor(s) ==
  LET ready == Min({QueuedBytes(s), s.credit}) IN
  IF s.reset \/ s.localFinSent \/ ready < CreditFloor THEN 0 ELSE ready

\* Bytes pressure counts as sendable: not a sliver below the floor while more
\* is queued.
ReadyBytes(s) ==
  LET ready == Min({QueuedBytes(s), s.credit}) IN
  IF s.reset \/ s.localFinSent \/ (ready < CreditFloor /\ QueuedBytes(s) > ready)
    THEN 0 ELSE ready
Control(s) ==
  \/ s.open \/ s.ack \/ s.reset \/ s.grant > 0
  \/ QueuedBytes(s) = 0 /\ (s.pending # <<>> \/ s.output # <<>>)

PressureBytes(p) == \E i \in streams[p] : ReadyBytes(st[p][i]) > 0
PressureControls(p) == \E i \in streams[p] : Control(st[p][i])

\* The stream with the head of output moved to pending, as take does before
\* it looks at its data.
Pulled(s) ==
  IF s.pending = <<>> /\ s.output # <<>>
    THEN [s EXCEPT !.pending = <<Head(s.output)>>, !.output = Tail(@)] ELSE s

\* What take does with one stream: the frame it emits (<<>> for none) and the
\* stream afterwards, with space bytes left for the body.
Taken(i, s, controlsOnly, space) ==
  IF s.reset THEN [frame |-> <<Frame("RESET", i, 0, 0)>>, after |-> s]
  ELSE IF s.open THEN
    IF OpenBody[i] <= space
      THEN [frame |-> <<Frame("OPEN", i, 0, OpenBody[i])>>, after |-> [s EXCEPT !.open = FALSE]]
      ELSE [frame |-> <<>>, after |-> [s EXCEPT !.late = TRUE]]
  ELSE IF s.ack THEN [frame |-> <<Frame("OPENED", i, 0, 0)>>, after |-> [s EXCEPT !.ack = FALSE]]
  ELSE IF s.grant > 0 /\ space >= CreditBody
    THEN [frame |-> <<Frame("CREDIT", i, 0, s.grant)>>, after |-> [s EXCEPT !.grant = 0]]
  ELSE LET q == Pulled(s)
           f == Head(q.pending)
           n == Min({f.len, space, q.credit}) IN
    CASE q.pending = <<>> -> [frame |-> <<>>, after |-> q]
      [] q.pending # <<>> /\ f.len = 0 ->
           [frame |-> <<Frame("FIN", i, f.sequence, 0)>>,
            after |-> [q EXCEPT !.pending = <<>>, !.localFinSent = TRUE]]
      [] q.pending # <<>> /\ f.len > 0 /\ (controlsOnly \/ n = 0) ->
           [frame |-> <<>>, after |-> q]
      [] OTHER ->
           [frame |-> <<Frame("DATA", i, f.sequence, n)>>,
            after |-> [q EXCEPT !.credit = @ - n,
                         !.pending = IF f.len = n THEN <<>>
                                     ELSE <<[sequence |-> (f.sequence + n) % Offsets,
                                             len |-> f.len - n]>>]]

FrameSize(f) ==
  FrameHeader + CASE f.kind \in {"DATA", "OPEN"} -> f.len
                  [] f.kind = "CREDIT" -> CreditBody [] OTHER -> 0

TakeGoesOn(p) == misses[p] < Len(order[p]) /\ room[p] >= FrameHeader

\* One turn of the loop. A finished stream retires, before or after its
\* frame; a reset one leaves with its RESET.
Take(p) ==
  LET c == cursor[p] % Len(order[p])
      i == order[p][c + 1]
      s == st[p][i]
      t == Taken(i, s, carrier[p] = "controls", room[p] - FrameHeader)
      finished == t.frame # <<>> /\ Retirable(t.after)
  IN
  /\ ~closed[p] /\ Taking(p) /\ TakeGoesOn(p)
  /\ IF Retirable(s)
       THEN SetStream(p, i, ClosedStream(s)) /\ UNCHANGED <<wire, misses, room>>
       ELSE /\ SetStream(p, i, IF finished THEN ClosedStream(t.after) ELSE t.after)
            /\ wire' = [wire EXCEPT ![p] = @ \o t.frame]
            /\ misses' = [misses EXCEPT ![p] = IF t.frame = <<>> THEN @ + 1 ELSE 0]
            /\ room' = [room EXCEPT ![p] =
                          IF t.frame = <<>> THEN @ ELSE Max({0, @ - FrameSize(Head(t.frame))})]
  /\ IF Retirable(s) \/ s.reset \/ finished
       THEN RemoveStream(p, i, c + 1)
       ELSE cursor' = [cursor EXCEPT ![p] = c + 1] /\ UNCHANGED <<streams, order>>
  /\ UNCHANGED <<highest, closed, changes, carrier, got, put>>

\* The loop of writeCells looks at the pressure, after a cell or when woken,
\* and takes or waits.
CarrierCheck(p) ==
  /\ ~closed[p]
  /\ carrier[p] = "check" \/ (carrier[p] = "sleep" /\ changes[p])
  /\ carrier' = [carrier EXCEPT ![p] =
       IF PressureBytes(p) THEN "data" ELSE IF PressureControls(p) THEN "controls" ELSE "sleep"]
  /\ changes' = [changes EXCEPT ![p] = @ /\ carrier[p] = "check"]
  /\ UNCHANGED <<streams, st, pvars, misses, room, wire, got, put>>

\* take returned: send the cell and look again, or wait if it is empty.
TakeEnd(p) ==
  /\ ~closed[p] /\ Taking(p) /\ ~TakeGoesOn(p)
  /\ carrier' = [carrier EXCEPT ![p] = IF room[p] < CellBudget THEN "check" ELSE "sleep"]
  /\ misses' = [misses EXCEPT ![p] = 0]
  /\ room' = [room EXCEPT ![p] = CellBudget]
  /\ UNCHANGED <<streams, st, pvars, changes, wire, got, put>>

\* The session ends: expiry, a broken carrier, or an error of Receive.
Close(p) ==
  /\ Unlocked(p) /\ ~closed[p] /\ (p \in scene.closing \/ Refused(p))
  /\ closed' = [closed EXCEPT ![p] = TRUE]
  /\ st' = [st EXCEPT ![p] =
              [i \in Ids |-> IF i \in streams[p] THEN ClosedStream(@[i]) ELSE @[i]]]
  /\ UNCHANGED <<streams, order, cursor, highest, changes, cvars, wire, got, put>>

-----------------------------------------------------------------------------
Receive(p) == ReceiveOpen(p) \/ ReceiveFrame(p) \/ ReceiveRetired(p)
Reader(p, i) ==
  \/ \E n \in 1..StreamChunk : ReadData(p, i, n)
  \/ ReadQueue(p, i) \/ ReadDrop(p, i) \/ ReadEOF(p, i) \/ ReadError(p, i)
Writer(p, i) ==
  WritePop(p, i) \/ WriteDone(p, i) \/ WriteFin(p, i) \/ WriteError(p, i)
Carrier(p) == CarrierCheck(p) \/ Take(p) \/ TakeEnd(p)

Next ==
  /\ \/ \E i \in Ids : Open(i) \/ \E ok \in BOOLEAN : Dialed(i, ok)
     \/ \E p \in Ends : \/ \E i \in Ids : Reader(p, i) \/ Writer(p, i)
                        \/ Receive(p) \/ Carrier(p) \/ Close(p)
  /\ UNCHANGED scene

Spec == Init /\ [][Next]_vars

\* The steps of the two programs themselves, apart from what their local
\* connections, their users and the session's end bring about.
Internal ==
  /\ \/ \E i \in Ids, ok \in BOOLEAN : Dialed(i, ok)
     \/ \E p \in Ends : Receive(p) \/ Carrier(p) \/ (Refused(p) /\ Close(p))
     \/ \E p \in Ends, i \in Ids :
          \/ ReadQueue(p, i) \/ ReadDrop(p, i) \/ Writer(p, i)
          \/ st[p][i].conn = "closed" /\ ReadError(p, i)
  /\ UNCHANGED scene

(* While some goroutine can run, one of them does; a dial ends within its
   timeout, the carrier delivers until Close, a local connection accepts what
   is written to it, and reading or writing a closed one returns. *)
Fairness == WF_vars(Internal)

FairSpec == Spec /\ Fairness

-----------------------------------------------------------------------------
(* Properties. *)

\* What two Peers can refuse each other: only the server refuses anything, and
\* only the opening of a stream, because its table is full, because take
\* passed over this very OPEN for want of room, or because the stream failed
\* before its OPEN had left. No interleaving of data, half-closes, resets,
\* credit and retirement produces another protocol error, which would end
\* every stream of the session.
OnlyOpeningsRefused ==
  \A p \in Ends : Refused(p) =>
    LET f == Head(wire[Other(p)])
        s == st["client"][f.stream]
    IN /\ p = "server"
       /\ \/ f.kind = "OPEN" /\ (Cardinality(streams[p]) >= MaxStreams \/ s.late)
          \/ f.kind = "RESET" /\ s.open

\* The bytes in the frames of one kind and stream.
Carried(frames, kind, i) ==
  Total([k \in 1..Len(frames) |->
           IF frames[k].kind = kind /\ frames[k].stream = i THEN frames[k].len ELSE 0])
InFlight(p, kind, i) == Carried(wire[p], kind, i)

\* The sender has the stream and the receiver too, or its OPEN is on the way.
Shared(p, i) == i \in streams[p] /\ (i \in streams[Other(p)] \/ highest[Other(p)] < i)

\* Flow control conserves the window: the sender's credit, the bytes on their
\* way, those queued or being written at the receiver, the grant it owes and
\* the CREDIT on its way back always add up to the receiver's window.
CreditConserved ==
  \A p \in Ends, i \in Ids : Shared(p, i) =>
    LET q == Other(p) r == st[q][i] IN
    /\ st[p][i].credit + InFlight(p, "DATA", i) + r.input + r.writing + r.grant
         + InFlight(q, "CREDIT", i) = Window(q)
    /\ i \in streams[q] => r.budget + r.input + r.writing = Window(q)

\* A half-close never overtakes data: once an end has passed the other's FIN
\* to its local connection, that connection has every byte the other end read.
FinMeansAll ==
  \A p \in Ends, i \in Ids :
    st[p][i].remoteFinWritten => put[p][i] = got[Other(p)][i]

\* The scheduler holds exactly the active streams, each once, and no stream
\* stays active once both halves are closed and its credit is returned.
SchedulerExact ==
  \A p \in Ends :
    /\ {order[p][k] : k \in 1..Len(order[p])} = streams[p]
    /\ Len(order[p]) = Cardinality(streams[p])
    /\ cursor[p] <= Len(order[p])
    /\ \A i \in streams[p] : ~Retirable(st[p][i])

\* take would emit a frame of this stream.
Sendable(s) ==
  \/ s.open \/ s.ack \/ s.reset \/ s.grant > 0
  \/ QueuedBytes(s) = 0 /\ (s.pending # <<>> \/ s.output # <<>>)
  \/ ReadyBytes(s) > 0 /\ (s.pending # <<>> \/ s.output # <<>>)

\* The carrier's goroutine never sleeps without a wakeup on its way while a
\* stream has something to send.
NoStall ==
  \A p \in Ends : carrier[p] = "sleep" /\ ~changes[p] /\ ~closed[p] =>
    \A i \in streams[p] : ~Sendable(st[p][i])

Undelivered(p, i) ==
  /\ got[p][i] > put[Other(p)][i]
  /\ ~st[p][i].cancelled /\ ~st[Other(p)][i].cancelled
  /\ ~closed[p] /\ ~closed[Other(p)]

\* Every byte read at one end is written at the other, unless the stream is
\* aborted or the session over: neither credit exhaustion, the credit floor
\* nor a missed wakeup stops a stream for good.
Delivered ==
  (\E p \in Ends, i \in Ids : Undelivered(p, i)) ~> (\A p \in Ends, i \in Ids : ~Undelivered(p, i))

\* A stream both ends have finished leaves both tables.
FinishedRetire ==
  \A i \in Ids :
    (\A p \in Ends : st[p][i].localFinSent) ~> (\A p \in Ends : i \notin streams[p] \/ closed[p])

Drained(s) ==
  s.reader \in {"none", "done"} /\ s.writer \in {"none", "done"} /\ s.conn # "dialing"

\* A cancelled stream's goroutines all end, so that Close, which waits for
\* them, returns. (A stream stays cancelled, and drained.)
CancelDrains ==
  (\E p \in Ends, i \in Ids : st[p][i].cancelled)
    ~> (\A p \in Ends, i \in Ids : st[p][i].cancelled => Drained(st[p][i]))
=============================================================================
