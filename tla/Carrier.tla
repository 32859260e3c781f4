------------------------------ MODULE Carrier ------------------------------
(***************************************************************************)
(* The sustained carrier of one session after its startup: uplink cells    *)
(* come in, by HTTP/3 POSTs that overtake each other (h3.go, h3Upload and  *)
(* orderedUpload) or by the one reader of a WebSocket or packet session    *)
(* (realtime.go, receiveRealtime), and one goroutine writes downlink cells *)
(* with the acknowledgements (realtime.go, writeCells).                    *)
(*                                                                         *)
(* session.mu guards single steps here; uploadMu is state, because a       *)
(* request holds it while it applies the cells of others.  The mux.Peer is *)
(* reduced to what it wants to send (Mux.tla has the rest) and a cell to   *)
(* what receiveRealtime makes of it.                                       *)
(***************************************************************************)
EXTENDS Naturals, FiniteSets

CONSTANTS
  Requests,    \* HTTP/3 POSTs of a behaviour, numbered as they arrive
  MaxPending,  \* maxPendingUploads
  Limit,       \* ^uint32(0), the last cell sequence
  Scenes,      \* the carriers to look at: see scene
  None

Modes == {"h3", "ws", "packet"}

ASSUME CarrierAssumption ==
  /\ MaxPending \in Nat \ {0} /\ Limit \in Nat /\ IsFiniteSet(Requests) /\ Requests \subseteq Nat
  /\ None \notin Nat /\ None \notin {"reader", "refused", "204", "error"}
  /\ \A c \in Scenes : /\ c.mode # "h3" => c.posts = {}
                       /\ c.mode \in Modes /\ c.up \in 0..Limit /\ c.down \in 0..Limit
                       /\ c.posts \subseteq Requests /\ c.around \subseteq {"streams", "ends"}

VARIABLES
  scene,     \* the carrier's mode, up and down after startup, its POSTs, what goes on around it
  up, down,  \* next sequence expected, next sequence to send
  closed,    \* session.close was called: the Peer is closed
  ctx,       \* the context of the carrier's own request or reader is done
  pending,   \* pendingUploads: sequence -> request
  uploadMu,  \* the request that holds it
  next,      \* its local variable
  h3Active,
  h,         \* the handlers of h3Upload
  reader,    \* the loop that reads a WebSocket or the TLS stream is running
  ackPending, ackSequence,
  wake, changes,  \* the tokens in session.wake and Peer.Changes()
  work,      \* what the Peer has to send: nothing, bytes a reader still holds, or frames
  w, saw,    \* where writeCells is; its pressure was not zero
  acked,     \* history: the last ACK put into a cell
  applied    \* history: sequence -> the request whose cell was applied
uvars == <<pending, uploadMu, next, h3Active, h>>
avars == <<ackPending, ackSequence>>
wvars == <<down, w, saw, acked>>
vars == <<scene, up, closed, ctx, uvars, reader, avars, wake, changes, work, wvars, applied>>

Numbers == 0..Limit

NoHandler == [pc |-> "new", seq |-> 0, gone |-> FALSE, done |-> "no", answer |-> None]
Refused == [NoHandler EXCEPT !.pc = "done", !.answer = "refused"]

Init ==
  /\ scene \in Scenes /\ up = scene.up /\ down = scene.down
  /\ closed = FALSE /\ ctx = FALSE
  /\ pending = [q \in Numbers |-> None] /\ uploadMu = None /\ next = 0 /\ h3Active = 0
  /\ h = [r \in Requests |-> NoHandler]
  /\ reader = (scene.mode # "h3")
  /\ ackPending = FALSE /\ ackSequence = None /\ wake = FALSE /\ changes = FALSE
  /\ work = "none" /\ w = "off" /\ saw = FALSE
  /\ acked = None /\ applied = [q \in Numbers |-> None]

-----------------------------------------------------------------------------
(* receiveRealtime. *)

\* What a cell turns out to be: acceptable, with frames or without, or
\* refused for its size, its encoding, a control frame or by Peer.Receive.
Cells == {"frames", "empty", "bad"}

Accepts(q, c) == c # "bad" /\ q = up /\ up < Limit /\ ~closed

\* The cell is applied. Peer.Receive leaves a token of its own when there
\* were frames.
Apply(q, c, r) ==
  /\ up' = up + 1 /\ wake' = TRUE /\ applied' = [applied EXCEPT ![q] = r]
  /\ IF c = "frames" THEN ackPending' = TRUE /\ ackSequence' = q /\ changes' = TRUE
                     ELSE UNCHANGED <<avars, changes>>

-----------------------------------------------------------------------------
(* h3Upload and orderedUpload. *)

At(r, p) == h[r].pc = p
Go(r, p) == h' = [h EXCEPT ![r].pc = p]
Serving(r) == h[r].pc \notin {"new", "done"}
SessionSame ==
  UNCHANGED <<scene, up, closed, ctx, reader, avars, wake, changes, work, wvars, applied>>

\* Only once the GET stream has made the session realtime.
Upload(r, q) ==
  LET ready == w # "off" /\ h3Active < MaxPending IN
  /\ r \in scene.posts /\ At(r, "new") /\ \A o \in Requests : o < r => ~At(o, "new")
  /\ h' = [h EXCEPT ![r] = IF ready THEN [@ EXCEPT !.pc = "body", !.seq = q] ELSE Refused]
  /\ h3Active' = IF ready THEN h3Active + 1 ELSE h3Active
  /\ UNCHANGED <<pending, uploadMu, next>> /\ SessionSame

\* A wrong method or protocol, or a connection without deadlines.
Decline(r) ==
  /\ At(r, "body")
  /\ h' = [h EXCEPT ![r] = Refused] /\ h3Active' = h3Active - 1
  /\ UNCHANGED <<pending, uploadMu, next>> /\ SessionSame

\* Reading or decoding the body failed.
BodyFails(r) ==
  /\ At(r, "body") /\ Go(r, "fail")
  /\ UNCHANGED <<pending, uploadMu, next, h3Active>> /\ SessionSame

OutsidePipeline(q) ==
  \/ q < up \/ q - up >= MaxPending \/ pending[q] # None
  \/ Cardinality({p \in Numbers : pending[p] # None}) >= MaxPending

\* The body is there and uploadMu free: join the pipeline, or fail.
Enter(r) ==
  LET q == h[r].seq IN
  /\ At(r, "body") /\ uploadMu = None
  /\ IF h[r].gone \/ OutsidePipeline(q)
       THEN Go(r, "fail") /\ UNCHANGED <<pending, uploadMu, next>>
       ELSE /\ pending' = [pending EXCEPT ![q] = r] /\ uploadMu' = r /\ next' = up
            /\ Go(r, "drain")
  /\ UNCHANGED h3Active /\ SessionSame

\* Defective variant: the request applies its own cell only.
DrainOne(r, c) ==
  LET o == pending[next] IN
  /\ At(r, "drain") /\ o = r /\ ~h[r].gone /\ Accepts(next, c)
  /\ pending' = [pending EXCEPT ![next] = None] /\ uploadMu' = None
  /\ h' = [h EXCEPT ![r].done = "ok", ![r].pc = "wait"]
  /\ Apply(next, c, r) /\ UNCHANGED closed /\ next' = next + 1
  /\ UNCHANGED <<scene, ctx, h3Active, reader, work, wvars>>

\* One turn of the loop: the cell that is next, whoever sent it. A failure
\* ends the session and the loop.
Drain(r, c) ==
  LET o == pending[next]
      ok == ~h[o].gone /\ Accepts(next, c)
  IN
  /\ At(r, "drain") /\ o # None
  /\ pending' = [pending EXCEPT ![next] = None]
  /\ h' = [h EXCEPT ![o].done = IF ok THEN "ok" ELSE "failed",
                    ![r].pc = IF ok THEN "drain" ELSE "wait"]
  /\ IF ok THEN Apply(next, c, o) /\ next' = next + 1 /\ UNCHANGED <<closed, uploadMu>>
     ELSE /\ closed' = TRUE /\ uploadMu' = None
          /\ UNCHANGED <<up, next, avars, wake, changes, applied>>
  /\ UNCHANGED <<scene, ctx, h3Active, reader, work, wvars>>

DrainEnd(r) ==
  /\ At(r, "drain") /\ pending[next] = None
  /\ uploadMu' = None /\ Go(r, "wait")
  /\ UNCHANGED <<pending, next, h3Active>> /\ SessionSame

\* Defective variant: a cancelled request reports pending.err, still nil.
WaitOverNil(r, timer) ==
  /\ At(r, "wait")
  /\ Go(r, IF h[r].done = "failed" THEN "failed" ELSE "served")
  /\ timer \/ h[r].gone \/ closed \/ h[r].done # "no"
  /\ UNCHANGED <<pending, uploadMu, next, h3Active>> /\ SessionSame

\* Defective variant: the select does not look at the session.
WaitOverDeaf(r, timer) ==
  /\ At(r, "wait")
  /\ \/ h[r].done = "ok" /\ Go(r, "served")
     \/ (h[r].done = "failed" \/ h[r].gone \/ timer) /\ Go(r, "failed")
  /\ UNCHANGED <<pending, uploadMu, next, h3Active>> /\ SessionSame

\* The select takes any branch that is ready: the cell was applied or
\* refused, the request was cancelled, the session closed, 45 seconds passed.
WaitOver(r, timer) ==
  /\ At(r, "wait")
  /\ \/ h[r].done = "ok" /\ Go(r, "served")
     \/ (h[r].done = "failed" \/ h[r].gone \/ closed \/ timer) /\ Go(r, "failed")
  /\ UNCHANGED <<pending, uploadMu, next, h3Active>> /\ SessionSame

\* The deferred function takes the entry out if it is still this request's.
Leave(r) ==
  LET q == h[r].seq IN
  /\ h[r].pc \in {"served", "failed"} /\ uploadMu = None
  /\ pending' = [pending EXCEPT ![q] = IF @ = r THEN None ELSE @]
  /\ Go(r, IF At(r, "served") THEN "ok" ELSE "fail")
  /\ UNCHANGED <<uploadMu, next, h3Active>> /\ SessionSame

\* 204, or the session ends; the slot is free again and the handler's
\* variables are gone (the sequence is kept with a 204, for AnswerExact).
Answer(r) ==
  /\ h[r].pc \in {"ok", "fail"}
  /\ h' = [h EXCEPT ![r] = [NoHandler EXCEPT !.pc = "done", !.seq = IF At(r, "ok") THEN h[r].seq ELSE 0,
                                            !.answer = IF At(r, "ok") THEN "204" ELSE "error"]]
  /\ closed' = (closed \/ At(r, "fail"))
  /\ h3Active' = h3Active - 1
  /\ UNCHANGED <<scene, up, ctx, pending, uploadMu, next, reader, avars, wake, changes, work,
                 wvars, applied>>

\* The client gives the request up, or its QUIC stream breaks.
Cancel(r) ==
  /\ Serving(r) /\ ~h[r].gone
  /\ h' = [h EXCEPT ![r].gone = TRUE]
  /\ UNCHANGED <<pending, uploadMu, next, h3Active>> /\ SessionSame

-----------------------------------------------------------------------------
(* The reader of a WebSocket (realtime) or of a packet session (runPacket). *)

\* The first cell that is refused ends the loop, and with it the carrier.
Read(q, c) ==
  /\ reader /\ (scene.mode = "ws" => w # "off")
  /\ IF Accepts(q, c)
       THEN Apply(q, c, "reader") /\ UNCHANGED <<reader, ctx, closed>>
       ELSE /\ reader' = FALSE /\ ctx' = TRUE /\ closed' = (closed \/ scene.mode = "packet")
            /\ UNCHANGED <<up, avars, wake, changes, applied>>
  /\ UNCHANGED <<scene, uvars, work, wvars>>

-----------------------------------------------------------------------------
(* writeCells. *)

Waiting == w \in {"idle", "batch", "empty"}
WriterSame == UNCHANGED <<scene, up, uvars, reader, applied>>

\* GET /api/stream, the upgrade of /api/realtime, the first packet download.
Open ==
  /\ w = "off" /\ ~closed /\ w' = "look"
  /\ UNCHANGED <<closed, ctx, avars, wake, changes, work, down, saw, acked>> /\ WriterSame

\* The deferred s.close() or p.close().
End ==
  /\ w' = "ended" /\ closed' = TRUE /\ ctx' = TRUE
  /\ UNCHANGED <<avars, wake, changes, work, down, saw, acked>> /\ WriterSame

\* The pressure, under Peer.mu alone.
Look ==
  /\ w = "look" /\ w' = "acks" /\ saw' = (work # "none")
  /\ UNCHANGED <<closed, ctx, avars, wake, changes, work, down, acked>> /\ WriterSame

\* Then ackPending, under session.mu: sleep, collect for 2 ms (waitPacketBatch,
\* waitRealtimeCoalesce, by the number of bytes) or send.
LookAck ==
  /\ w = "acks"
  /\ w' \in IF ~saw /\ ~ackPending THEN {"idle"}
            ELSE IF scene.mode = "packet" THEN {"batch"}
            ELSE IF saw THEN {"emit", "batch"} ELSE {"emit"}
  /\ UNCHANGED <<closed, ctx, avars, wake, changes, work, down, saw, acked>> /\ WriterSame

Woken ==
  /\ Waiting
  /\ \/ wake /\ wake' = FALSE /\ UNCHANGED changes
     \/ changes /\ changes' = FALSE /\ UNCHANGED wake
  /\ w' = IF w = "batch" THEN w ELSE "look"
  /\ UNCHANGED <<closed, ctx, avars, work, down, saw, acked>> /\ WriterSame

\* The heartbeat sends a cell even if it is empty; the batch is complete.
Timer ==
  /\ w \in {"idle", "batch"} /\ w' = IF w = "idle" THEN "beat" ELSE "emit"
  /\ UNCHANGED <<closed, ctx, avars, wake, changes, work, down, saw, acked>> /\ WriterSame

Stop == Waiting /\ (ctx \/ closed) /\ End

\* Under session.mu, with the pressure read again. The bytes a reader still
\* holds count as pressure and cannot be taken.
Emit ==
  /\ w \in {"emit", "beat"} /\ down < Limit
  /\ CASE w = "emit" /\ work = "none" /\ ~ackPending ->
            w' = "look" /\ UNCHANGED <<down, avars, acked, work>>
       [] w = "emit" /\ work = "hand" /\ ~ackPending ->
            w' = "empty" /\ UNCHANGED <<down, avars, acked, work>>
       [] OTHER ->
            /\ w' = "write" /\ down' = down + 1
            /\ acked' = IF ackPending THEN ackSequence ELSE acked
            /\ ackPending' = FALSE /\ UNCHANGED ackSequence
            /\ work' \in IF work = "ready" THEN {"none", "ready"} ELSE {work}
  /\ UNCHANGED <<closed, ctx, wake, changes, saw>> /\ WriterSame

Exhausted == w \in {"emit", "beat"} /\ down = Limit /\ End

\* Defective variant: the acknowledgement is cleared after the write.
WrittenClears ==
  /\ w = "write" /\ w' = "look" /\ ackPending' = FALSE
  /\ UNCHANGED <<closed, ctx, ackSequence, wake, changes, work, down, saw, acked>> /\ WriterSame

Written ==
  /\ w = "write" /\ w' = "look"
  /\ UNCHANGED <<closed, ctx, avars, wake, changes, work, down, saw, acked>> /\ WriterSame

WriteFails == w = "write" /\ End

-----------------------------------------------------------------------------
(* The surroundings: the streams of the Peer, the client, expiry. *)

\* A stream's reader has bytes in hand, puts them into its queue, or drops
\* them with its stream; or a control frame is due.
PeerWork(to) ==
  /\ "streams" \in scene.around /\ ~closed
  /\ <<work, to>> \in {<<"none", "hand">>, <<"hand", "ready">>, <<"hand", "none">>, <<"none", "ready">>}
  /\ work' = to /\ changes' = (changes \/ to = "ready")
  /\ UNCHANGED <<closed, ctx, avars, wake, wvars>> /\ WriterSame

\* The client leaves its stream.
Hangup ==
  /\ "ends" \in scene.around /\ w # "off" /\ ~ctx /\ ctx' = TRUE
  /\ UNCHANGED <<closed, avars, wake, changes, work, wvars>> /\ WriterSame

\* Expiry and Cleanup.
SessionCloses ==
  /\ "ends" \in scene.around /\ ~closed /\ closed' = TRUE
  /\ UNCHANGED <<ctx, avars, wake, changes, work, wvars>> /\ WriterSame

-----------------------------------------------------------------------------
Handler(r) ==
  \/ BodyFails(r) \/ Enter(r) \/ (\E c \in Cells : Drain(r, c)) \/ DrainEnd(r)
  \/ WaitOver(r, FALSE) \/ Leave(r) \/ Answer(r)

\* What writeCells does by itself or is woken for, and its timers.
WriterRuns ==
  Look \/ LookAck \/ Woken \/ Stop \/ Emit \/ Exhausted \/ Written \/ WriteFails
Writer == WriterRuns \/ Timer

Next ==
  \/ \E r \in Requests : \/ Handler(r) \/ Decline(r) \/ WaitOver(r, TRUE) \/ Cancel(r)
                         \/ \E q \in Numbers : Upload(r, q)
  \/ \E q \in Numbers, c \in Cells : Read(q, c)
  \/ Open \/ Writer \/ Hangup \/ SessionCloses
  \/ \E to \in {"none", "hand", "ready"} : PeerWork(to)

Spec == Init /\ [][Next]_vars

(* The writer goes on while it can, and so does some handler: reads of a body
   and writes of a cell have deadlines.  Neither the 45 s timer of a waiting
   upload nor the writer's heartbeat and batch timers are counted on. *)
Fairness == WF_vars(WriterRuns) /\ WF_vars(\E r \in Requests : Handler(r))

FairSpec == Spec /\ Fairness

-----------------------------------------------------------------------------
(* Properties. *)

\* The retained cells are those of requests that still hold a slot, inside
\* the pipeline, and none that could be applied is left behind when uploadMu
\* is released: otherwise every upload after it would run into its timeout.
PendingExact ==
  /\ h3Active = Cardinality({r \in Requests : Serving(r)}) /\ h3Active <= MaxPending
  /\ \A q \in Numbers : pending[q] # None =>
       /\ h[pending[q]].seq = q /\ h[pending[q]].pc \in {"drain", "wait", "served", "failed"}
       /\ q >= up /\ q - up < MaxPending
  /\ uploadMu = None /\ ~closed => pending[up] = None

\* 204 means that this request's own cell was applied, after all before it;
\* any other end of a request whose body was accepted ends the carrier
\* (docs/PROTOCOL.md, "204 only after in-order cell application").
AnswerExact ==
  \A r \in Requests :
    /\ h[r].answer = "204" =>
         applied[h[r].seq] = r /\ \A q \in scene.up..h[r].seq : q < up /\ applied[q] # None
    /\ h[r].answer = "error" => closed

AcksCumulative ==
  IF ackPending THEN ackSequence < up /\ (acked = None \/ acked < ackSequence)
  ELSE acked = ackSequence
AcksAwake ==
  w \in {"idle", "empty"} /\ ~wake /\ ~changes => ~ackPending /\ work # "ready"

\* ACKs are cumulative and none is lost or late: the last cell with frames
\* that was applied is named by an ACK already sent or by the one to come,
\* which is a later one; and writeCells never sleeps until its heartbeat, or
\* for ever on an empty cell, while an ACK or a frame is there to be sent.
AckExact == AcksCumulative /\ AcksAwake

\* Once the session is closed the stream and every upload end, without their
\* timers, whatever the requests were waiting for.
CloseDrains ==
  closed ~> w \in {"off", "ended"} /\ \A r \in Requests : ~Serving(r)
=============================================================================
