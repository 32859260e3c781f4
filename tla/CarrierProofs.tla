--------------------------- MODULE CarrierProofs ---------------------------
(***************************************************************************)
(* Proofs about Carrier: PendingExact, AnswerExact and AckExact hold for   *)
(* every number of requests, every size of the pipeline, every end of the  *)
(* sequence numbers and every carrier.                                     *)
(***************************************************************************)
EXTENDS Carrier, FiniteSetTheorems, TLAPS

Pcs == {"new", "body", "drain", "wait", "served", "failed", "ok", "fail", "done"}
Handlers == [pc : Pcs, seq : Numbers, gone : BOOLEAN, done : {"no", "ok", "failed"},
             answer : {None, "refused", "204", "error"}]

\* The shapes the argument needs, in the three groups it treats apart.
SessionShapes ==
  /\ scene \in Scenes /\ up \in Numbers /\ scene.up <= up
  /\ closed \in BOOLEAN /\ reader \in BOOLEAN
  /\ applied = [q \in Numbers |-> applied[q]]
UploadShapes ==
  /\ pending \in [Numbers -> Requests \cup {None}] /\ uploadMu \in Requests \cup {None}
  /\ h \in [Requests -> Handlers]
WriterShapes ==
  /\ ackPending \in BOOLEAN /\ wake \in BOOLEAN /\ changes \in BOOLEAN /\ saw \in BOOLEAN
  /\ ackSequence \in Numbers \cup {None} /\ acked \in Numbers \cup {None}

\* uploadMu is held by the one request that drains, whose next is the
\* session's up; a carrier read by one goroutine has no requests, so nobody
\* moves up while uploadMu is held.
Holder ==
  /\ \A r \in Requests : h[r].pc = "drain" <=> uploadMu = r
  /\ uploadMu # None => next = up
  /\ \A r \in Requests : h[r].pc # "new" => r \in scene.posts
  /\ reader => scene.mode # "h3"

\* A retained cell is of the request that its entry names.
Entries ==
  \A q \in Numbers : pending[q] # None =>
     /\ h[pending[q]].seq = q /\ h[pending[q]].pc \in {"drain", "wait", "served", "failed"}
     /\ q >= up /\ q - up < MaxPending

\* Nothing that can be applied stays behind.
Drained == uploadMu = None /\ ~closed => pending[up] = None

\* The cells below up were applied, and a request that knows of its success
\* finds its own among them.
History ==
  /\ \A q \in scene.up..(up - 1) : applied[q] # None
  /\ \A r \in Requests :
       /\ h[r].done = "ok" => h[r].seq >= scene.up /\ h[r].seq < up /\ applied[h[r].seq] = r
       /\ h[r].pc = "new" => h[r] = NoHandler
       /\ h[r].pc \in {"served", "ok"} => h[r].done = "ok"
       /\ h[r].answer = "204" => h[r].seq >= scene.up /\ h[r].seq < up /\ applied[h[r].seq] = r
       /\ h[r].answer = "error" => closed

\* No acknowledgement runs ahead of the cells.
AcksBelow ==
  /\ ackSequence # None => ackSequence < up
  /\ acked # None => acked < up

\* Between its look at the Peer and its look at the acknowledgements the
\* writer may miss a frame, but then Peer.Changes() has a token.
LookRace == w = "acks" /\ ~saw /\ ~changes => work # "ready"

Slots ==
  /\ h3Active = Cardinality({r \in Requests : Serving(r)})
  /\ h3Active <= MaxPending

UploadInv == SessionShapes /\ UploadShapes /\ Holder /\ Entries /\ Drained /\ History
AckInv == WriterShapes /\ AcksCumulative /\ AcksBelow /\ AcksAwake /\ LookRace
Inv == UploadInv /\ AckInv /\ Slots

-----------------------------------------------------------------------------
(* The initial states. *)

LEMMA InvInit == ASSUME Init PROVE Inv
<1> USE CarrierAssumption DEF Numbers, NoHandler
<1>1. SessionShapes
  <2>1. scene \in Scenes /\ up \in Numbers /\ scene.up <= up
    BY DEF Init
  <2>2. closed \in BOOLEAN /\ reader \in BOOLEAN
    BY DEF Init
  <2>3. applied = [q \in Numbers |-> applied[q]]
    BY DEF Init
  <2>4. QED
    BY <2>1, <2>2, <2>3 DEF SessionShapes
<1>2. UploadShapes
  BY DEF Init, UploadShapes, Handlers, Pcs
<1>3. Holder /\ Entries /\ Drained
  <2>1. Holder
    BY DEF Init, Holder
  <2>2. Entries /\ Drained
    BY <1>1 DEF Init, Entries, Drained, SessionShapes
  <2>3. QED
    BY <2>1, <2>2
<1>4. History
  BY DEF Init, History
<1>5. AckInv
  BY DEF Init, AckInv, WriterShapes, AcksCumulative, AcksBelow, AcksAwake, LookRace
<1>6. Slots
  <2>1. {r \in Requests : Serving(r)} = {}
    BY DEF Init, Serving
  <2>2. Cardinality({r \in Requests : Serving(r)}) = 0
    BY <2>1, FS_EmptySet
  <2>3. QED
    BY <2>2 DEF Init, Slots
<1>7. QED
  BY <1>1, <1>2, <1>3, <1>4, <1>5, <1>6 DEF Inv, UploadInv

-----------------------------------------------------------------------------
(* The uploads. *)

\* A step that leaves the uploads alone may close the session.
LEMMA UploadFrame ==
  ASSUME UploadInv, UNCHANGED <<scene, up, uvars, reader, applied>>,
         closed' \in BOOLEAN, closed => closed'
  PROVE  UploadInv'
<1>1. SessionShapes' /\ UploadShapes'
  BY DEF UploadInv, SessionShapes, UploadShapes, uvars
<1>2. Holder' /\ Entries'
  BY DEF UploadInv, Holder, Entries, uvars
<1>3. Drained'
  BY DEF UploadInv, Drained, uvars
<1>4. History'
  BY DEF UploadInv, History, uvars
<1>5. QED
  BY <1>1, <1>2, <1>3, <1>4 DEF UploadInv

LEMMA UploadWriter ==
  ASSUME UploadInv,
         Open \/ Writer \/ Hangup \/ SessionCloses \/ \E to \in {"none", "hand", "ready"} : PeerWork(to)
  PROVE  UploadInv'
<1>1. closed \in BOOLEAN
  BY DEF UploadInv, SessionShapes
<1> USE DEF WriterSame, wvars, End
<1>2. UNCHANGED <<scene, up, uvars, reader, applied>>
  <2>1. CASE Open BY <2>1 DEF Open
  <2>2. CASE Writer
    BY <2>2 DEF Writer, WriterRuns, Look, LookAck, Woken, Timer, Stop, Emit, Exhausted, Written, WriteFails
  <2>3. CASE Hangup \/ SessionCloses BY <2>3 DEF Hangup, SessionCloses
  <2>4. CASE \E to \in {"none", "hand", "ready"} : PeerWork(to) BY <2>4 DEF PeerWork
  <2>5. QED BY <2>1, <2>2, <2>3, <2>4
<1>3. closed' \in BOOLEAN /\ (closed => closed')
  <2>1. CASE Open BY <1>1, <2>1 DEF Open
  <2>2. CASE Writer
    BY <1>1, <2>2 DEF Writer, WriterRuns, Look, LookAck, Woken, Timer, Stop, Emit, Exhausted, Written, WriteFails
  <2>3. CASE Hangup \/ SessionCloses BY <1>1, <2>3 DEF Hangup, SessionCloses
  <2>4. CASE \E to \in {"none", "hand", "ready"} : PeerWork(to) BY <1>1, <2>4 DEF PeerWork
  <2>5. QED BY <2>1, <2>2, <2>3, <2>4
<1> HIDE DEF WriterSame, wvars, End
<1>4. QED
  BY <1>2, <1>3, UploadFrame

Retained == {"drain", "wait", "served", "failed"}

\* What History says of one request.
Honest(r) ==
  /\ h[r].done = "ok" => h[r].seq >= scene.up /\ h[r].seq < up /\ applied[h[r].seq] = r
  /\ h[r].pc = "new" => h[r] = NoHandler
  /\ h[r].pc \in {"served", "ok"} => h[r].done = "ok"
  /\ h[r].answer = "204" => h[r].seq >= scene.up /\ h[r].seq < up /\ applied[h[r].seq] = r
  /\ h[r].answer = "error" => closed

\* One request moves on, without uploadMu and outside the pipeline's state.
LEMMA UploadMove ==
  ASSUME UploadInv, NEW r \in Requests,
         h' \in [Requests -> Handlers], \A o \in Requests \ {r} : h'[o] = h[o],
         UNCHANGED <<scene, up, pending, uploadMu, next, reader, applied>>,
         closed' \in BOOLEAN, closed => closed',
         h'[r].pc = "drain" <=> h[r].pc = "drain", r \in scene.posts,
         h[r].pc \in Retained => h'[r].pc \in Retained /\ h'[r].seq = h[r].seq,
         Honest(r)'
  PROVE  UploadInv'
<1>1. SessionShapes' /\ UploadShapes'
  BY DEF UploadInv, SessionShapes, UploadShapes
<1>2. Holder'
  BY DEF UploadInv, Holder, UploadShapes
<1>3. Entries'
  <2> SUFFICES ASSUME NEW q \in Numbers, pending[q] # None
               PROVE  /\ h'[pending[q]].seq = q /\ h'[pending[q]].pc \in Retained
                      /\ q >= up /\ q - up < MaxPending
    BY DEF Entries, Retained
  <2>1. pending[q] \in Requests
    BY DEF UploadInv, UploadShapes
  <2>2. /\ h[pending[q]].seq = q /\ h[pending[q]].pc \in Retained
        /\ q >= up /\ q - up < MaxPending
    BY DEF UploadInv, Entries, Retained
  <2>3. QED
    BY <2>1, <2>2
<1>4. Drained'
  BY DEF UploadInv, Drained
<1>5. History'
  <2>1. ASSUME NEW o \in Requests PROVE Honest(o)'
    BY DEF UploadInv, History, Honest
  <2>2. \A q \in scene'.up..(up' - 1) : applied'[q] # None
    BY DEF UploadInv, History
  <2>3. QED
    BY <2>1, <2>2 DEF History, Honest
<1>6. QED
  BY <1>1, <1>2, <1>3, <1>4, <1>5 DEF UploadInv

\* The records that a request is given as a whole.
LEMMA Records ==
  /\ NoHandler \in Handlers /\ NoHandler.done = "no" /\ NoHandler.answer = None
  /\ Refused \in Handlers /\ Refused.pc = "done" /\ Refused.done = "no" /\ Refused.answer = "refused"
<1>1. 0 \in Numbers /\ "done" \in Pcs
  BY CarrierAssumption DEF Numbers, Pcs
<1>2. NoHandler \in Handlers /\ NoHandler.done = "no" /\ NoHandler.answer = None
  BY <1>1 DEF NoHandler, Handlers, Pcs
<1>3. QED
  BY <1>1, <1>2 DEF Refused, Handlers, Pcs

\* The handlers that do not touch the pipeline.
LEMMA UploadAside ==
  ASSUME UploadInv, NEW r \in Requests,
         \/ \E q \in Numbers : Upload(r, q)
         \/ Decline(r) \/ BodyFails(r) \/ (\E timer \in BOOLEAN : WaitOver(r, timer)) \/ Cancel(r)
         \/ Answer(r)
  PROVE  UploadInv'
<1> USE CarrierAssumption
<1> USE DEF SessionSame, Go, At
<1>1. h[r] \in Handlers /\ h \in [Requests -> Handlers] /\ closed \in BOOLEAN
  BY DEF UploadInv, UploadShapes, SessionShapes
<1>2. Honest(r) /\ (h[r].pc # "new" => r \in scene.posts)
  BY DEF UploadInv, History, Honest, Holder
<1>3. CASE \E q \in Numbers : Upload(r, q)
  <2> PICK q \in Numbers : Upload(r, q)
    BY <1>3
  <2>1. \/ h' = [h EXCEPT ![r] = [h[r] EXCEPT !.pc = "body", !.seq = q]]
        \/ h' = [h EXCEPT ![r] = Refused]
    BY DEF Upload
  <2>2. h[r].pc = "new" /\ r \in scene.posts
    BY DEF Upload
  <2> DEFINE hr == [h[r] EXCEPT !.pc = "body", !.seq = q]
  <2>3. hr \in Handlers /\ hr.pc = "body" /\ hr.done = "no" /\ hr.answer = None
    <3>1. h[r] = NoHandler
      BY <1>2, <2>2 DEF Honest
    <3>2. QED
      BY <3>1, Records DEF Pcs, Handlers
  <2> HIDE DEF hr
  <2>6. /\ h' \in [Requests -> Handlers] /\ \A o \in Requests \ {r} : h'[o] = h[o]
        /\ h'[r].pc \in {"body", "done"} /\ h'[r].done = "no" /\ h'[r].answer \in {None, "refused"}
    BY <1>1, <2>1, <2>3, Records DEF hr
  <2>4. Honest(r)'
    BY <2>6 DEF Honest
  <2>5. QED
    BY <1>1, <2>2, <2>6, <2>4, UploadMove DEF Upload, Retained, Handlers
<1>4. CASE Decline(r)
  <2>1. h' = [h EXCEPT ![r] = Refused] /\ h[r].pc = "body"
    BY <1>4 DEF Decline
  <2>2. /\ h' \in [Requests -> Handlers] /\ \A o \in Requests \ {r} : h'[o] = h[o]
        /\ h'[r].pc = "done" /\ h'[r].done = "no" /\ h'[r].answer = "refused"
    BY <1>1, <2>1, Records
  <2>3. Honest(r)'
    BY <2>2 DEF Honest
  <2>4. QED
    BY <1>1, <1>2, <1>4, <2>1, <2>2, <2>3, UploadMove DEF Decline, Retained, Handlers
<1>5. CASE BodyFails(r)
  <2>1. /\ h' \in [Requests -> Handlers] /\ \A o \in Requests \ {r} : h'[o] = h[o]
        /\ h[r].pc = "body" /\ h'[r] = [h[r] EXCEPT !.pc = "fail"]
    BY <1>1, <1>5 DEF BodyFails, Handlers, Pcs
  <2>2. Honest(r)'
    BY <1>1, <1>2, <1>5, <2>1 DEF Honest, BodyFails, Handlers
  <2>3. QED
    BY <1>1, <1>2, <1>5, <2>1, <2>2, UploadMove DEF BodyFails, Retained, Handlers
<1>6. CASE \E timer \in BOOLEAN : WaitOver(r, timer)
  <2>1. /\ h[r].pc = "wait"
        /\ \/ h[r].done = "ok" /\ h' = [h EXCEPT ![r].pc = "served"]
           \/ h' = [h EXCEPT ![r].pc = "failed"]
    BY <1>6 DEF WaitOver
  <2>2. /\ h' \in [Requests -> Handlers] /\ \A o \in Requests \ {r} : h'[o] = h[o]
        /\ \/ h[r].done = "ok" /\ h'[r] = [h[r] EXCEPT !.pc = "served"]
           \/ h'[r] = [h[r] EXCEPT !.pc = "failed"]
    BY <1>1, <2>1 DEF Handlers, Pcs
  <2>3. Honest(r)'
    BY <1>1, <1>2, <1>6, <2>2 DEF Honest, WaitOver, Handlers
  <2>4. QED
    BY <1>1, <1>2, <1>6, <2>1, <2>2, <2>3, UploadMove DEF WaitOver, Retained, Handlers
<1>7. CASE Cancel(r)
  <2>1. h' = [h EXCEPT ![r].gone = TRUE] /\ h[r].pc \notin {"new", "done"}
    BY <1>7 DEF Cancel, Serving
  <2>2. /\ h' \in [Requests -> Handlers] /\ \A o \in Requests \ {r} : h'[o] = h[o]
        /\ h'[r] = [h[r] EXCEPT !.gone = TRUE]
    BY <1>1, <2>1 DEF Handlers
  <2>3. Honest(r)'
    BY <1>1, <1>2, <1>7, <2>1, <2>2 DEF Honest, Cancel, Handlers
  <2>4. QED
    BY <1>1, <1>2, <1>7, <2>1, <2>2, <2>3, UploadMove DEF Cancel, Retained, Handlers
<1>8. CASE Answer(r)
  <2>1. /\ h[r].pc \in {"ok", "fail"}
        /\ h' = [h EXCEPT ![r] = [NoHandler EXCEPT !.pc = "done",
                                                   !.seq = IF At(r, "ok") THEN h[r].seq ELSE 0,
                                                   !.answer = IF At(r, "ok") THEN "204" ELSE "error"]]
        /\ closed' = (closed \/ At(r, "fail"))
    BY <1>8 DEF Answer
  <2>2. /\ h' \in [Requests -> Handlers] /\ \A o \in Requests \ {r} : h'[o] = h[o]
        /\ h'[r].pc = "done" /\ h'[r].done = "no"
        /\ \/ h[r].pc = "ok" /\ h'[r].seq = h[r].seq /\ h'[r].answer = "204"
           \/ h[r].pc = "fail" /\ h'[r].answer = "error"
    <3> DEFINE seq == IF At(r, "ok") THEN h[r].seq ELSE 0
               answer == IF At(r, "ok") THEN "204" ELSE "error"
               hr == [NoHandler EXCEPT !.pc = "done", !.seq = seq, !.answer = answer]
    <3>1. h' = [h EXCEPT ![r] = hr]
      BY <2>1
    <3>2. seq \in Numbers /\ answer \in {"204", "error"} /\ "done" \in Pcs
      BY <1>1 DEF Handlers, Pcs, Numbers
    <3>3. hr \in Handlers /\ hr.pc = "done" /\ hr.done = "no" /\ hr.seq = seq /\ hr.answer = answer
      <4> HIDE DEF seq, answer
      <4> QED BY <3>2, Records DEF Handlers
    <3> HIDE DEF hr
    <3>4. QED
      BY <1>1, <2>1, <3>1, <3>3, ZenonT(60)
  <2>3. closed' \in BOOLEAN /\ (closed => closed') /\ (h[r].pc = "fail" => closed')
    BY <1>1, <2>1
  <2>4. Honest(r)'
    BY <1>2, <1>8, <2>2, <2>3 DEF Honest, Answer
  <2>5. QED
    BY <1>1, <1>2, <1>8, <2>1, <2>2, <2>3, <2>4, UploadMove DEF Answer, Retained, Handlers
<1>9. QED
  BY <1>3, <1>4, <1>5, <1>6, <1>7, <1>8

LEMMA UploadEnter ==
  ASSUME UploadInv, NEW r \in Requests, Enter(r)
  PROVE  UploadInv'
<1> USE CarrierAssumption
<1> USE DEF SessionSame, Go, At
<1> DEFINE q == h[r].seq
<1>1. h[r] \in Handlers /\ h \in [Requests -> Handlers] /\ closed \in BOOLEAN /\ up \in Numbers
  BY DEF UploadInv, UploadShapes, SessionShapes
<1>2. Honest(r) /\ r \in scene.posts /\ h[r].pc = "body" /\ uploadMu = None
  BY DEF UploadInv, History, Honest, Holder, Enter
<1>3. UNCHANGED <<scene, up, closed, reader, applied>>
  BY DEF Enter
<1>4. CASE h' = [h EXCEPT ![r].pc = "fail"] /\ UNCHANGED <<pending, uploadMu, next>>
  <2>1. /\ h' \in [Requests -> Handlers] /\ \A o \in Requests \ {r} : h'[o] = h[o]
        /\ h'[r] = [h[r] EXCEPT !.pc = "fail"]
    BY <1>1, <1>4 DEF Handlers, Pcs
  <2>2. Honest(r)'
    BY <1>1, <1>2, <1>3, <2>1 DEF Honest, Handlers
  <2>3. QED
    BY <1>1, <1>2, <1>3, <1>4, <2>1, <2>2, UploadMove DEF Retained, Handlers
<1>5. CASE /\ ~OutsidePipeline(q) /\ pending' = [pending EXCEPT ![q] = r]
           /\ uploadMu' = r /\ next' = up /\ h' = [h EXCEPT ![r].pc = "drain"]
  <2>1. /\ h' \in [Requests -> Handlers] /\ \A o \in Requests \ {r} : h'[o] = h[o]
        /\ h'[r] = [h[r] EXCEPT !.pc = "drain"]
    BY <1>1, <1>5 DEF Handlers, Pcs
  <2>2. q \in Numbers /\ q >= up /\ q - up < MaxPending
    BY <1>1, <1>5 DEF OutsidePipeline, Handlers, Numbers
  <2>3. SessionShapes' /\ UploadShapes'
    BY <1>3, <1>5, <2>1, <2>2 DEF UploadInv, SessionShapes, UploadShapes
  <2>4. Holder'
    BY <1>1, <1>2, <1>3, <1>5, <2>1 DEF UploadInv, Holder, Handlers
  <2>5. Entries'
    <3> SUFFICES ASSUME NEW p \in Numbers, pending'[p] # None
                 PROVE  /\ h'[pending'[p]].seq = p /\ h'[pending'[p]].pc \in Retained
                        /\ p >= up /\ p - up < MaxPending
      BY <1>3 DEF Entries, Retained
    <3>1. CASE p = q
      <4>1. pending'[p] = r
        BY <3>1, <1>5, <2>2 DEF UploadInv, UploadShapes
      <4>2. QED
        BY <4>1, <3>1, <1>1, <2>1, <2>2 DEF Retained, Handlers
    <3>2. CASE p # q
      <4>1. pending'[p] = pending[p] /\ pending[p] \in Requests
        BY <3>2, <1>5 DEF UploadInv, UploadShapes
      <4>2. /\ h[pending[p]].seq = p /\ h[pending[p]].pc \in Retained
            /\ p >= up /\ p - up < MaxPending
        BY <4>1 DEF UploadInv, Entries, Retained
      <4>3. pending[p] # r
        BY <4>2, <1>2 DEF Retained
      <4>4. QED
        BY <4>1, <4>2, <4>3, <2>1
    <3>3. QED
      BY <3>1, <3>2
  <2>6. Drained'
    BY <1>5 DEF Drained
  <2>7. History'
    <3>1. ASSUME NEW o \in Requests PROVE Honest(o)'
      BY <1>1, <1>2, <1>3, <2>1 DEF UploadInv, History, Honest, Handlers
    <3>2. \A p \in scene'.up..(up' - 1) : applied'[p] # None
      BY <1>3 DEF UploadInv, History
    <3>3. QED
      BY <3>1, <3>2 DEF History, Honest
  <2>8. QED
    BY <2>3, <2>4, <2>5, <2>6, <2>7 DEF UploadInv
<1>6. QED
  BY <1>4, <1>5 DEF Enter

LEMMA UploadDrain ==
  ASSUME UploadInv, NEW r \in Requests, NEW c \in Cells, Drain(r, c)
  PROVE  UploadInv'
<1> USE CarrierAssumption
<1> USE DEF At
<1> DEFINE o == pending[next]
           ok == ~h[o].gone /\ Accepts(next, c)
<1>1. /\ h \in [Requests -> Handlers] /\ closed \in BOOLEAN /\ up \in Numbers
      /\ pending \in [Numbers -> Requests \cup {None}] /\ scene \in Scenes /\ up >= scene.up
      /\ scene.up \in Nat
  BY DEF UploadInv, UploadShapes, SessionShapes, Numbers
<1>2. h[r].pc = "drain" /\ uploadMu = r /\ next = up
  BY DEF UploadInv, Holder, Drain
<1>3. o \in Requests /\ h[o].seq = up /\ h[o].pc \in Retained
  BY <1>1, <1>2 DEF UploadInv, Entries, Drain, Retained
<1>4. /\ pending' = [pending EXCEPT ![next] = None] /\ UNCHANGED <<scene, reader>>
      /\ h' = [h EXCEPT ![o].done = IF ok THEN "ok" ELSE "failed",
                        ![r].pc = IF ok THEN "drain" ELSE "wait"]
  BY DEF Drain
<1>5. \/ /\ ok /\ Apply(next, c, o) /\ next' = next + 1 /\ UNCHANGED <<closed, uploadMu>>
      \/ ~ok /\ closed' = TRUE /\ uploadMu' = None /\ UNCHANGED <<up, next, applied>>
  BY DEF Drain
<1> HIDE DEF o
<1>6. /\ h' \in [Requests -> Handlers]
      /\ \A x \in Requests : /\ h'[x].seq = h[x].seq /\ h'[x].answer = h[x].answer
                             /\ h'[x].done = IF x = o THEN IF ok THEN "ok" ELSE "failed" ELSE h[x].done
                             /\ h'[x].pc = IF x = r THEN IF ok THEN "drain" ELSE "wait" ELSE h[x].pc
                             /\ h[x].pc # "new" => h'[x].pc # "new"
                             /\ h'[x].pc = "new" => h'[x] = h[x]
  <2> HIDE DEF ok
  <2>0. "drain" \in Pcs /\ "wait" \in Pcs /\ "drain" # "new" /\ "wait" # "new"
    BY DEF Pcs
  <2>1. o \in Requests /\ r \in Requests /\ h[o].pc # "new" /\ h[r].pc # "new"
    BY <1>2, <1>3 DEF Retained
  <2>2. QED
    BY <1>1, <1>4, <2>1 DEF Handlers, Pcs
<1>7. CASE ok
  <2>1. /\ up < Limit /\ up' = up + 1 /\ next' = up' /\ applied' = [applied EXCEPT ![up] = o]
        /\ UNCHANGED <<closed, uploadMu>>
    BY <1>2, <1>5, <1>7 DEF Apply, Accepts
  <2>2. SessionShapes'
    <3>1. applied = [p \in Numbers |-> applied[p]]
      BY DEF UploadInv, SessionShapes
    <3>2. applied' = [p \in Numbers |-> applied'[p]]
      BY <2>1, <3>1
    <3>3. up' \in Numbers /\ scene'.up <= up'
      BY <1>1, <1>4, <2>1 DEF Numbers
    <3>4. QED
      BY <1>4, <2>1, <3>2, <3>3 DEF UploadInv, SessionShapes
  <2>3. UploadShapes'
    BY <1>1, <1>2, <1>4, <1>6, <2>1 DEF UploadInv, UploadShapes
  <2>4. Holder'
    BY <1>2, <1>4, <1>6, <1>7, <2>1 DEF UploadInv, Holder
  <2>5. Entries'
    <3> SUFFICES ASSUME NEW p \in Numbers, pending'[p] # None
                 PROVE  /\ h'[pending'[p]].seq = p /\ h'[pending'[p]].pc \in Retained
                        /\ p >= up' /\ p - up' < MaxPending
      BY DEF Entries, Retained
    <3>1. p # up /\ pending'[p] = pending[p] /\ pending[p] \in Requests
      BY <1>1, <1>2, <1>4
    <3>2. /\ h[pending[p]].seq = p /\ h[pending[p]].pc \in Retained
          /\ p >= up /\ p - up < MaxPending
      BY <3>1 DEF UploadInv, Entries, Retained
    <3>3. h'[pending[p]].seq = p /\ h'[pending[p]].pc \in Retained
      BY <3>1, <3>2, <1>6 DEF Retained
    <3>4. p >= up' /\ p - up' < MaxPending
      BY <3>1, <3>2, <2>1, <1>1 DEF Numbers
    <3>5. QED
      BY <3>1, <3>3, <3>4
  <2>6. Drained'
    BY <1>2, <2>1 DEF Drained
  <2>7. History'
    <3>0. /\ applied'[up] = o /\ \A p \in Numbers \ {up} : applied'[p] = applied[p]
          /\ \A p \in scene.up..(up - 1) : p \in Numbers \ {up}
      BY <2>1, <1>1 DEF UploadInv, SessionShapes, Numbers
    <3>1. ASSUME NEW x \in Requests PROVE Honest(x)'
      <4>1. Honest(x)
        BY DEF UploadInv, History, Honest
      <4>2. h[x] \in Handlers
        BY <1>1
      <4>3. \/ x = o
            \/ h'[x].done = "ok" => h[x].seq >= scene.up /\ h[x].seq < up /\ applied[h[x].seq] = x
        BY <4>1, <1>6 DEF Honest
      <4>4. h'[x].done = "ok" => h'[x].seq >= scene.up /\ h'[x].seq < up' /\ applied'[h'[x].seq] = x
        BY <4>2, <4>3, <1>1, <1>3, <1>6, <2>1, <3>0 DEF Handlers, Numbers
      <4>5. h'[x].answer = "204" => h'[x].seq >= scene.up /\ h'[x].seq < up' /\ applied'[h'[x].seq] = x
        <5> SUFFICES ASSUME h'[x].answer = "204"
                     PROVE  h'[x].seq >= scene.up /\ h'[x].seq < up' /\ applied'[h'[x].seq] = x
          OBVIOUS
        <5>1. h'[x].seq = h[x].seq /\ h[x].answer = "204"
          BY <1>6
        <5>2. h[x].seq >= scene.up /\ h[x].seq < up /\ applied[h[x].seq] = x
          BY <4>1, <5>1 DEF Honest
        <5>3. h[x].seq \in Numbers /\ h[x].seq # up /\ h[x].seq < up + 1
          BY <4>2, <1>1, <5>2 DEF Handlers, Numbers
        <5>4. QED
          BY <2>1, <3>0, <5>1, <5>2, <5>3
      <4>6. h'[x].pc = "new" => h'[x] = NoHandler
        BY <4>1, <1>6 DEF Honest
      <4>7. h'[x].pc \in {"served", "ok"} => h'[x].done = "ok"
        BY <4>1, <1>6, <1>7 DEF Honest
      <4>8. h'[x].answer = "error" => closed'
        BY <4>1, <1>6, <2>1 DEF Honest
      <4>9. QED
        BY <4>4, <4>5, <4>6, <4>7, <4>8, <1>4 DEF Honest
    <3>2. \A p \in scene'.up..(up' - 1) : applied'[p] # None
      <4>1. o # None
        BY <1>3
      <4>2. \A p \in scene.up..(up - 1) : applied[p] # None
        BY DEF UploadInv, History
      <4>3. QED
        BY <4>1, <4>2, <3>0, <2>1, <1>1, <1>4 DEF Numbers
    <3>3. QED
      BY <3>1, <3>2 DEF History, Honest
  <2>8. QED
    BY <2>2, <2>3, <2>4, <2>5, <2>6, <2>7 DEF UploadInv
<1>8. CASE ~ok
  <2>1. closed' = TRUE /\ uploadMu' = None /\ UNCHANGED <<up, next, applied>>
    BY <1>5, <1>8
  <2>2. SessionShapes'
    BY <1>4, <2>1 DEF UploadInv, SessionShapes
  <2>3. UploadShapes'
    BY <1>1, <1>2, <1>4, <1>6, <2>1 DEF UploadInv, UploadShapes
  <2>4. Holder'
    BY <1>2, <1>4, <1>6, <1>8, <2>1 DEF UploadInv, Holder
  <2>5. Entries'
    <3> SUFFICES ASSUME NEW p \in Numbers, pending'[p] # None
                 PROVE  /\ h'[pending'[p]].seq = p /\ h'[pending'[p]].pc \in Retained
                        /\ p >= up' /\ p - up' < MaxPending
      BY DEF Entries, Retained
    <3>1. p # up /\ pending'[p] = pending[p] /\ pending[p] \in Requests
      BY <1>1, <1>2, <1>4
    <3>2. /\ h[pending[p]].seq = p /\ h[pending[p]].pc \in Retained
          /\ p >= up /\ p - up < MaxPending
      BY <3>1 DEF UploadInv, Entries, Retained
    <3>3. h'[pending[p]].seq = p /\ h'[pending[p]].pc \in Retained
      BY <3>1, <3>2, <1>6 DEF Retained
    <3>4. QED
      BY <3>1, <3>2, <3>3, <2>1
  <2>6. Drained'
    BY <2>1 DEF Drained
  <2>7. History'
    <3>1. ASSUME NEW x \in Requests PROVE Honest(x)'
      <4>1. Honest(x)
        BY DEF UploadInv, History, Honest
      <4>2. h'[x].pc \in {"served", "ok"} => h'[x].done = "ok"
        <5>1. CASE x = o
          BY <5>1, <4>1, <1>1, <1>3, <1>6 DEF Honest, Numbers, Retained
        <5>2. CASE x # o
          BY <5>2, <4>1, <1>6, <1>8 DEF Honest
        <5>3. QED
          BY <5>1, <5>2
      <4>3. QED
        BY <4>1, <4>2, <1>4, <1>6, <1>8, <2>1 DEF Honest
    <3>2. \A p \in scene'.up..(up' - 1) : applied'[p] # None
      BY <1>4, <2>1 DEF UploadInv, History
    <3>3. QED
      BY <3>1, <3>2 DEF History, Honest
  <2>8. QED
    BY <2>2, <2>3, <2>4, <2>5, <2>6, <2>7 DEF UploadInv
<1>9. QED
  BY <1>7, <1>8

LEMMA UploadDrainEnd ==
  ASSUME UploadInv, NEW r \in Requests, DrainEnd(r)
  PROVE  UploadInv'
<1> USE CarrierAssumption
<1> USE DEF SessionSame, Go, At
<1>1. /\ h \in [Requests -> Handlers] /\ h[r].pc = "drain" /\ uploadMu = r /\ next = up
      /\ h' = [h EXCEPT ![r].pc = "wait"] /\ uploadMu' = None /\ pending[up] = None
      /\ UNCHANGED <<scene, up, pending, next, reader, applied, closed>>
  BY DEF UploadInv, UploadShapes, Holder, DrainEnd
<1>2. /\ h' \in [Requests -> Handlers] /\ \A o \in Requests \ {r} : h'[o] = h[o]
      /\ h'[r] = [h[r] EXCEPT !.pc = "wait"]
  BY <1>1 DEF Handlers, Pcs
<1>3. h'[r].pc = "wait" /\ h'[r].seq = h[r].seq /\ h'[r].done = h[r].done /\ h'[r].answer = h[r].answer
  BY <1>1, <1>2 DEF Handlers
<1>4. SessionShapes' /\ UploadShapes'
  BY <1>1, <1>2 DEF UploadInv, SessionShapes, UploadShapes
<1>5. Holder'
  BY <1>1, <1>2, <1>3 DEF UploadInv, Holder
<1>6. Entries'
  <2> SUFFICES ASSUME NEW p \in Numbers, pending[p] # None
               PROVE  /\ h'[pending[p]].seq = p /\ h'[pending[p]].pc \in Retained
                      /\ p >= up /\ p - up < MaxPending
    BY <1>1 DEF Entries, Retained
  <2>1. /\ h[pending[p]].seq = p /\ h[pending[p]].pc \in Retained
        /\ p >= up /\ p - up < MaxPending /\ pending[p] \in Requests
    BY DEF UploadInv, Entries, Retained, UploadShapes
  <2>2. QED
    BY <2>1, <1>2, <1>3 DEF Retained
<1>7. Drained'
  BY <1>1 DEF Drained
<1>8. History'
  <2>1. ASSUME NEW o \in Requests PROVE Honest(o)'
    BY <1>1, <1>2, <1>3 DEF UploadInv, History, Honest
  <2>2. \A p \in scene'.up..(up' - 1) : applied'[p] # None
    BY <1>1 DEF UploadInv, History
  <2>3. QED
    BY <2>1, <2>2 DEF History, Honest
<1>9. QED
  BY <1>4, <1>5, <1>6, <1>7, <1>8 DEF UploadInv

LEMMA UploadLeave ==
  ASSUME UploadInv, NEW r \in Requests, Leave(r)
  PROVE  UploadInv'
<1> USE CarrierAssumption
<1> USE DEF SessionSame, Go, At
<1> DEFINE q == h[r].seq
           to == IF h[r].pc = "served" THEN "ok" ELSE "fail"
<1>1. /\ h \in [Requests -> Handlers] /\ pending \in [Numbers -> Requests \cup {None}] /\ up \in Numbers
      /\ uploadMu = None /\ h[r].pc \in {"served", "failed"} /\ q \in Numbers
  BY DEF UploadInv, UploadShapes, SessionShapes, Leave, Handlers
<1>2. /\ h' = [h EXCEPT ![r].pc = to] /\ pending' = [pending EXCEPT ![q] = IF @ = r THEN None ELSE @]
      /\ UNCHANGED <<scene, up, uploadMu, next, reader, applied, closed>>
  BY DEF Leave
<1>3. /\ h' \in [Requests -> Handlers] /\ \A o \in Requests \ {r} : h'[o] = h[o]
      /\ h'[r].seq = q /\ h'[r].done = h[r].done /\ h'[r].answer = h[r].answer
      /\ h'[r].pc \in {"ok", "fail"} /\ (h'[r].pc = "ok" => h[r].pc = "served")
  BY <1>1, <1>2 DEF Handlers, Pcs
<1>4. \A p \in Numbers : /\ pending'[p] = pending[p] \/ pending'[p] = None
                         /\ pending'[p] = r => p # q
  BY <1>1, <1>2
<1>5. SessionShapes' /\ UploadShapes'
  <2>1. pending' \in [Numbers -> Requests \cup {None}]
    BY <1>1, <1>2
  <2>2. QED
    BY <1>2, <1>3, <2>1 DEF UploadInv, SessionShapes, UploadShapes
<1>6. Holder'
  BY <1>1, <1>2, <1>3 DEF UploadInv, Holder
<1>7. Entries'
  <2> SUFFICES ASSUME NEW p \in Numbers, pending'[p] # None
               PROVE  /\ h'[pending'[p]].seq = p /\ h'[pending'[p]].pc \in Retained
                      /\ p >= up /\ p - up < MaxPending
    BY <1>2 DEF Entries, Retained
  <2>1. pending'[p] = pending[p] /\ pending[p] \in Requests
    BY <1>1, <1>4
  <2>2. /\ h[pending[p]].seq = p /\ h[pending[p]].pc \in Retained
        /\ p >= up /\ p - up < MaxPending
    BY <2>1 DEF UploadInv, Entries, Retained
  <2>3. pending[p] # r
    BY <2>1, <2>2, <1>4
  <2>4. QED
    BY <2>1, <2>2, <2>3, <1>3
<1>8. Drained'
  BY <1>1, <1>2, <1>4 DEF UploadInv, Drained
<1>9. History'
  <2>1. ASSUME NEW o \in Requests PROVE Honest(o)'
    <3>1. Honest(o)
      BY DEF UploadInv, History, Honest
    <3>2. CASE o = r
      BY <3>1, <3>2, <1>2, <1>3 DEF Honest
    <3>3. CASE o # r
      BY <3>1, <3>3, <1>2, <1>3 DEF Honest
    <3>4. QED
      BY <3>2, <3>3
  <2>2. \A p \in scene'.up..(up' - 1) : applied'[p] # None
    BY <1>2 DEF UploadInv, History
  <2>3. QED
    BY <2>1, <2>2 DEF History, Honest
<1>10. QED
  BY <1>5, <1>6, <1>7, <1>8, <1>9 DEF UploadInv

\* With a reader there are no requests, so up moves under nobody.
LEMMA UploadRead ==
  ASSUME UploadInv, NEW q \in Numbers, NEW c \in Cells, Read(q, c)
  PROVE  UploadInv'
<1> USE CarrierAssumption
<1>1. /\ scene \in Scenes /\ scene.posts = {} /\ up \in Numbers /\ scene.up <= up /\ scene.up \in Nat
      /\ applied = [p \in Numbers |-> applied[p]] /\ closed \in BOOLEAN
  BY DEF UploadInv, SessionShapes, Holder, Read, Numbers
<1>2. \A r \in Requests : h[r] = NoHandler
  BY <1>1 DEF UploadInv, Holder, History
<1>3. \A r \in Requests : h[r].pc = "new" /\ h[r].done = "no" /\ h[r].answer = None
  <2>1. NoHandler.pc = "new" /\ NoHandler.done = "no" /\ NoHandler.answer = None
    BY DEF NoHandler
  <2>2. QED
    BY <1>2, <2>1
<1>4. \A p \in Numbers : pending[p] = None
  <2> SUFFICES ASSUME NEW p \in Numbers, pending[p] # None PROVE FALSE
    OBVIOUS
  <2>1. pending[p] \in Requests
    BY DEF UploadInv, UploadShapes
  <2>2. h[pending[p]].pc \in {"drain", "wait", "served", "failed"}
    BY DEF UploadInv, Entries
  <2>3. QED
    BY <2>1, <2>2, <1>3
<1>5. uploadMu = None
  BY <1>3 DEF UploadInv, Holder, UploadShapes
<1>6. UNCHANGED <<scene, uvars>> /\ reader' \in BOOLEAN /\ (reader' => reader)
  BY DEF Read, UploadInv, SessionShapes
<1>7. closed' \in BOOLEAN /\ (closed => closed')
  BY <1>1 DEF Read
<1>8. \/ UNCHANGED <<up, applied>>
      \/ up' = up + 1 /\ up < Limit /\ applied' = [applied EXCEPT ![up] = "reader"]
  BY DEF Read, Apply, Accepts
<1>9. /\ up' \in Numbers /\ scene.up <= up'
      /\ \A p \in scene.up..(up' - 1) : applied'[p] # None
  <2>1. \A p \in scene.up..(up - 1) : applied[p] # None
    BY DEF UploadInv, History
  <2>2. CASE UNCHANGED <<up, applied>>
    BY <2>1, <2>2, <1>1
  <2>3. CASE up' = up + 1 /\ up < Limit /\ applied' = [applied EXCEPT ![up] = "reader"]
    <3>1. applied'[up] = "reader" /\ \A p \in Numbers \ {up} : applied'[p] = applied[p]
      BY <2>3, <1>1
    <3>2. applied'[up] # None
      BY <3>1
    <3>3. up' \in Numbers /\ scene.up <= up'
      BY <2>3, <1>1 DEF Numbers
    <3>4. ASSUME NEW p \in scene.up..(up' - 1) PROVE applied'[p] # None
      <4>1. p = up \/ (p \in scene.up..(up - 1) /\ p \in Numbers \ {up})
        BY <2>3, <1>1 DEF Numbers
      <4>2. QED
        BY <4>1, <2>1, <3>1, <3>2
    <3>5. QED
      BY <3>3, <3>4
  <2>4. QED
    BY <2>2, <2>3, <1>8
<1>10. SessionShapes'
  <2>1. applied' = [p \in Numbers |-> applied'[p]]
    BY <1>1, <1>8
  <2>2. QED
    BY <2>1, <1>1, <1>6, <1>7, <1>9 DEF SessionShapes
<1>11. UploadShapes'
  BY <1>6 DEF UploadInv, UploadShapes, uvars
<1>12. Holder'
  BY <1>5, <1>6 DEF UploadInv, Holder, uvars
<1>13. Entries'
  BY <1>4, <1>6 DEF Entries, uvars
<1>14. Drained'
  BY <1>4, <1>6, <1>9 DEF Drained, uvars
<1>15. History'
  BY <1>2, <1>3, <1>6, <1>9 DEF History, uvars
<1>16. QED
  BY <1>10, <1>11, <1>12, <1>13, <1>14, <1>15 DEF UploadInv

LEMMA UploadNext == ASSUME UploadInv, [Next]_vars PROVE UploadInv'
<1>1. CASE \E r \in Requests : \/ Handler(r) \/ Decline(r) \/ WaitOver(r, TRUE) \/ Cancel(r)
                               \/ \E q \in Numbers : Upload(r, q)
  BY <1>1, UploadAside, UploadEnter, UploadDrain, UploadDrainEnd, UploadLeave DEF Handler
<1>2. CASE \E q \in Numbers, c \in Cells : Read(q, c)
  BY <1>2, UploadRead
<1>3. CASE Open \/ Writer \/ Hangup \/ SessionCloses \/ \E to \in {"none", "hand", "ready"} : PeerWork(to)
  BY <1>3, UploadWriter
<1>4. CASE UNCHANGED vars
  BY <1>4, UploadFrame DEF vars, UploadInv, SessionShapes
<1>5. QED
  BY <1>1, <1>2, <1>3, <1>4 DEF Next

-----------------------------------------------------------------------------
(* The acknowledgements. *)

LEMMA AckFrame ==
  ASSUME AckInv, UNCHANGED <<up, avars, wake, changes, work, wvars>>
  PROVE  AckInv'
BY DEF AckInv, WriterShapes, AcksCumulative, AcksBelow, AcksAwake, LookRace, avars, wvars

\* A cell is applied: its sequence is above everything acknowledged.
LEMMA AckApply ==
  ASSUME AckInv, up \in Numbers, up < Limit, NEW c \in Cells, NEW r, Apply(up, c, r),
         UNCHANGED <<work, wvars>>
  PROVE  AckInv'
<1> USE CarrierAssumption
<1>1. CASE c = "frames"
  <2>1. /\ up' = up + 1 /\ wake' = TRUE /\ ackPending' = TRUE /\ ackSequence' = up /\ changes' = TRUE
    BY <1>1 DEF Apply
  <2>2. WriterShapes' /\ AcksBelow' /\ AcksAwake' /\ LookRace'
    BY <2>1 DEF AckInv, WriterShapes, AcksBelow, AcksAwake, LookRace, wvars, Numbers
  <2>3. AcksCumulative'
    BY <2>1 DEF AckInv, AcksBelow, AcksCumulative, WriterShapes, wvars, Numbers
  <2>4. QED
    BY <2>2, <2>3 DEF AckInv
<1>2. CASE c # "frames"
  <2>1. up' = up + 1 /\ wake' = TRUE /\ UNCHANGED <<ackPending, ackSequence, changes>>
    BY <1>2 DEF Apply, avars
  <2>2. WriterShapes' /\ AcksAwake' /\ LookRace'
    BY <2>1 DEF AckInv, WriterShapes, AcksAwake, LookRace, wvars
  <2>3. AcksCumulative' /\ AcksBelow'
    BY <2>1 DEF AckInv, AcksBelow, AcksCumulative, WriterShapes, wvars, Numbers
  <2>4. QED
    BY <2>2, <2>3 DEF AckInv
<1>3. QED
  BY <1>1, <1>2

\* The writer's steps, and what goes on around it.
LEMMA AckWriter ==
  ASSUME AckInv, up \in Numbers, UNCHANGED up,
         Open \/ Writer \/ Hangup \/ SessionCloses \/ \E to \in {"none", "hand", "ready"} : PeerWork(to)
  PROVE  AckInv'
<1> USE CarrierAssumption
<1> USE DEF AckInv, WriterShapes, AcksCumulative, AcksBelow, AcksAwake, LookRace, avars, wvars
<1>1. CASE Open BY <1>1 DEF Open
<1>2. CASE Look BY <1>2 DEF Look
<1>3. CASE LookAck BY <1>3 DEF LookAck
<1>4. CASE Woken BY <1>4 DEF Woken, Waiting
<1>5. CASE Timer BY <1>5 DEF Timer
<1>6. CASE Stop \/ Exhausted \/ WriteFails BY <1>6 DEF Stop, Exhausted, WriteFails, End
<1>7. CASE Emit
  <2>1. CASE w = "emit" /\ work = "none" /\ ~ackPending
    BY <2>1, <1>7 DEF Emit
  <2>2. CASE w = "emit" /\ work = "hand" /\ ~ackPending
    BY <2>2, <1>7 DEF Emit
  <2>3. CASE ~(w = "emit" /\ work = "none" /\ ~ackPending) /\ ~(w = "emit" /\ work = "hand" /\ ~ackPending)
    <3>1. /\ w' = "write" /\ acked' = IF ackPending THEN ackSequence ELSE acked
          /\ ackPending' = FALSE /\ UNCHANGED <<ackSequence, wake, changes, saw>>
      BY <2>3, <1>7 DEF Emit
    <3>2. QED
      BY <3>1 DEF Numbers
  <2>4. QED
    BY <2>1, <2>2, <2>3
<1>8. CASE Written BY <1>8 DEF Written
<1>9. CASE Hangup \/ SessionCloses BY <1>9 DEF Hangup, SessionCloses
<1>10. CASE \E to \in {"none", "hand", "ready"} : PeerWork(to)
  <2> PICK to \in {"none", "hand", "ready"} : PeerWork(to)
    BY <1>10
  <2>1. work' = to /\ UNCHANGED <<ackPending, ackSequence, wake, down, w, saw, acked>>
    BY DEF PeerWork
  <2>2. changes' \in BOOLEAN /\ (changes => changes') /\ (to = "ready" => changes')
    BY DEF PeerWork
  <2>3. QED
    BY <2>1, <2>2
<1> HIDE DEF AckInv, WriterShapes, AcksCumulative, AcksBelow, AcksAwake, LookRace, avars, wvars
<1>11. QED
  BY <1>1, <1>2, <1>3, <1>4, <1>5, <1>6, <1>7, <1>8, <1>9, <1>10 DEF Writer, WriterRuns

LEMMA AckNext == ASSUME UploadInv, AckInv, [Next]_vars PROVE AckInv'
<1>1. up \in Numbers
  BY DEF UploadInv, SessionShapes
<1>2. CASE \E r \in Requests : \E c \in Cells : Drain(r, c)
  <2> PICK r \in Requests, c \in Cells : Drain(r, c)
    BY <1>2
  <2>1. next = up
    BY CarrierAssumption DEF UploadInv, Holder, Drain, At
  <2>2. CASE UNCHANGED <<up, avars, wake, changes>>
    BY <2>2, AckFrame DEF Drain
  <2>3. CASE \E o : Apply(up, c, o) /\ Accepts(up, c)
    BY <2>3, <1>1, AckApply DEF Drain, Accepts
  <2>4. QED
    BY <2>1, <2>2, <2>3 DEF Drain
<1>3. CASE \E q \in Numbers, c \in Cells : Read(q, c)
  <2> PICK q \in Numbers, c \in Cells : Read(q, c)
    BY <1>3
  <2>1. CASE Accepts(q, c)
    BY <2>1, <1>1, AckApply DEF Read, Accepts
  <2>2. CASE ~Accepts(q, c)
    BY <2>2, AckFrame DEF Read
  <2>3. QED
    BY <2>1, <2>2
<1>4. CASE \E r \in Requests : \/ BodyFails(r) \/ Enter(r) \/ DrainEnd(r) \/ WaitOver(r, FALSE) \/ Leave(r)
                               \/ Answer(r) \/ Decline(r) \/ WaitOver(r, TRUE) \/ Cancel(r)
                               \/ \E q \in Numbers : Upload(r, q)
  <2>1. UNCHANGED <<up, avars, wake, changes, work, wvars>>
    BY <1>4 DEF BodyFails, Enter, DrainEnd, WaitOver, Leave, Answer, Decline, Cancel, Upload, SessionSame
  <2>2. QED
    BY <2>1, AckFrame
<1>5. CASE Open \/ Writer \/ Hangup \/ SessionCloses \/ \E to \in {"none", "hand", "ready"} : PeerWork(to)
  <2>1. UNCHANGED up
    BY <1>5 DEF Open, Writer, WriterRuns, Look, LookAck, Woken, Timer, Stop, Emit, Exhausted, Written, WriteFails,
                Hangup, SessionCloses, PeerWork, End, WriterSame
  <2>2. QED
    BY <2>1, <1>1, <1>5, AckWriter
<1>6. CASE UNCHANGED vars
  BY <1>6, AckFrame DEF vars
<1>7. QED
  BY <1>2, <1>3, <1>4, <1>5, <1>6 DEF Next, Handler

-----------------------------------------------------------------------------
(* The slots. *)

LEMMA SlotsMove ==
  ASSUME UploadInv, Slots, NEW r \in Requests,
         \A o \in Requests \ {r} : Serving(o)' <=> Serving(o),
         \/ (Serving(r)' <=> Serving(r)) /\ h3Active' = h3Active
         \/ ~Serving(r) /\ Serving(r)' /\ h3Active < MaxPending /\ h3Active' = h3Active + 1
         \/ Serving(r) /\ ~Serving(r)' /\ h3Active' = h3Active - 1
  PROVE  Slots'
<1> USE CarrierAssumption
<1> DEFINE S == {o \in Requests : Serving(o)}
           T == {o \in Requests : Serving(o)'}
<1>1. IsFiniteSet(S) /\ Cardinality(S) \in Nat /\ h3Active = Cardinality(S) /\ h3Active <= MaxPending
  BY FS_Subset, FS_CardinalityType DEF Slots
<1>2. CASE (Serving(r)' <=> Serving(r)) /\ h3Active' = h3Active
  <2>1. T = S
    BY <1>2
  <2>2. QED
    BY <2>1, <1>1, <1>2 DEF Slots
<1>3. CASE ~Serving(r) /\ Serving(r)' /\ h3Active < MaxPending /\ h3Active' = h3Active + 1
  <2>1. T = S \cup {r} /\ r \notin S
    BY <1>3
  <2> HIDE DEF S, T
  <2>2. Cardinality(T) = Cardinality(S) + 1
    BY <2>1, <1>1, FS_AddElement
  <2>3. h3Active' = Cardinality(T) /\ h3Active' <= MaxPending
    BY <2>2, <1>1, <1>3
  <2>4. QED
    BY <2>3 DEF Slots, T
<1>4. CASE Serving(r) /\ ~Serving(r)' /\ h3Active' = h3Active - 1
  <2>1. T = S \ {r} /\ r \in S
    BY <1>4
  <2> HIDE DEF S, T
  <2>2. Cardinality(T) = Cardinality(S) - 1
    BY <2>1, <1>1, FS_RemoveElement
  <2>3. h3Active' = Cardinality(T) /\ h3Active' <= MaxPending
    BY <2>2, <1>1, <1>4
  <2>4. QED
    BY <2>3 DEF Slots, T
<1>5. QED
  BY <1>2, <1>3, <1>4

LEMMA SlotsNext == ASSUME UploadInv, Slots, [Next]_vars PROVE Slots'
<1> USE DEF Serving, At, Go
<1>1. h \in [Requests -> Handlers]
  BY DEF UploadInv, UploadShapes
<1>2. ASSUME NEW r \in Requests, \E q \in Numbers : Upload(r, q)
      PROVE  Slots'
  <2>1. /\ h[r].pc = "new"
        /\ \/ \E q \in Numbers : /\ h' = [h EXCEPT ![r] = [@ EXCEPT !.pc = "body", !.seq = q]]
                                 /\ h3Active' = h3Active + 1 /\ h3Active < MaxPending
           \/ h' = [h EXCEPT ![r] = Refused] /\ h3Active' = h3Active
    BY <1>2 DEF Upload
  <2>2. /\ \A o \in Requests \ {r} : h'[o] = h[o]
        /\ \/ h'[r].pc = "body" /\ h3Active' = h3Active + 1 /\ h3Active < MaxPending
           \/ h'[r].pc = "done" /\ h3Active' = h3Active
    BY <1>1, <2>1, Records, ZenonT(60) DEF Handlers
  <2>3. QED
    BY <2>1, <2>2, SlotsMove
<1>3. ASSUME NEW r \in Requests, Decline(r) \/ Answer(r)
      PROVE  Slots'
  <2>1. /\ h[r].pc \in {"body", "ok", "fail"} /\ h3Active' = h3Active - 1
        /\ \E x : h' = [h EXCEPT ![r] = x] /\ x.pc = "done"
    <3>1. CASE Decline(r)
      BY <3>1, Records DEF Decline
    <3>2. CASE Answer(r)
      <4> DEFINE x == [NoHandler EXCEPT !.pc = "done", !.seq = IF At(r, "ok") THEN h[r].seq ELSE 0,
                                        !.answer = IF At(r, "ok") THEN "204" ELSE "error"]
      <4>1. x.pc = "done"
        BY Records DEF Handlers
      <4>2. h[r].pc \in {"ok", "fail"} /\ h3Active' = h3Active - 1 /\ h' = [h EXCEPT ![r] = x]
        BY <3>2 DEF Answer
      <4> HIDE DEF x
      <4>3. QED
        BY <4>1, <4>2
    <3>3. QED
      BY <1>3, <3>1, <3>2
  <2>2. (\A o \in Requests \ {r} : h'[o] = h[o]) /\ h'[r].pc = "done"
    BY <1>1, <2>1
  <2>3. QED
    BY <2>1, <2>2, SlotsMove
<1>4. ASSUME NEW r \in Requests,
             BodyFails(r) \/ Enter(r) \/ DrainEnd(r) \/ WaitOver(r, FALSE) \/ WaitOver(r, TRUE) \/ Leave(r)
      PROVE  Slots'
  <2>1. /\ h[r].pc \in Pcs \ {"new", "done"} /\ h3Active' = h3Active
        /\ \E p \in Pcs \ {"new", "done"} : h' = [h EXCEPT ![r].pc = p]
    BY <1>4 DEF BodyFails, Enter, DrainEnd, WaitOver, Leave, Pcs
  <2>2. (\A o \in Requests \ {r} : h'[o] = h[o]) /\ h'[r].pc \in Pcs \ {"new", "done"}
    BY <1>1, <2>1 DEF Handlers
  <2>3. QED
    BY <2>1, <2>2, SlotsMove
<1>5. ASSUME NEW r \in Requests, Cancel(r)
      PROVE  Slots'
  <2>1. (\A o \in Requests \ {r} : h'[o] = h[o]) /\ h'[r].pc = h[r].pc /\ h3Active' = h3Active
    BY <1>1, <1>5 DEF Cancel, Handlers
  <2>2. QED
    BY <2>1, SlotsMove
<1>6. ASSUME NEW r \in Requests, NEW c \in Cells, Drain(r, c)
      PROVE  Slots'
  <2> DEFINE o == pending[next]
  <2>1. PICK d \in {"ok", "failed"}, p \in {"drain", "wait"} :
           h' = [h EXCEPT ![o].done = d, ![r].pc = p]
    BY <1>6 DEF Drain
  <2>2. h[r].pc = "drain" /\ h3Active' = h3Active
    BY <1>6 DEF Drain
  <2>3. (\A x \in Requests \ {r} : h'[x].pc = h[x].pc) /\ h'[r].pc = p
    BY <1>1, <2>1 DEF Handlers
  <2>4. QED
    BY <2>2, <2>3, SlotsMove
<1>7. CASE UNCHANGED <<h, h3Active>>
  BY <1>7 DEF Slots
<1>8. ASSUME (\E q \in Numbers, c \in Cells : Read(q, c)) \/ UNCHANGED vars
      PROVE  UNCHANGED <<h, h3Active>>
  BY <1>8 DEF Read, uvars, vars
<1>9. ASSUME Open \/ Writer \/ Hangup \/ SessionCloses \/ \E to \in {"none", "hand", "ready"} : PeerWork(to)
      PROVE  UNCHANGED <<h, h3Active>>
  BY <1>9 DEF Open, Writer, WriterRuns, Look, LookAck, Woken, Timer, Stop, Emit, Exhausted, Written, WriteFails,
              Hangup, SessionCloses, PeerWork, End, WriterSame, uvars
<1> HIDE DEF Serving, At, Go
<1>10. QED
  BY <1>2, <1>3, <1>4, <1>5, <1>6, <1>7, <1>8, <1>9 DEF Next, Handler

-----------------------------------------------------------------------------
(* The theorems. *)

LEMMA InvNext == ASSUME Inv, [Next]_vars PROVE Inv'
BY UploadNext, AckNext, SlotsNext DEF Inv

\* Every reachable state of the carrier satisfies the invariant.
THEOREM Invariance == Spec => []Inv
BY InvInit, InvNext, PTL DEF Spec

\* pendingUploads holds cells of requests that are being served, each under
\* its own sequence and inside the pipeline, no more than MaxPending requests
\* are served at a time, and a released uploadMu leaves no applicable cell
\* behind (orderedUpload and the admission of h3Upload).
THEOREM PendingIsExact == Spec => []PendingExact
<1>1. Inv => PendingExact
  BY DEF Inv, UploadInv, Entries, Drained, Slots, PendingExact
<1>2. QED
  BY <1>1, Invariance, PTL

\* A 204 is only for a cell that was applied after all before it, and every
\* failed upload ends the carrier (h3Upload's answers).
THEOREM AnswerIsExact == Spec => []AnswerExact
<1>1. Inv => AnswerExact
  <2> SUFFICES ASSUME Inv, NEW r \in Requests
               PROVE  /\ h[r].answer = "204" =>
                           applied[h[r].seq] = r /\ \A q \in scene.up..h[r].seq : q < up /\ applied[q] # None
                      /\ h[r].answer = "error" => closed
    BY DEF AnswerExact
  <2>1. h[r].seq \in Numbers /\ up \in Numbers /\ scene.up \in Nat
    BY CarrierAssumption DEF Inv, UploadInv, UploadShapes, SessionShapes, Handlers, Numbers
  <2>2. h[r].answer = "204" => h[r].seq < up /\ applied[h[r].seq] = r
    BY DEF Inv, UploadInv, History
  <2>3. \A q \in scene.up..(up - 1) : applied[q] # None
    BY DEF Inv, UploadInv, History
  <2>4. h[r].answer = "error" => closed
    BY DEF Inv, UploadInv, History
  <2>5. QED
    BY <2>1, <2>2, <2>3, <2>4 DEF Numbers
<1>2. QED
  BY <1>1, Invariance, PTL

\* The acknowledgement to come is above the last one sent and below up, none
\* is dropped, and writeCells does not sleep on one (receiveRealtime's
\* ackPending against writeCells).
THEOREM AckIsExact == Spec => []AckExact
<1>1. Inv => AckExact
  BY DEF Inv, AckInv, AckExact
<1>2. QED
  BY <1>1, Invariance, PTL

=============================================================================
