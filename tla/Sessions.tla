------------------------------ MODULE Sessions ------------------------------
(***************************************************************************)
(* The session tables of the transport: visitor sessions (transport.go,    *)
(* getSession, expire, Cleanup) and packet sessions from their two setup   *)
(* POSTs to their end (packet.go, beginPacket, reservePacketSession,       *)
(* authenticatePacket, runPacket, prepareBegin, prepareAuth, close).       *)
(*                                                                         *)
(* Two mutexes are state, because they are held across steps that others   *)
(* can observe: packetMu, then Transport.mu (tMu).  A session's own mutex  *)
(* guards single steps.  Time is a choice made where the code compares it: *)
(* any pass of the expiry may find a packet session too old (30 s before   *)
(* AUTH, 90 s idle after it) or a visitor past its two minutes.  Tokens    *)
(* are random in the code and never reused here; Visitors and Packets      *)
(* bound how many are ever made.                                           *)
(***************************************************************************)
EXTENDS Naturals, FiniteSets

CONSTANTS
  Visitors,        \* cookies of visitor sessions, numbered
  Packets,         \* IDs of packet sessions, numbered
  Requests,        \* HTTP handlers that run at once
  Nonces,          \* client nonces of POST /api/packet
  Hellos,          \* digests of its body
  Finishes,        \* digests of the body, cursor and tag of .../auth
  Valid,           \* the Finishes that verify and authenticate
  MaxPackets,      \* maxPacketSessions
  MaxProvisional,  \* maxPacketProvisional
  Admission,       \* capacity of packetAdmission
  ActiveLimit,     \* active handlers of one packet session
  Scenes,          \* the histories to look at: see scene
  None

ASSUME SessionsAssumption ==
  /\ \A c \in Scenes : c.max \in Nat \ {0} /\ c.visitors \subseteq Visitors /\ c.packets \subseteq Packets
  /\ Visitors \subseteq Nat /\ Packets \subseteq Nat
  /\ IsFiniteSet(Visitors) /\ IsFiniteSet(Packets) /\ IsFiniteSet(Requests)
  /\ MaxPackets \in Nat /\ MaxProvisional \in Nat
  /\ Admission \in Nat /\ ActiveLimit \in Nat
  /\ Valid \subseteq Finishes
  /\ None \notin {"tick", "cleanup"} \cup Requests /\ None \notin Visitors \cup Packets
  /\ None \notin Nonces \cup Hellos \cup Finishes
  /\ {"tick", "cleanup"} \cap Requests = {}

VARIABLES
  scene,        \* max_sessions, what is asked for and how many sessions are made in this history
  sessions,     \* t.sessions
  older,        \* the order of session.last: <<v, w>> when v's is the older one
  visitor,      \* each visitor session: "unborn", "anonymous", "authed" or "closed"
  packets,      \* t.packets
  nonces,       \* t.packetNonces
  packetCount,  \* t.packetCount, under tMu
  ps,           \* the packet sessions, in the tables or not
  packetMu, tMu, stop,
  pc, arg,      \* where each handler, the expiry ticker and Cleanup are
  sweep         \* the pass of packetMu's holder: what is left, the one being closed
vars == <<scene, sessions, older, visitor, packets, nonces, packetCount, ps,
          packetMu, tMu, stop, pc, arg, sweep>>
vvars == <<scene, sessions, older, visitor>>
pvars == <<packets, nonces, packetCount, ps>>

Procs == Requests \cup {"tick", "cleanup"}
NoSweep == [todo |-> {}, p |-> None]
NoArg == [v |-> None, p |-> None, nonce |-> None, body |-> None]

Unborn == [nonce |-> None, body |-> None, run |-> "unborn", closed |-> FALSE, closing |-> FALSE,
           authed |-> FALSE, state |-> "none", begin |-> "none",
           beginReply |-> FALSE, finish |-> None, put |-> FALSE, auth |-> "none", authReply |-> FALSE]

Init ==
  /\ scene \in Scenes
  /\ sessions = {} /\ older = {} /\ visitor = [v \in Visitors |-> "unborn"]
  /\ packets = {} /\ nonces = [n \in Nonces |-> None] /\ packetCount = 0
  /\ ps = [p \in Packets |-> Unborn]
  /\ packetMu = None /\ tMu = None /\ stop = FALSE
  /\ pc = [x \in Procs |-> "idle"] /\ arg = [r \in Requests |-> NoArg]
  /\ sweep = NoSweep

\* A new random token: the tokens are interchangeable, and their order of use
\* is fixed.
Fresh(unborn) == {t \in unborn : \A u \in unborn : t <= u}
NewVisitor == Fresh({v \in scene.visitors : visitor[v] = "unborn"})
NewPacket == Fresh({p \in scene.packets : ps[p] = Unborn})

\* Process x goes from one place of its code to another.
Go(x, from, to) == pc[x] = from /\ pc' = [pc EXCEPT ![x] = to]

\* Handler r goes on to a place with arguments a, or ends: an answer that no
\* property looks at frees the handler at once.
Goto(r, from, to, a) ==
  /\ Go(r, from, to)
  /\ arg' = [arg EXCEPT ![r] = IF to = "idle" THEN NoArg ELSE a]

----------------------------------------------------------------------------
(* Visitor sessions.                                                       *)

Full == Cardinality(sessions) + packetCount >= scene.max
Anonymous == {v \in sessions : visitor[v] = "anonymous"}
Oldest == {v \in Anonymous : \A w \in Anonymous : <<w, v>> \notin older}

\* What older says of the sessions outside S.
Without(S) == {e \in older : e[1] \notin S /\ e[2] \notin S}

\* Sessions S leave the table, closed.
CloseVisitors(S) ==
  /\ sessions' = sessions \ S /\ older' = Without(S)
  /\ visitor' = [v \in Visitors |-> IF v \in S THEN "closed" ELSE visitor[v]]

\* Session v, new or found by its cookie, has the latest session.last.
Renew(v) ==
  /\ sessions' = sessions \cup {v}
  /\ older' = Without({v}) \cup {<<w, v>> : w \in sessions \ {v}}

\* getSession for a page visit without a known cookie.  With room a session
\* is made; else the oldest unauthenticated one is chosen, with every
\* session's mutex given up again but tMu held.
Admit(r, from) ==
  \/ /\ ~Full /\ Goto(r, from, "idle", NoArg) /\ tMu' = None
     /\ \E v \in NewVisitor :
          Renew(v) /\ visitor' = [visitor EXCEPT ![v] = "anonymous"]
     /\ UNCHANGED <<scene, pvars, packetMu, stop, sweep>>
  \/ /\ Full /\ tMu' = r
     /\ \E v \in Oldest : Goto(r, from, "visitDrop", [NoArg EXCEPT !.v = v])
     /\ UNCHANGED <<vvars, pvars, packetMu, stop, sweep>>
  \/ /\ Full /\ Anonymous = {}
     /\ Goto(r, from, "idle", NoArg) /\ tMu' = None
     /\ UNCHANGED <<vvars, pvars, packetMu, stop, sweep>>

Visit(r) == "visit" \in scene.ask /\ ~stop /\ tMu = None /\ NewVisitor # {} /\ Admit(r, "idle")
VisitRoom(r) == Admit(r, "visitRoom")

\* Defective variant of VisitDrop: evicts without looking at authed again.
VisitDropBlind(r) ==
  /\ Goto(r, "visitDrop", "visitRoom", NoArg)
  /\ CloseVisitors({arg[r].v})
  /\ UNCHANGED <<scene, pvars, packetMu, tMu, stop, sweep>>

\* The choice is evicted unless its AUTH came in between.
VisitDrop(r) ==
  /\ Goto(r, "visitDrop", "visitRoom", NoArg)
  /\ CloseVisitors({v \in {arg[r].v} : visitor[v] # "authed"})
  /\ UNCHANGED <<scene, pvars, packetMu, tMu, stop, sweep>>

\* A startup request finds its session by the cookie, which renews it ...
Lookup(r) ==
  \E v \in sessions :
    /\ "startup" \in scene.ask /\ ~stop /\ tMu = None
    /\ Goto(r, "idle", "commit", [NoArg EXCEPT !.v = v])
    /\ Renew(v)
    /\ UNCHANGED <<scene, visitor, pvars, packetMu, tMu, stop, sweep>>

\* ... and commits AUTH under session.mu alone, unless the session was
\* closed or is authenticated already.
Commit(r) ==
  /\ Goto(r, "commit", "idle", NoArg)
  /\ visitor' = [visitor EXCEPT ![arg[r].v] = IF @ = "anonymous" THEN "authed" ELSE @]
  /\ UNCHANGED <<scene, sessions, older, pvars, packetMu, tMu, stop, sweep>>

----------------------------------------------------------------------------
(* The end of a packet session: packetSession.close.                       *)

\* closed is set and the replies go under p.mu; cancel and raw.Close follow.
\* A published state is closed later, after its statistics under tMu.
Closed(q) ==
  IF q.closed THEN q
  ELSE [q EXCEPT !.closed = TRUE, !.beginReply = FALSE, !.authReply = FALSE,
                 !.closing = (q.state = "open")]

\* The same with the state closed at once, for a closer that holds packetMu.
Ended(q) == [Closed(q) EXCEPT !.closing = FALSE, !.state = IF @ = "open" THEN "closed" ELSE @]

\* The closer takes tMu for the statistics and closes the state.
StateClose(p) ==
  /\ ps[p].closing /\ tMu = None
  /\ ps' = [ps EXCEPT ![p].closing = FALSE, ![p].state = "closed"]
  /\ UNCHANGED <<vvars, packets, nonces, packetCount, packetMu, tMu, stop, pc, arg, sweep>>

\* expirePackets and closePackets: one pass over t.packets under packetMu,
\* made by the ticker, by a beginPacket handler and by Cleanup.
Sweep(x, from) ==
  /\ packetMu = None /\ packetMu' = x
  /\ Go(x, from, "sweep")
  /\ sweep' = [NoSweep EXCEPT !.todo = packets]

\* Whether a session is expired is read under its mutex, before the close: a
\* closed one is, any other one may be (30 s without AUTH, 90 s without
\* progress), and Cleanup takes them all.
SweepLook(x) ==
  \E p \in sweep.todo :
    /\ \/ Go(x, "sweep", "sweepDrop") /\ sweep' = [todo |-> sweep.todo \ {p}, p |-> p]
       \/ /\ x # "cleanup" /\ ~ps[p].closed
          /\ Go(x, "sweep", "sweep") /\ sweep' = [sweep EXCEPT !.todo = @ \ {p}]
    /\ UNCHANGED <<vvars, pvars, packetMu, tMu, stop, arg>>

\* The session is closed, its entries go and the reservation is returned
\* under tMu.
SweepDrop(x) ==
  LET p == sweep.p IN
  /\ tMu = None /\ Go(x, "sweepDrop", "sweep")
  /\ ps' = [ps EXCEPT ![p] = IF @.closed THEN @ ELSE Ended(@)]
  /\ packets' = packets \ {p} /\ packetCount' = packetCount - 1
  /\ nonces' = [nonces EXCEPT ![ps[p].nonce] = None]
  /\ sweep' = [sweep EXCEPT !.p = None]
  /\ UNCHANGED <<vvars, packetMu, tMu, stop, arg>>

SweepEnd(x) ==
  /\ sweep.todo = {}
  /\ Go(x, "sweep", CASE x = "tick" -> "visitors" [] x = "cleanup" -> "sessions" [] OTHER -> "find")
  /\ packetMu' = None
  /\ UNCHANGED <<vvars, pvars, tMu, stop, arg, sweep>>

----------------------------------------------------------------------------
(* Setup of a packet session.                                              *)

\* servePacket admits a limited number of handlers, whatever they ask for.
PacketPlaces == {"sweep", "sweepDrop", "find", "drop", "room", "beginWait",
                 "start", "put", "authWait"}
Admitted == Cardinality({r \in Requests : pc[r] \in PacketPlaces}) < Admission
Active(p) == Cardinality({r \in Requests : pc[r] \in {"start", "put", "authWait"} /\ arg[r].p = p})

\* POST /api/packet with a nonce, a body and perhaps a visitor's cookie:
\* expirePackets runs first.
Begin(r) ==
  \E n \in Nonces, b \in Hellos, v \in sessions \cup {None} :
    /\ "begin" \in scene.ask /\ Admitted /\ Sweep(r, "idle")
    /\ arg' = [arg EXCEPT ![r] = [NoArg EXCEPT !.nonce = n, !.body = b, !.v = v]]
    /\ UNCHANGED <<vvars, pvars, tMu, stop>>

Provisional == {p \in packets : ~ps[p].authed}
Min2(a, b) == IF a < b THEN a ELSE b
PacketRoom == Cardinality(packets) < Min2(scene.max, MaxPackets)
              /\ Cardinality(Provisional) < MaxProvisional
              /\ NewPacket # {}

\* A retry is good only with the same body.
Retry(r) ==
  LET q == nonces[arg[r].nonce] IN
  /\ Goto(r, "find", IF ps[q].body = arg[r].body THEN "beginWait" ELSE "idle", [arg[r] EXCEPT !.p = q])
  /\ UNCHANGED <<vvars, pvars, packetMu, tMu, stop, sweep>>

\* reservePacketSession: under tMu, the request's own visitor gives its slot
\* if it is not authenticated ...
Reserve(r) ==
  LET own == arg[r].v \in Anonymous IN
  /\ packetMu' = r /\ tMu = None /\ tMu' = r
  /\ Goto(r, "find", IF own THEN "drop" ELSE "room", [arg[r] EXCEPT !.v = IF own THEN @ ELSE None])
  /\ UNCHANGED <<vvars, pvars, stop, sweep>>

\* Defective variant of Find: shutdown is not looked at.
FindOpen(r) ==
  /\ pc[r] = "find" /\ packetMu = None
  /\ IF nonces[arg[r].nonce] = None THEN PacketRoom /\ Reserve(r) ELSE Retry(r)

\* The nonce is looked up under packetMu.  A known one is a retry; a new one
\* needs room and keeps the mutex.
Find(r) ==
  LET q == nonces[arg[r].nonce] IN
  /\ pc[r] = "find" /\ packetMu = None
  /\ \/ ~stop /\ q = None /\ PacketRoom /\ Reserve(r)
     \/ ~stop /\ q # None /\ Retry(r)
     \/ /\ stop \/ (q = None /\ ~PacketRoom)
        /\ Goto(r, "find", "idle", NoArg)
        /\ UNCHANGED <<vvars, pvars, packetMu, tMu, stop, sweep>>

\* The visitor is closed once its mutex was given up: authed is not read again.
Drop(r) ==
  /\ Goto(r, "drop", "room", [arg[r] EXCEPT !.v = None])
  /\ CloseVisitors({arg[r].v})
  /\ UNCHANGED <<scene, pvars, packetMu, tMu, stop, sweep>>

\* The slot is counted; the session enters both tables with its first
\* block, and runPacket and prepareBegin start.
Create(r) ==
  /\ packetCount' = packetCount + 1 /\ tMu' = None /\ packetMu' = None
  /\ \E p \in NewPacket :
       /\ ps' = [ps EXCEPT ![p] = [Unborn EXCEPT !.nonce = arg[r].nonce, !.body = arg[r].body,
                                                 !.run = "first", !.begin = "flight"]]
       /\ packets' = packets \cup {p}
       /\ nonces' = [nonces EXCEPT ![arg[r].nonce] = p]
       /\ Goto(r, "room", "beginWait", [arg[r] EXCEPT !.p = p])
  /\ UNCHANGED <<vvars, stop, sweep>>

\* Defective variant of Room: the slots of visitors are not counted.
RoomPacketsOnly(r) == packetCount < scene.max /\ Create(r)

\* At the limit the oldest unauthenticated visitor is chosen; with none
\* left the request is refused.
Room(r) ==
  \/ ~Full /\ Create(r)
  \/ /\ Full
     /\ \E v \in Oldest : Goto(r, "room", "drop", [arg[r] EXCEPT !.v = v])
     /\ UNCHANGED <<vvars, pvars, packetMu, tMu, stop, sweep>>
  \/ /\ Full /\ Anonymous = {}
     /\ Goto(r, "room", "idle", NoArg) /\ tMu' = None /\ packetMu' = None
     /\ UNCHANGED <<vvars, pvars, stop, sweep>>

\* The handler waits for beginDone or the session's context; select takes
\* either when both are ready.
BeginWait(r) ==
  LET q == ps[arg[r].p] IN
  /\ pc[r] = "beginWait"
  /\ q.begin = "done" \/ q.closed
  /\ Goto(r, "beginWait", "idle", NoArg)
  /\ UNCHANGED <<vvars, pvars, packetMu, tMu, stop, sweep>>

\* POST /api/packet/{id}/auth: servePacket finds the session, if it still is
\* in the table and has a free handler.
Auth(r) ==
  \E p \in packets, b \in Finishes :
    /\ "auth" \in scene.ask /\ Admitted /\ packetMu = None /\ ~ps[p].closed /\ Active(p) < ActiveLimit
    /\ Goto(r, "idle", "start", [NoArg EXCEPT !.p = p, !.body = b])
    /\ UNCHANGED <<vvars, pvars, packetMu, tMu, stop, sweep>>

\* Defective variant of Start: a second AUTH need not repeat the first.
StartAny(r) ==
  LET p == arg[r].p IN
  /\ Goto(r, "start", IF ~ps[p].beginReply THEN "idle"
                      ELSE IF ps[p].finish = None THEN "put" ELSE "authWait", arg[r])
  /\ ps' = [ps EXCEPT ![p].finish = IF ps[p].beginReply /\ @ = None THEN arg[r].body ELSE @]
  /\ UNCHANGED <<vvars, packets, nonces, packetCount, packetMu, tMu, stop, sweep>>

\* The first AUTH is noted under p.mu; another one must be its exact retry.
Start(r) ==
  LET p == arg[r].p
      first == ps[p].beginReply /\ ps[p].finish = None
      retry == ps[p].beginReply /\ ps[p].finish = arg[r].body
  IN
  /\ Goto(r, "start", IF first THEN "put" ELSE IF retry THEN "authWait" ELSE "idle", arg[r])
  /\ ps' = [ps EXCEPT ![p].finish = IF first THEN arg[r].body ELSE @]
  /\ UNCHANGED <<vvars, packets, nonces, packetCount, packetMu, tMu, stop, sweep>>

\* Its body is put into the connection, which may have been closed, and
\* prepareAuth starts.
PutFinish(r) ==
  LET p == arg[r].p IN
  /\ Goto(r, "put", IF ps[p].closed THEN "idle" ELSE "authWait", arg[r])
  /\ ps' = [ps EXCEPT ![p] = IF @.closed THEN @ ELSE [@ EXCEPT !.put = TRUE, !.auth = "flight"]]
  /\ UNCHANGED <<vvars, packets, nonces, packetCount, packetMu, tMu, stop, sweep>>

AuthWait(r) ==
  LET q == ps[arg[r].p] IN
  /\ pc[r] = "authWait"
  /\ q.auth = "done" \/ q.closed
  /\ Goto(r, "authWait", "idle", NoArg)
  /\ UNCHANGED <<vvars, pvars, packetMu, tMu, stop, sweep>>

\* The client goes away while its request waits.
Abandon(r) ==
  /\ \E place \in {"beginWait", "authWait"} : Goto(r, place, "idle", NoArg)
  /\ UNCHANGED <<vvars, pvars, packetMu, tMu, stop, sweep>>

----------------------------------------------------------------------------
(* The goroutines of a packet session.  The connection and TLS are         *)
(* external: a flight is there once runPacket wrote it, and any call on a  *)
(* closed connection fails.                                                *)

PacketStep(p, q) ==
  /\ ps' = [ps EXCEPT ![p] = q]
  /\ UNCHANGED <<vvars, packets, nonces, packetCount, packetMu, tMu, stop, pc, arg, sweep>>

\* runPacket: the handshake writes the server's flight ...
RunFirst(p) ==
  /\ ps[p].run = "first" /\ ~ps[p].closed
  /\ PacketStep(p, [ps[p] EXCEPT !.run = "read"])

\* ... the client's Finished and AUTH cell arrive and are verified ...
RunRead(p) ==
  /\ ps[p].run = "read" /\ ps[p].put /\ ~ps[p].closed
  /\ PacketStep(p, IF ps[p].finish \in Valid THEN [ps[p] EXCEPT !.run = "commit"]
                                             ELSE [Closed(ps[p]) EXCEPT !.run = "over"])

\* Defective variant of RunCommit: publishes the state in a closed session.
RunCommitLate(p) ==
  /\ ps[p].run = "commit"
  /\ PacketStep(p, [ps[p] EXCEPT !.run = "reply", !.authed = TRUE, !.state = "open"])

\* ... the new state is published under p.mu, or closed when p already is ...
RunCommit(p) ==
  /\ ps[p].run = "commit"
  /\ PacketStep(p, IF ps[p].closed THEN [ps[p] EXCEPT !.run = "over"]
                   ELSE [ps[p] EXCEPT !.run = "reply", !.authed = TRUE, !.state = "open"])

\* ... and HELLO is written; from then on cells are received.
RunReply(p) ==
  /\ ps[p].run = "reply" /\ ~ps[p].closed
  /\ PacketStep(p, [ps[p] EXCEPT !.run = "serve"])

\* A handshake, read or write fails, at the latest when the connection is
\* closed or its deadline passes: runPacket's deferred close.
RunFails(p) ==
  /\ ps[p].run \in {"first", "read", "reply", "serve"}
  /\ PacketStep(p, [Closed(ps[p]) EXCEPT !.run = "over"])

\* prepareBegin: Flight returns what the handshake wrote, and the reply is
\* kept under p.mu, whether or not the session was closed meanwhile.
BeginFlight(p) ==
  /\ ps[p].begin = "flight" /\ ps[p].run # "first" /\ ~ps[p].closed
  /\ PacketStep(p, [ps[p] EXCEPT !.begin = "store"])

BeginStore(p) ==
  /\ ps[p].begin = "store"
  /\ PacketStep(p, [ps[p] EXCEPT !.begin = "done", !.beginReply = TRUE])

BeginFails(p) ==
  /\ ps[p].begin = "flight"
  /\ PacketStep(p, [Closed(ps[p]) EXCEPT !.begin = "done"])

\* prepareAuth: the same for HELLO, if the session was authenticated.
AuthFlight(p) ==
  /\ ps[p].auth = "flight" /\ ps[p].run = "serve" /\ ~ps[p].closed
  /\ PacketStep(p, [ps[p] EXCEPT !.auth = "store"])

AuthStore(p) ==
  /\ ps[p].auth = "store"
  /\ PacketStep(p, IF ps[p].authed THEN [ps[p] EXCEPT !.auth = "done", !.authReply = TRUE]
                                   ELSE [Closed(ps[p]) EXCEPT !.auth = "done"])

AuthFails(p) ==
  /\ ps[p].auth = "flight"
  /\ PacketStep(p, [Closed(ps[p]) EXCEPT !.auth = "done"])

\* uploadPacket, downloadPacket and the cell writer: an impossible cursor, a
\* conflicting block or a write that fails closes the session.
HandlerCloses(p) ==
  /\ ps[p].authed /\ ~ps[p].closed
  /\ PacketStep(p, Closed(ps[p]))

----------------------------------------------------------------------------
(* Expiry and shutdown.                                                    *)

\* The ticker of Provision: expire sweeps the packet sessions ...
Tick ==
  /\ ~stop /\ Sweep("tick", "idle")
  /\ UNCHANGED <<vvars, pvars, tMu, stop, arg>>

\* ... and then drops, under tMu, the visitors whose time is over.
ExpireVisitors ==
  /\ tMu = None /\ Go("tick", "visitors", "idle")
  /\ \E S \in SUBSET sessions : CloseVisitors(S)
  /\ UNCHANGED <<scene, pvars, packetMu, tMu, stop, arg, sweep>>

\* Cleanup: stop is closed, the ticker is waited for, the packet sessions
\* are swept and the visitors closed.
Cleanup ==
  /\ "cleanup" \in scene.ask /\ Go("cleanup", "idle", "join") /\ stop' = TRUE
  /\ UNCHANGED <<vvars, pvars, packetMu, tMu, arg, sweep>>

CleanupJoin ==
  /\ pc["tick"] = "idle" /\ Sweep("cleanup", "join")
  /\ UNCHANGED <<vvars, pvars, tMu, stop, arg>>

CleanupSessions ==
  /\ tMu = None /\ Go("cleanup", "sessions", "done")
  /\ CloseVisitors(sessions)
  /\ UNCHANGED <<scene, pvars, packetMu, tMu, stop, arg, sweep>>

----------------------------------------------------------------------------
Handler(r) ==
  \/ VisitRoom(r) \/ VisitDrop(r) \/ Commit(r)
  \/ Find(r) \/ Drop(r) \/ Room(r) \/ BeginWait(r)
  \/ Start(r) \/ PutFinish(r) \/ AuthWait(r)

Sweeper(x) == SweepLook(x) \/ SweepDrop(x) \/ SweepEnd(x)

Request(r) == Visit(r) \/ Lookup(r) \/ Begin(r) \/ Auth(r) \/ Abandon(r)

Goroutine(p) ==
  \/ RunRead(p) \/ RunCommit(p) \/ RunReply(p) \/ StateClose(p)
  \/ BeginFlight(p) \/ BeginStore(p) \/ AuthFlight(p) \/ AuthStore(p)
  \/ BeginFails(p) \/ AuthFails(p)

Shutdown == CleanupJoin \/ CleanupSessions

Next ==
  \/ \E r \in Requests : Handler(r) \/ Request(r)
  \/ \E x \in Procs : Sweeper(x)
  \/ \E p \in Packets : Goroutine(p) \/ RunFirst(p) \/ RunFails(p) \/ HandlerCloses(p)
  \/ Tick \/ ExpireVisitors \/ Cleanup \/ Shutdown

Spec == Init /\ [][Next]_vars

----------------------------------------------------------------------------
(* Properties.                                                             *)

\* Reservations are exact (transport.go:289, packet.go:285, 353): visitor and
\* packet sessions together never pass max_sessions, packet sessions and the
\* provisional ones keep their own limits, the count under Transport.mu is the
\* size of the table under packetMu whenever nobody is between the two, and a
\* nonce names a session exactly as long as it is in the table.
ReservationsExact ==
  /\ Cardinality(sessions) + packetCount <= scene.max
  /\ Cardinality(packets) <= Min2(scene.max, MaxPackets)
  /\ Cardinality(Provisional) <= MaxProvisional
  /\ packetMu = None => packetCount = Cardinality(packets)
  /\ \A p \in packets : nonces[ps[p].nonce] = p
  /\ \A n \in Nonces : nonces[n] # None => nonces[n] \in packets

\* Retries agree (packet.go:317, 431): a setup POST answered 200 carried the
\* very body its session was made or authenticated with, however many
\* requests raced, and an AUTH is answered 200 only for a session whose
\* credentials were verified.
RetriesAgree ==
  \A r \in Requests :
    LET a == arg[r]
        q == ps[a.p]
    IN /\ pc[r] = "beginWait" /\ q.begin = "done" /\ q.beginReply =>
            q.nonce = a.nonce /\ q.body = a.body
       /\ pc[r] = "authWait" /\ q.auth = "done" /\ q.authReply =>
            q.authed /\ q.finish = a.body /\ q.finish \in Valid

Spared(place) ==
  \A r \in Requests, v \in sessions :
    pc[r] = place /\ pc'[r] # place /\ visitor[v] = "authed" => v \in sessions'

\* A page visit at the limit never evicts a session whose AUTH was committed
\* while the visitor was looking for the oldest one (transport.go:304-310).
VisitsSpareAuthenticated == [][Spared("visitDrop")]_vars

\* What docs/PROTOCOL.md says of the limit: "authenticated sessions are never
\* evicted", by page visits or by packet setup.
AuthenticatedNeverEvicted == [][Spared("visitDrop") /\ Spared("drop")]_vars

\* Shutdown is final (transport.go:203-221): once Cleanup has returned, no
\* handler that was still under way has put a session into a table, kept a
\* reservation or left one open.
ShutdownFinal ==
  pc["cleanup"] = "done" =>
    /\ sessions = {} /\ packets = {} /\ packetCount = 0
    /\ \A p \in Packets : ps[p].run # "unborn" => ps[p].closed

\* The steps that come of themselves, without a client, a timer of the
\* expiry or an operator: code that runs, and calls that fail because the
\* connection is closed or the 30 s of the setup are over.
System ==
  \/ \E r \in Requests : Handler(r)
  \/ \E x \in Procs : Sweeper(x)
  \/ \E p \in Packets : Goroutine(p) \/ ((ps[p].closed \/ ~ps[p].authed) /\ RunFails(p))
  \/ ExpireVisitors \/ Shutdown

\* Nothing hangs and nothing leaks (packet.go:68-92, 321, 450, 566).  Every
\* step of System brings its process closer to its end, so the system can
\* stop only where none is possible; there, every request has been answered,
\* no mutex is held, Cleanup has returned if it was called, and of a closed
\* packet session all three goroutines have ended and the multiplexer is
\* closed, whoever closed it and when.
Settled ==
  ~ENABLED System =>
    /\ \A r \in Requests : pc[r] = "idle"
    /\ packetMu = None /\ tMu = None /\ pc["tick"] = "idle" /\ pc["cleanup"] \in {"idle", "done"}
    /\ \A p \in Packets : ps[p].closed =>
         /\ ps[p].run = "over" /\ ps[p].begin = "done" /\ ps[p].auth \in {"none", "done"}
         /\ ps[p].state # "open"
=============================================================================
