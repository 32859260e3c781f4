--------------------------- MODULE SessionsProofs ---------------------------
(***************************************************************************)
(* Proofs about Sessions: the reservations are exact, retries agree,       *)
(* visits spare authenticated sessions and shutdown is final, for any      *)
(* number of handlers, cookies, packet sessions and nonces, any limits and *)
(* any scene.                                                              *)
(*                                                                         *)
(* The invariant joins what the tables hold to where the holders of the    *)
(* two mutexes are: a check made under packetMu stays true until the       *)
(* session it was made for is in the tables.                               *)
(***************************************************************************)
EXTENDS Sessions, FiniteSetTheorems, TLAPS

Places == {"idle", "visitDrop", "visitRoom", "commit", "visitors", "join", "sessions", "done"}
            \cup PacketPlaces

Args == [v : Visitors \cup {None}, p : Packets \cup {None},
         nonce : Nonces \cup {None}, body : Hellos \cup Finishes \cup {None}]

PacketStates ==
  [nonce : Nonces \cup {None}, body : Hellos \cup {None},
   run : {"unborn", "first", "read", "commit", "reply", "serve", "over"},
   closed : BOOLEAN, closing : BOOLEAN, authed : BOOLEAN,
   state : {"none", "open", "closed"}, begin : {"none", "flight", "store", "done"},
   beginReply : BOOLEAN, finish : Finishes \cup {None}, put : BOOLEAN,
   auth : {"none", "flight", "store", "done"}, authReply : BOOLEAN]

Shapes ==
  /\ scene \in Scenes
  /\ sessions \subseteq Visitors /\ packets \subseteq Packets
  /\ nonces \in [Nonces -> Packets \cup {None}]
  /\ ps \in [Packets -> PacketStates]
  /\ packetMu \in Procs \cup {None} /\ tMu \in Requests \cup {None} /\ stop \in BOOLEAN
  /\ pc \in [Procs -> Places] /\ arg \in [Requests -> Args]
  /\ sweep \in [todo : SUBSET Packets, p : Packets \cup {None}]

\* Who is between the lock and the unlock of a mutex holds it.
Mutexes ==
  \A x \in Procs :
    /\ pc[x] \in {"sweep", "sweepDrop", "drop", "room"} => packetMu = x
    /\ pc[x] \in {"visitDrop", "visitRoom", "drop", "room"} => tMu = x

\* A sweep has ahead of it only sessions of the table, Cleanup's all of them.
Sweeping ==
  \A x \in Procs :
    /\ pc[x] \in {"sweep", "sweepDrop"} => sweep.todo \subseteq packets
    /\ pc[x] = "sweepDrop" => sweep.p \in packets /\ sweep.p \notin sweep.todo
    /\ x = "cleanup" /\ pc[x] = "sweep" => packets \subseteq sweep.todo
    /\ x = "cleanup" /\ pc[x] = "sweepDrop" => packets \subseteq sweep.todo \cup {sweep.p}

\* What a setup request has checked, up to the session's creation.
Asked ==
  \A r \in Requests :
    /\ pc[r] \in {"sweep", "sweepDrop", "find", "drop", "room"} =>
         arg[r].nonce \in Nonces /\ arg[r].body \in Hellos
    /\ pc[r] \in {"drop", "room"} =>
         /\ nonces[arg[r].nonce] = None
         /\ Cardinality(packets) < Min2(scene.max, MaxPackets)
         /\ Cardinality(Provisional) < MaxProvisional

Tables ==
  /\ Cardinality(sessions) + packetCount <= scene.max
  /\ packetCount = Cardinality(packets)
  /\ Cardinality(packets) <= Min2(scene.max, MaxPackets)
  /\ Cardinality(Provisional) <= MaxProvisional
  /\ \A p \in packets : ps[p].nonce \in Nonces /\ nonces[ps[p].nonce] = p
  /\ \A n \in Nonces : nonces[n] # None => nonces[n] \in packets /\ ps[nonces[n]].nonce = n

\* A session leaves the table only closed, and nothing reopens it.
Born ==
  /\ \A p \in packets : ps[p].run # "unborn"
  /\ \A p \in Packets : ps[p].run # "unborn" /\ p \notin packets => ps[p].closed

\* Only a verified finish leads to authentication, and only that to a reply.
Credible(q) ==
  /\ q.run = "commit" => q.finish \in Valid
  /\ q.authed => q.finish \in Valid
  /\ q.authReply => q.authed

\* The session a request works on, and what of it the request has compared.
Waiting ==
  \A r \in Requests :
    /\ pc[r] \in {"beginWait", "start", "put", "authWait"} =>
         arg[r].p \in Packets /\ ps[arg[r].p].run # "unborn"
    /\ pc[r] = "beginWait" =>
         ps[arg[r].p].nonce = arg[r].nonce /\ ps[arg[r].p].body = arg[r].body
    /\ pc[r] = "start" => arg[r].body \in Finishes
    /\ pc[r] \in {"put", "authWait"} =>
         arg[r].body \in Finishes /\ ps[arg[r].p].finish = arg[r].body

\* Once Cleanup has swept the packet sessions no handler is about to make one,
\* and once it has returned none is about to make a visitor session either.
Stopping ==
  /\ pc["cleanup"] # "idle" => stop
  /\ pc["cleanup"] \in {"sessions", "done"} =>
       packets = {} /\ \A r \in Requests : pc[r] \notin {"drop", "room"}
  /\ pc["cleanup"] = "done" =>
       sessions = {} /\ \A r \in Requests : pc[r] \notin {"visitDrop", "visitRoom"}

Inv ==
  /\ Shapes /\ Mutexes /\ Sweeping /\ Asked /\ Tables /\ Born
  /\ \A p \in Packets : Credible(ps[p])
  /\ Waiting /\ Stopping

----------------------------------------------------------------------------
(* Facts about the steps. *)

LEMMA NoArgType == NoArg \in Args
  BY DEF NoArg, Args

\* A handler's move touches its own place and arguments only.
LEMMA HandlerMoves ==
  ASSUME Shapes, NEW r \in Requests, NEW from, NEW to \in Places, NEW a \in Args,
         Goto(r, from, to, a)
  PROVE  /\ pc[r] = from /\ pc'[r] = to
         /\ \A x \in Procs : x # r => pc'[x] = pc[x]
         /\ arg'[r] = IF to = "idle" THEN NoArg ELSE a
         /\ \A y \in Requests : y # r => arg'[y] = arg[y]
         /\ pc' \in [Procs -> Places] /\ arg' \in [Requests -> Args]
  BY NoArgType DEF Shapes, Goto, Go, Procs

LEMMA Finite ==
  ASSUME Shapes
  PROVE  /\ IsFiniteSet(sessions) /\ Cardinality(sessions) \in Nat
         /\ IsFiniteSet(packets) /\ Cardinality(packets) \in Nat
         /\ IsFiniteSet(Provisional) /\ Cardinality(Provisional) \in Nat
<1>1. IsFiniteSet(sessions) /\ IsFiniteSet(packets)
  BY SessionsAssumption, FS_Subset DEF Shapes
<1>2. Provisional \subseteq packets
  BY DEF Provisional
<1>3. IsFiniteSet(Provisional)
  BY <1>1, <1>2, FS_Subset
<1> QED
  BY <1>1, <1>3, FS_CardinalityType

\* What a step of a packet session's own goroutines and handlers keeps.
Keeps(q, k) ==
  /\ k \in PacketStates
  /\ k.nonce = q.nonce /\ k.body = q.body
  /\ k.run = "unborn" <=> q.run = "unborn"
  /\ q.closed => k.closed
  /\ q.finish # None => k.finish = q.finish
  /\ q.authed => k.authed
  /\ Credible(q) => Credible(k)

LEMMA ClosedState ==
  ASSUME NEW q \in PacketStates
  PROVE  /\ Closed(q) \in PacketStates
         /\ Closed(q).nonce = q.nonce /\ Closed(q).body = q.body /\ Closed(q).run = q.run
         /\ Closed(q).finish = q.finish /\ Closed(q).put = q.put
         /\ Closed(q).authed = q.authed /\ Closed(q).closed = TRUE
         /\ Closed(q).authReply => q.authReply
<1> DEFINE k == [q EXCEPT !.closed = TRUE, !.beginReply = FALSE, !.authReply = FALSE,
                          !.closing = (q.state = "open")]
<1>1. k \in PacketStates
  BY DEF PacketStates
<1>2. /\ k.nonce = q.nonce /\ k.body = q.body /\ k.run = q.run
      /\ k.finish = q.finish /\ k.put = q.put /\ k.authed = q.authed
      /\ k.closed = TRUE /\ k.authReply = FALSE
  BY DEF PacketStates
<1>3. CASE q.closed
  <2>1. Closed(q) = q
    BY <1>3 DEF Closed
  <2>2. q.closed = TRUE
    BY <1>3 DEF PacketStates
  <2> QED
    BY <2>1, <2>2
<1>4. CASE ~q.closed
  <2>1. Closed(q) = k
    BY <1>4 DEF Closed
  <2> HIDE DEF k
  <2> QED
    BY <1>1, <1>2, <2>1
<1> QED
  BY <1>3, <1>4

LEMMA GoroutineKeeps ==
  ASSUME Shapes, NEW p \in Packets,
         Goroutine(p) \/ RunFirst(p) \/ RunFails(p) \/ HandlerCloses(p)
  PROVE  /\ \E k \in PacketStates : Keeps(ps[p], k) /\ ps' = [ps EXCEPT ![p] = k]
         /\ UNCHANGED <<vvars, packets, nonces, packetCount, packetMu, tMu, stop, pc, arg, sweep>>
<1> DEFINE q == ps[p]
           c == Closed(q)
<1>0. q \in PacketStates
  BY DEF Shapes
<1>c. /\ c \in PacketStates
      /\ c.nonce = q.nonce /\ c.body = q.body /\ c.run = q.run /\ c.finish = q.finish
      /\ c.authed = q.authed /\ c.closed = TRUE /\ (c.authReply => q.authReply)
  BY <1>0, ClosedState
<1>d. q = ps[p] /\ c = Closed(ps[p])
  OBVIOUS
<1> HIDE DEF q, c
<1>f. /\ UNCHANGED <<vvars, packets, nonces, packetCount, packetMu, tMu, stop, pc, arg, sweep>>
  BY DEF Goroutine, RunFirst, RunRead, RunCommit, RunReply, RunFails, StateClose, BeginFlight,
         BeginStore, BeginFails, AuthFlight, AuthStore, AuthFails, HandlerCloses, PacketStep
<1> SUFFICES \E k \in PacketStates : Keeps(q, k) /\ ps' = [ps EXCEPT ![p] = k]
  BY <1>f, <1>d
<1>1. CASE RunFirst(p)
  <2> DEFINE k == [q EXCEPT !.run = "read"]
  <2>1. k \in PacketStates
    BY <1>0 DEF PacketStates
  <2>2. Keeps(q, k)
    BY <1>0, <1>1, <1>d, <2>1 DEF PacketStates, Keeps, Credible, RunFirst
  <2>3. ps' = [ps EXCEPT ![p] = k]
    BY <1>1, <1>d DEF RunFirst, PacketStep
  <2> QED
    BY <2>1, <2>2, <2>3
<1>2. CASE RunRead(p)
  <2>1. CASE q.finish \in Valid
    <3> DEFINE k == [q EXCEPT !.run = "commit"]
    <3>1. k \in PacketStates
      BY <1>0 DEF PacketStates
    <3>2. Keeps(q, k)
      BY <1>0, <1>2, <1>d, <2>1, <3>1 DEF PacketStates, Keeps, Credible, RunRead
    <3>3. ps' = [ps EXCEPT ![p] = k]
      BY <1>2, <1>d, <2>1 DEF RunRead, PacketStep
    <3> QED
      BY <3>1, <3>2, <3>3
  <2>2. CASE ~(q.finish \in Valid)
    <3> DEFINE k == [c EXCEPT !.run = "over"]
    <3>1. k \in PacketStates
      BY <1>0, <1>c DEF PacketStates
    <3>2. Keeps(q, k)
      BY <1>0, <1>c, <1>2, <1>d, <2>2, <3>1 DEF PacketStates, Keeps, Credible, RunRead
    <3>3. ps' = [ps EXCEPT ![p] = k]
      BY <1>2, <1>d, <2>2 DEF RunRead, PacketStep
    <3> QED
      BY <3>1, <3>2, <3>3
  <2> QED
    BY <2>1, <2>2
<1>3. CASE RunCommit(p)
  <2>1. CASE q.closed
    <3> DEFINE k == [q EXCEPT !.run = "over"]
    <3>1. k \in PacketStates
      BY <1>0 DEF PacketStates
    <3>2. Keeps(q, k)
      BY <1>0, <1>3, <1>d, <2>1, <3>1 DEF PacketStates, Keeps, Credible, RunCommit
    <3>3. ps' = [ps EXCEPT ![p] = k]
      BY <1>3, <1>d, <2>1 DEF RunCommit, PacketStep
    <3> QED
      BY <3>1, <3>2, <3>3
  <2>2. CASE ~q.closed
    <3> DEFINE k == [q EXCEPT !.run = "reply", !.authed = TRUE, !.state = "open"]
    <3>1. k \in PacketStates
      BY <1>0 DEF PacketStates
    <3>2. Keeps(q, k)
      BY <1>0, <1>3, <1>d, <2>2, <3>1 DEF PacketStates, Keeps, Credible, RunCommit
    <3>3. ps' = [ps EXCEPT ![p] = k]
      BY <1>3, <1>d, <2>2 DEF RunCommit, PacketStep
    <3> QED
      BY <3>1, <3>2, <3>3
  <2> QED
    BY <2>1, <2>2
<1>4. CASE RunReply(p)
  <2> DEFINE k == [q EXCEPT !.run = "serve"]
  <2>1. k \in PacketStates
    BY <1>0 DEF PacketStates
  <2>2. Keeps(q, k)
    BY <1>0, <1>4, <1>d, <2>1 DEF PacketStates, Keeps, Credible, RunReply
  <2>3. ps' = [ps EXCEPT ![p] = k]
    BY <1>4, <1>d DEF RunReply, PacketStep
  <2> QED
    BY <2>1, <2>2, <2>3
<1>5. CASE RunFails(p)
  <2> DEFINE k == [c EXCEPT !.run = "over"]
  <2>1. k \in PacketStates
    BY <1>0, <1>c DEF PacketStates
  <2>2. Keeps(q, k)
    BY <1>0, <1>c, <1>5, <1>d, <2>1 DEF PacketStates, Keeps, Credible, RunFails
  <2>3. ps' = [ps EXCEPT ![p] = k]
    BY <1>5, <1>d DEF RunFails, PacketStep
  <2> QED
    BY <2>1, <2>2, <2>3
<1>6. CASE StateClose(p)
  <2> DEFINE k == [q EXCEPT !.closing = FALSE, !.state = "closed"]
  <2>1. k \in PacketStates
    BY <1>0 DEF PacketStates
  <2>2. Keeps(q, k)
    BY <1>0, <1>6, <1>d, <2>1 DEF PacketStates, Keeps, Credible, StateClose
  <2>3. ps' = [ps EXCEPT ![p] = k]
    BY <1>6, <1>d DEF StateClose
  <2> QED
    BY <2>1, <2>2, <2>3
<1>7. CASE BeginFlight(p)
  <2> DEFINE k == [q EXCEPT !.begin = "store"]
  <2>1. k \in PacketStates
    BY <1>0 DEF PacketStates
  <2>2. Keeps(q, k)
    BY <1>0, <1>7, <1>d, <2>1 DEF PacketStates, Keeps, Credible, BeginFlight
  <2>3. ps' = [ps EXCEPT ![p] = k]
    BY <1>7, <1>d DEF BeginFlight, PacketStep
  <2> QED
    BY <2>1, <2>2, <2>3
<1>8. CASE BeginStore(p)
  <2> DEFINE k == [q EXCEPT !.begin = "done", !.beginReply = TRUE]
  <2>1. k \in PacketStates
    BY <1>0 DEF PacketStates
  <2>2. Keeps(q, k)
    BY <1>0, <1>8, <1>d, <2>1 DEF PacketStates, Keeps, Credible, BeginStore
  <2>3. ps' = [ps EXCEPT ![p] = k]
    BY <1>8, <1>d DEF BeginStore, PacketStep
  <2> QED
    BY <2>1, <2>2, <2>3
<1>9. CASE BeginFails(p)
  <2> DEFINE k == [c EXCEPT !.begin = "done"]
  <2>1. k \in PacketStates
    BY <1>0, <1>c DEF PacketStates
  <2>2. Keeps(q, k)
    BY <1>0, <1>c, <1>9, <1>d, <2>1 DEF PacketStates, Keeps, Credible, BeginFails
  <2>3. ps' = [ps EXCEPT ![p] = k]
    BY <1>9, <1>d DEF BeginFails, PacketStep
  <2> QED
    BY <2>1, <2>2, <2>3
<1>10. CASE AuthFlight(p)
  <2> DEFINE k == [q EXCEPT !.auth = "store"]
  <2>1. k \in PacketStates
    BY <1>0 DEF PacketStates
  <2>2. Keeps(q, k)
    BY <1>0, <1>10, <1>d, <2>1 DEF PacketStates, Keeps, Credible, AuthFlight
  <2>3. ps' = [ps EXCEPT ![p] = k]
    BY <1>10, <1>d DEF AuthFlight, PacketStep
  <2> QED
    BY <2>1, <2>2, <2>3
<1>11. CASE AuthStore(p)
  <2>1. CASE q.authed
    <3> DEFINE k == [q EXCEPT !.auth = "done", !.authReply = TRUE]
    <3>1. k \in PacketStates
      BY <1>0 DEF PacketStates
    <3>2. Keeps(q, k)
      BY <1>0, <1>11, <1>d, <2>1, <3>1 DEF PacketStates, Keeps, Credible, AuthStore
    <3>3. ps' = [ps EXCEPT ![p] = k]
      BY <1>11, <1>d, <2>1 DEF AuthStore, PacketStep
    <3> QED
      BY <3>1, <3>2, <3>3
  <2>2. CASE ~q.authed
    <3> DEFINE k == [c EXCEPT !.auth = "done"]
    <3>1. k \in PacketStates
      BY <1>0, <1>c DEF PacketStates
    <3>2. Keeps(q, k)
      BY <1>0, <1>c, <1>11, <1>d, <2>2, <3>1 DEF PacketStates, Keeps, Credible, AuthStore
    <3>3. ps' = [ps EXCEPT ![p] = k]
      BY <1>11, <1>d, <2>2 DEF AuthStore, PacketStep
    <3> QED
      BY <3>1, <3>2, <3>3
  <2> QED
    BY <2>1, <2>2
<1>12. CASE AuthFails(p)
  <2> DEFINE k == [c EXCEPT !.auth = "done"]
  <2>1. k \in PacketStates
    BY <1>0, <1>c DEF PacketStates
  <2>2. Keeps(q, k)
    BY <1>0, <1>c, <1>12, <1>d, <2>1 DEF PacketStates, Keeps, Credible, AuthFails
  <2>3. ps' = [ps EXCEPT ![p] = k]
    BY <1>12, <1>d DEF AuthFails, PacketStep
  <2> QED
    BY <2>1, <2>2, <2>3
<1>13. CASE HandlerCloses(p)
  <2> DEFINE k == c
  <2>1. k \in PacketStates
    BY <1>0, <1>c DEF PacketStates
  <2>2. Keeps(q, k)
    BY <1>0, <1>c, <1>13, <1>d, <2>1 DEF PacketStates, Keeps, Credible, HandlerCloses
  <2>3. ps' = [ps EXCEPT ![p] = k]
    BY <1>13, <1>d DEF HandlerCloses, PacketStep
  <2> QED
    BY <2>1, <2>2, <2>3
<1> QED
  BY <1>1, <1>2, <1>3, <1>4, <1>5, <1>6, <1>7, <1>8, <1>9, <1>10, <1>11, <1>12, <1>13 DEF Goroutine

----------------------------------------------------------------------------
(* The steps that leave the tables alone. *)

\* Sessions that keep what they must keep leave every check valid.
LEMMA StatesChange ==
  ASSUME Inv, \A p \in Packets : Keeps(ps[p], ps'[p]), ps' \in [Packets -> PacketStates],
         UNCHANGED <<scene, packets, nonces>>
  PROVE  /\ Provisional' \subseteq Provisional
         /\ Cardinality(Provisional') \in Nat /\ Cardinality(Provisional') <= Cardinality(Provisional)
         /\ Born'
         /\ \A p \in Packets : Credible(ps'[p])
         /\ \A p \in packets' : ps'[p].nonce \in Nonces /\ nonces'[ps'[p].nonce] = p
         /\ \A n \in Nonces : nonces'[n] # None => nonces'[n] \in packets' /\ ps'[nonces'[n]].nonce = n
<1>1. Provisional' \subseteq Provisional
  BY DEF Provisional, Keeps, Inv, Shapes
<1>2. IsFiniteSet(Provisional)
  BY Finite DEF Inv
<1>3. /\ Cardinality(Provisional') \in Nat
      /\ Cardinality(Provisional') <= Cardinality(Provisional)
  BY <1>1, <1>2, FS_Subset, FS_CardinalityType
<1>4. Born'
  BY DEF Inv, Born, Keeps, Shapes
<1>5. \A p \in Packets : Credible(ps'[p])
  BY DEF Inv, Keeps
<1>6. \A p \in packets' : ps'[p].nonce \in Nonces /\ nonces'[ps'[p].nonce] = p
  BY DEF Inv, Tables, Keeps, Shapes
<1>7. \A n \in Nonces : nonces'[n] # None => nonces'[n] \in packets' /\ ps'[nonces'[n]].nonce = n
  BY DEF Inv, Tables, Keeps, Shapes
<1> QED
  BY <1>1, <1>3, <1>4, <1>5, <1>6, <1>7

\* A goroutine's step.
LEMMA GoroutineInv ==
  ASSUME Inv, NEW p \in Packets,
         Goroutine(p) \/ RunFirst(p) \/ RunFails(p) \/ HandlerCloses(p)
  PROVE  Inv'
<1>0. Shapes
  BY DEF Inv
<1>1. PICK k \in PacketStates : Keeps(ps[p], k) /\ ps' = [ps EXCEPT ![p] = k]
  BY <1>0, GoroutineKeeps
<1>2. UNCHANGED <<scene, sessions, packets, nonces, packetCount, packetMu, tMu, stop, pc, arg, sweep>>
  BY <1>0, GoroutineKeeps DEF vvars
<1>3. \A o \in PacketStates : Keeps(o, o)
  BY DEF Keeps
<1>4. ps' \in [Packets -> PacketStates]
  BY <1>0, <1>1 DEF Shapes
<1>5. \A o \in Packets : Keeps(ps[o], ps'[o])
  BY <1>0, <1>1, <1>3 DEF Shapes
<1>6. /\ Cardinality(Provisional') \in Nat /\ Cardinality(Provisional') <= Cardinality(Provisional)
      /\ Born' /\ \A o \in Packets : Credible(ps'[o])
      /\ \A o \in packets' : ps'[o].nonce \in Nonces /\ nonces'[ps'[o].nonce] = o
      /\ \A n \in Nonces : nonces'[n] # None => nonces'[n] \in packets' /\ ps'[nonces'[n]].nonce = n
  BY <1>2, <1>4, <1>5, StatesChange
<1>7. Shapes'
  BY <1>0, <1>2, <1>4 DEF Shapes
<1>8. Mutexes' /\ Sweeping' /\ Stopping'
  BY <1>2 DEF Inv, Mutexes, Sweeping, Stopping
<1>9. Asked' /\ Tables'
  <2>1. Cardinality(Provisional) \in Nat /\ MaxProvisional \in Nat
    BY <1>0, Finite, SessionsAssumption
  <2>2. Asked'
    BY <1>2, <1>6, <2>1 DEF Inv, Asked
  <2>3. Tables'
    BY <1>2, <1>6, <2>1 DEF Inv, Tables
  <2> QED
    BY <2>2, <2>3
<1>10. Waiting'
  <2> SUFFICES ASSUME NEW r \in Requests
               PROVE  /\ pc[r] \in {"beginWait", "start", "put", "authWait"} =>
                           arg[r].p \in Packets /\ ps'[arg[r].p].run # "unborn"
                      /\ pc[r] = "beginWait" =>
                           ps'[arg[r].p].nonce = arg[r].nonce /\ ps'[arg[r].p].body = arg[r].body
                      /\ pc[r] = "start" => arg[r].body \in Finishes
                      /\ pc[r] \in {"put", "authWait"} =>
                           arg[r].body \in Finishes /\ ps'[arg[r].p].finish = arg[r].body
    BY <1>2 DEF Waiting
  <2> QED
    BY <1>5, SessionsAssumption DEF Inv, Waiting, Keeps
<1> QED
  BY <1>6, <1>7, <1>8, <1>9, <1>10 DEF Inv

\* A handler ends, or goes on where no table of packet sessions matters.
LEMMA HandlerLeaves ==
  ASSUME Inv, NEW r \in Requests, NEW from, NEW a \in Args,
         NEW to \in {"idle", "visitDrop", "visitRoom", "commit"}, Goto(r, from, to, a),
         UNCHANGED <<scene, pvars, stop, sweep>>,
         sessions' \subseteq Visitors, Cardinality(sessions') + packetCount <= scene.max,
         packetMu' \in Procs \cup {None}, tMu' \in Requests \cup {None}, Mutexes',
         pc["cleanup"] = "done" => sessions' = {} /\ to \notin {"visitDrop", "visitRoom"}
  PROVE  Inv'
<1>0. Shapes /\ to \in Places
  BY DEF Inv, Places
<1>1. /\ pc[r] = from /\ pc'[r] = to
      /\ \A x \in Procs : x # r => pc'[x] = pc[x]
      /\ \A y \in Requests : y # r => arg'[y] = arg[y]
      /\ pc' \in [Procs -> Places] /\ arg' \in [Requests -> Args]
  BY <1>0, HandlerMoves
<1>2. r \in Procs /\ "cleanup" \in Procs /\ r # "cleanup"
  BY SessionsAssumption DEF Procs
<1>3. UNCHANGED <<scene, packets, nonces, packetCount, ps, stop, sweep>>
  BY DEF pvars
<1>4. Provisional' = Provisional
  BY <1>3 DEF Provisional
<1>5. Shapes'
  BY <1>0, <1>1, <1>3 DEF Shapes
<1>6. Sweeping'
  BY <1>1, <1>3 DEF Inv, Sweeping
<1>7. Asked'
  BY <1>1, <1>2, <1>3, <1>4 DEF Inv, Asked, Procs
<1>8. Tables'
  BY <1>3, <1>4 DEF Inv, Tables
<1>9. Born' /\ \A p \in Packets : Credible(ps'[p])
  BY <1>3 DEF Inv, Born
<1>10. Waiting'
  BY <1>1, <1>3 DEF Inv, Waiting, Procs
<1>11. Stopping'
  BY <1>1, <1>2, <1>3 DEF Inv, Stopping, Procs
<1> QED
  BY <1>5, <1>6, <1>7, <1>8, <1>9, <1>10, <1>11 DEF Inv

\* Who leaves the places of the mutexes, with or without giving them up.
LEMMA MutexesLeft ==
  ASSUME Inv, NEW r \in Requests, NEW from, NEW a \in Args,
         NEW to \in {"idle", "commit", "find", "beginWait", "start", "put", "authWait"},
         Goto(r, from, to, a),
         packetMu' = packetMu \/ (packetMu' = None /\ packetMu = r),
         tMu' = tMu \/ (tMu' = None /\ tMu = r)
  PROVE  Mutexes'
<1>0. Shapes /\ to \in Places
  BY DEF Inv, Places, PacketPlaces
<1>1. pc'[r] = to /\ \A x \in Procs : x # r => pc'[x] = pc[x]
  BY <1>0, HandlerMoves, ZenonT(60)
<1> QED
  BY <1>1 DEF Inv, Mutexes

----------------------------------------------------------------------------
(* Visitor sessions. *)

LEMMA Renewed ==
  ASSUME Shapes, NEW v \in Visitors, Renew(v)
  PROVE  /\ sessions' \subseteq Visitors /\ Cardinality(sessions') \in Nat
         /\ v \in sessions => sessions' = sessions
         /\ Cardinality(sessions') <= Cardinality(sessions) + 1
<1>1. sessions' = sessions \cup {v}
  BY DEF Renew
<1>2. IsFiniteSet(sessions) /\ Cardinality(sessions) \in Nat
  BY Finite
<1>3. /\ Cardinality(sessions \cup {v}) \in Nat
      /\ Cardinality(sessions \cup {v}) <= Cardinality(sessions) + 1
  BY <1>2, FS_AddElement
<1> QED
  BY <1>1, <1>3 DEF Shapes

LEMMA VisitorsClosed ==
  ASSUME Shapes, NEW S, CloseVisitors(S)
  PROVE  /\ sessions' = sessions \ S /\ sessions' \subseteq Visitors
         /\ Cardinality(sessions') \in Nat /\ Cardinality(sessions') <= Cardinality(sessions)
<1>1. sessions' = sessions \ S
  BY DEF CloseVisitors
<1>2. IsFiniteSet(sessions) /\ sessions \ S \subseteq sessions
  BY Finite
<1>3. IsFiniteSet(sessions \ S) /\ Cardinality(sessions \ S) <= Cardinality(sessions)
  BY <1>2, FS_Subset
<1> QED
  BY <1>1, <1>3, FS_CardinalityType DEF Shapes

LEMMA Slots ==
  ASSUME Inv
  PROVE  /\ scene.max \in Nat /\ packetCount \in Nat /\ Cardinality(sessions) \in Nat
         /\ Cardinality(sessions) + packetCount <= scene.max
         /\ scene.visitors \subseteq Visitors /\ scene.packets \subseteq Packets
<1>1. Cardinality(sessions) \in Nat /\ Cardinality(packets) \in Nat
  BY Finite DEF Inv
<1>2. /\ scene.max \in Nat /\ scene.visitors \subseteq Visitors /\ scene.packets \subseteq Packets
  BY SessionsAssumption DEF Inv, Shapes
<1> QED
  BY <1>1, <1>2 DEF Inv, Tables

LEMMA AdmitInv ==
  ASSUME Inv, NEW r \in Requests, NEW from, Admit(r, from),
         tMu \in {None, r}, pc["cleanup"] # "done"
  PROVE  Inv'
<1>0. Shapes /\ r \in Procs
  BY DEF Inv, Procs
<1>9. \A x \in Procs : x # None
  BY SessionsAssumption DEF Procs
<1>1. ASSUME ~Full, Goto(r, from, "idle", NoArg), tMu' = None,
             NEW v \in NewVisitor, Renew(v), UNCHANGED <<scene, pvars, packetMu, stop, sweep>>
      PROVE  Inv'
  <2>1. v \in Visitors
    BY Slots DEF NewVisitor, Fresh
  <2>2. sessions' \subseteq Visitors /\ Cardinality(sessions') + packetCount <= scene.max
    BY <1>0, <1>1, <2>1, Renewed, Slots DEF Full
  <2>3. packetMu' \in Procs \cup {None} /\ tMu' \in Requests \cup {None}
    BY <1>0, <1>1 DEF Shapes
  <2>4. Mutexes'
    <3>1. pc'[r] = "idle" /\ \A x \in Procs : x # r => pc'[x] = pc[x]
      BY <1>0, <1>1, NoArgType, HandlerMoves DEF Places
    <3> QED
      BY <1>0, <1>1, <1>9, <3>1 DEF Inv, Mutexes
  <2> QED
    BY <1>1, <2>2, <2>3, <2>4, NoArgType, HandlerLeaves
<1>2. ASSUME NEW v \in Oldest, tMu' = r, Goto(r, from, "visitDrop", [NoArg EXCEPT !.v = v]),
             UNCHANGED <<vvars, pvars, packetMu, stop, sweep>>
      PROVE  Inv'
  <2>1. [NoArg EXCEPT !.v = v] \in Args
    <3>1. v \in Visitors
      BY <1>0 DEF Oldest, Anonymous, Shapes
    <3> QED
      BY <3>1, NoArgType DEF Args
  <2>2. UNCHANGED <<scene, sessions, pvars, packetMu, stop, sweep>>
    BY <1>2 DEF vvars
  <2>3. sessions' \subseteq Visitors /\ Cardinality(sessions') + packetCount <= scene.max
    BY <1>0, <2>2, Slots DEF Shapes
  <2>4. packetMu' \in Procs \cup {None} /\ tMu' \in Requests \cup {None}
    BY <1>0, <1>2, <2>2 DEF Shapes
  <2>5. Mutexes'
    <3>1. pc'[r] = "visitDrop" /\ \A x \in Procs : x # r => pc'[x] = pc[x]
      BY <1>0, <1>2 DEF Goto, Go, Shapes
    <3> QED
      BY <1>0, <1>2, <1>9, <2>2, <3>1 DEF Inv, Mutexes
  <2> QED
    BY <1>2, <2>1, <2>2, <2>3, <2>4, <2>5, HandlerLeaves
<1>3. ASSUME Goto(r, from, "idle", NoArg), tMu' = None,
             UNCHANGED <<vvars, pvars, packetMu, stop, sweep>>
      PROVE  Inv'
  <2>2. UNCHANGED <<scene, sessions, pvars, packetMu, stop, sweep>>
    BY <1>3 DEF vvars
  <2>3. sessions' \subseteq Visitors /\ Cardinality(sessions') + packetCount <= scene.max
    BY <1>0, <2>2, Slots DEF Shapes
  <2>4. packetMu' \in Procs \cup {None} /\ tMu' \in Requests \cup {None}
    BY <1>0, <1>3, <2>2 DEF Shapes
  <2>5. Mutexes'
    <3>1. pc'[r] = "idle" /\ \A x \in Procs : x # r => pc'[x] = pc[x]
      BY <1>0, <1>3, NoArgType, HandlerMoves DEF Places
    <3> QED
      BY <1>0, <1>3, <1>9, <2>2, <3>1 DEF Inv, Mutexes
  <2> QED
    BY <1>3, <2>2, <2>3, <2>4, <2>5, NoArgType, HandlerLeaves
<1> QED
  BY <1>1, <1>2, <1>3 DEF Admit

LEMMA VisitorInv ==
  ASSUME Inv, NEW r \in Requests,
         Visit(r) \/ VisitRoom(r) \/ VisitDrop(r) \/ Lookup(r) \/ Commit(r)
  PROVE  Inv'
<1>0. Shapes /\ r \in Procs
  BY DEF Inv, Procs
<1>1. CASE Visit(r)
  <2>1. tMu \in {None, r} /\ pc["cleanup"] # "done"
    BY <1>1 DEF Visit, Inv, Stopping
  <2> QED
    BY <1>1, <2>1, AdmitInv DEF Visit
<1>2. CASE VisitRoom(r)
  <2>1. pc[r] = "visitRoom"
    BY <1>2 DEF VisitRoom, Admit, Goto, Go
  <2>2. tMu \in {None, r} /\ pc["cleanup"] # "done"
    BY <1>0, <2>1 DEF Inv, Mutexes, Stopping
  <2> QED
    BY <1>2, <2>2, AdmitInv DEF VisitRoom
<1>3. CASE VisitDrop(r)
  <2>1. /\ Goto(r, "visitDrop", "visitRoom", NoArg)
        /\ CloseVisitors({v \in {arg[r].v} : visitor[v] # "authed"})
        /\ UNCHANGED <<scene, pvars, packetMu, tMu, stop, sweep>>
    BY <1>3 DEF VisitDrop
  <2>2. sessions' \subseteq Visitors /\ Cardinality(sessions') + packetCount <= scene.max
    BY <1>0, <2>1, VisitorsClosed, Slots
  <2>3. packetMu' \in Procs \cup {None} /\ tMu' \in Requests \cup {None}
    BY <1>0, <2>1 DEF Shapes
  <2>4. pc[r] = "visitDrop" /\ pc'[r] = "visitRoom" /\ \A x \in Procs : x # r => pc'[x] = pc[x]
    BY <1>0, <2>1, NoArgType, HandlerMoves DEF Places
  <2>5. Mutexes'
    BY <1>0, <2>1, <2>4 DEF Inv, Mutexes
  <2>6. pc["cleanup"] # "done"
    BY <2>4 DEF Inv, Stopping
  <2> QED
    BY <2>1, <2>2, <2>3, <2>5, <2>6, NoArgType, HandlerLeaves
<1>4. CASE Lookup(r)
  <2>1. PICK v \in sessions :
          /\ ~stop
          /\ Goto(r, "idle", "commit", [NoArg EXCEPT !.v = v])
          /\ Renew(v)
          /\ UNCHANGED <<scene, pvars, packetMu, tMu, stop, sweep>>
    BY <1>4 DEF Lookup
  <2>2. v \in Visitors
    BY <1>0 DEF Shapes
  <2>3. [NoArg EXCEPT !.v = v] \in Args
    BY <2>2, NoArgType DEF Args
  <2>4. sessions' \subseteq Visitors /\ Cardinality(sessions') + packetCount <= scene.max
    BY <1>0, <2>1, <2>2, Renewed, Slots
  <2>5. packetMu' \in Procs \cup {None} /\ tMu' \in Requests \cup {None}
    BY <1>0, <2>1 DEF Shapes
  <2>6. Mutexes'
    BY <2>1, <2>3, MutexesLeft
  <2>7. pc["cleanup"] # "done"
    BY <2>1 DEF Inv, Stopping
  <2> QED
    BY <2>1, <2>3, <2>4, <2>5, <2>6, <2>7, HandlerLeaves
<1>5. CASE Commit(r)
  <2>1. /\ Goto(r, "commit", "idle", NoArg)
        /\ UNCHANGED <<scene, sessions, pvars, packetMu, tMu, stop, sweep>>
    BY <1>5 DEF Commit
  <2>2. sessions' \subseteq Visitors /\ Cardinality(sessions') + packetCount <= scene.max
    BY <1>0, <2>1, Slots DEF Shapes
  <2>3. packetMu' \in Procs \cup {None} /\ tMu' \in Requests \cup {None}
    BY <1>0, <2>1 DEF Shapes
  <2>4. Mutexes'
    BY <2>1, NoArgType, MutexesLeft
  <2>5. pc["cleanup"] = "done" => sessions' = {}
    BY <2>1 DEF Inv, Stopping
  <2> QED
    BY <2>1, <2>2, <2>3, <2>4, <2>5, NoArgType, HandlerLeaves
<1> QED
  BY <1>1, <1>2, <1>3, <1>4, <1>5

----------------------------------------------------------------------------
(* Requests on a packet session. *)

\* A handler goes on to work on a session that is made already, or ends.
LEMMA HandlerWorks ==
  ASSUME Inv, NEW r \in Requests, NEW from, NEW a \in Args,
         NEW to \in {"idle", "beginWait", "start", "put", "authWait"}, Goto(r, from, to, a),
         \A p \in Packets : Keeps(ps[p], ps'[p]), ps' \in [Packets -> PacketStates],
         UNCHANGED <<scene, sessions, packets, nonces, packetCount, packetMu, tMu, stop, sweep>>,
         to # "idle" => a.p \in Packets /\ ps'[a.p].run # "unborn",
         to = "beginWait" => ps'[a.p].nonce = a.nonce /\ ps'[a.p].body = a.body,
         to = "start" => a.body \in Finishes,
         to \in {"put", "authWait"} => a.body \in Finishes /\ ps'[a.p].finish = a.body
  PROVE  Inv'
<1>0. Shapes /\ to \in Places /\ r \in Procs /\ "cleanup" \in Procs /\ r # "cleanup"
  BY SessionsAssumption DEF Inv, Places, PacketPlaces, Procs
<1>1. /\ pc[r] = from /\ pc'[r] = to
      /\ \A x \in Procs : x # r => pc'[x] = pc[x]
      /\ arg'[r] = IF to = "idle" THEN NoArg ELSE a
      /\ \A y \in Requests : y # r => arg'[y] = arg[y]
      /\ pc' \in [Procs -> Places] /\ arg' \in [Requests -> Args]
  BY <1>0, HandlerMoves
<1>2. /\ Cardinality(Provisional') \in Nat /\ Cardinality(Provisional') <= Cardinality(Provisional)
      /\ Born' /\ \A o \in Packets : Credible(ps'[o])
      /\ \A o \in packets' : ps'[o].nonce \in Nonces /\ nonces'[ps'[o].nonce] = o
      /\ \A n \in Nonces : nonces'[n] # None => nonces'[n] \in packets' /\ ps'[nonces'[n]].nonce = n
  BY StatesChange
<1>3. Cardinality(Provisional) \in Nat /\ MaxProvisional \in Nat
  BY <1>0, Finite, SessionsAssumption
<1>4. Shapes'
  BY <1>0, <1>1 DEF Shapes
<1>5. Mutexes' /\ Sweeping'
  BY <1>1 DEF Inv, Mutexes, Sweeping
<1>6. Asked'
  BY <1>1, <1>2, <1>3 DEF Inv, Asked, Procs
<1>7. Tables'
  BY <1>2, <1>3 DEF Inv, Tables
<1>8. Waiting'
  <2> SUFFICES ASSUME NEW y \in Requests
               PROVE  /\ pc'[y] \in {"beginWait", "start", "put", "authWait"} =>
                           arg'[y].p \in Packets /\ ps'[arg'[y].p].run # "unborn"
                      /\ pc'[y] = "beginWait" =>
                           ps'[arg'[y].p].nonce = arg'[y].nonce /\ ps'[arg'[y].p].body = arg'[y].body
                      /\ pc'[y] = "start" => arg'[y].body \in Finishes
                      /\ pc'[y] \in {"put", "authWait"} =>
                           arg'[y].body \in Finishes /\ ps'[arg'[y].p].finish = arg'[y].body
    BY DEF Waiting
  <2>1. CASE y = r
    <3>1. CASE to = "idle"
      BY <1>1, <2>1, <3>1
    <3>2. CASE to # "idle"
      BY <1>1, <2>1, <3>2
    <3> QED
      BY <3>1, <3>2
  <2>2. CASE y # r
    <3>1. pc'[y] = pc[y] /\ arg'[y] = arg[y]
      BY <1>1, <2>2 DEF Procs
    <3>2. /\ pc[y] \in {"beginWait", "start", "put", "authWait"} =>
               arg[y].p \in Packets /\ ps[arg[y].p].run # "unborn"
          /\ pc[y] = "beginWait" =>
               ps[arg[y].p].nonce = arg[y].nonce /\ ps[arg[y].p].body = arg[y].body
          /\ pc[y] = "start" => arg[y].body \in Finishes
          /\ pc[y] \in {"put", "authWait"} =>
               arg[y].body \in Finishes /\ ps[arg[y].p].finish = arg[y].body
      BY DEF Inv, Waiting
    <3>3. arg[y].p \in Packets => Keeps(ps[arg[y].p], ps'[arg[y].p])
      OBVIOUS
    <3> QED
      BY <3>1, <3>2, <3>3, SessionsAssumption DEF Keeps
  <2> QED
    BY <2>1, <2>2
<1>9. Stopping'
  BY <1>0, <1>1 DEF Inv, Stopping, Procs
<1> QED
  BY <1>2, <1>4, <1>5, <1>6, <1>7, <1>8, <1>9 DEF Inv

LEMMA StatesSame ==
  ASSUME Inv, UNCHANGED ps
  PROVE  (\A p \in Packets : Keeps(ps[p], ps'[p])) /\ ps' \in [Packets -> PacketStates]
  BY DEF Inv, Shapes, Keeps

LEMMA WaitInv ==
  ASSUME Inv, NEW r \in Requests, BeginWait(r) \/ AuthWait(r) \/ Abandon(r)
  PROVE  Inv'
<1>1. PICK from : Goto(r, from, "idle", NoArg)
  BY DEF BeginWait, AuthWait, Abandon
<1>2. UNCHANGED <<scene, sessions, packets, nonces, packetCount, ps, packetMu, tMu, stop, sweep>>
  BY DEF BeginWait, AuthWait, Abandon, vvars, pvars
<1> QED
  BY <1>1, <1>2, NoArgType, StatesSame, HandlerWorks

LEMMA AuthInv ==
  ASSUME Inv, NEW r \in Requests, Auth(r)
  PROVE  Inv'
<1>1. PICK p \in packets, b \in Finishes : Goto(r, "idle", "start", [NoArg EXCEPT !.p = p, !.body = b])
  BY DEF Auth
<1>2. UNCHANGED <<scene, sessions, packets, nonces, packetCount, ps, packetMu, tMu, stop, sweep>>
  BY DEF Auth, vvars, pvars
<1>3. p \in Packets /\ ps'[p].run # "unborn"
  BY <1>2 DEF Inv, Shapes, Born
<1> DEFINE a == [NoArg EXCEPT !.p = p, !.body = b]
<1>4. a \in Args /\ a.p = p /\ a.body = b
  BY <1>3, NoArgType DEF Args
<1>5. Goto(r, "idle", "start", a)
  BY <1>1
<1> HIDE DEF a
<1> QED
  BY <1>2, <1>3, <1>4, <1>5, StatesSame, HandlerWorks

LEMMA RetryInv ==
  ASSUME Inv, NEW r \in Requests, pc[r] = "find", nonces[arg[r].nonce] # None, Retry(r)
  PROVE  Inv'
<1> DEFINE q == nonces[arg[r].nonce]
           a == [arg[r] EXCEPT !.p = q]
           to == IF ps[q].body = arg[r].body THEN "beginWait" ELSE "idle"
<1>1. UNCHANGED <<scene, sessions, packets, nonces, packetCount, ps, packetMu, tMu, stop, sweep>>
  BY DEF Retry, vvars, pvars
<1>2. Goto(r, "find", to, a)
  BY DEF Retry
<1>3. arg[r] \in Args /\ arg[r].nonce \in Nonces
  BY DEF Inv, Shapes, Asked
<1>4. q \in packets /\ q \in Packets /\ ps[q].nonce = arg[r].nonce /\ ps[q].run # "unborn"
  BY <1>3 DEF Inv, Shapes, Tables, Born
<1> HIDE DEF q
<1>5. a \in Args /\ a.p = q /\ a.nonce = arg[r].nonce /\ a.body = arg[r].body
  BY <1>3, <1>4 DEF Args
<1>6. to \in {"idle", "beginWait"} /\ (to = "beginWait" => ps[q].body = arg[r].body)
  OBVIOUS
<1> HIDE DEF a, to
<1> QED
  BY <1>1, <1>2, <1>4, <1>5, <1>6, StatesSame, HandlerWorks

LEMMA StartInv ==
  ASSUME Inv, NEW r \in Requests, Start(r)
  PROVE  Inv'
<1> DEFINE p == arg[r].p
           a == arg[r]
           q == ps[p]
           first == q.beginReply /\ q.finish = None
           retry == q.beginReply /\ q.finish = a.body
           to == IF first THEN "put" ELSE IF retry THEN "authWait" ELSE "idle"
           k == [q EXCEPT !.finish = IF first THEN a.body ELSE @]
<1>1. UNCHANGED <<scene, sessions, packets, nonces, packetCount, packetMu, tMu, stop, sweep>>
  BY DEF Start, vvars
<1>2. Goto(r, "start", to, a)
  BY DEF Start
<1>3. ps' = [ps EXCEPT ![p] = k]
  BY DEF Start
<1>4. pc[r] = "start" /\ a \in Args
  BY <1>2 DEF Goto, Go, Inv, Shapes
<1>5. p \in Packets /\ q.run # "unborn" /\ a.body \in Finishes
  BY <1>4 DEF Inv, Waiting
<1>6. q \in PacketStates /\ Credible(q)
  BY <1>5 DEF Inv, Shapes
<1>7. k \in PacketStates
  BY <1>5, <1>6 DEF PacketStates
<1>8. Keeps(q, k)
  BY <1>5, <1>6, <1>7, SessionsAssumption, ZenonT(60) DEF Keeps, Credible, PacketStates
<1>9. k.run # "unborn" /\ (first => k.finish = a.body) /\ (~first => k.finish = q.finish)
  BY <1>5, <1>6 DEF PacketStates
<1>10. /\ to \in {"idle", "put", "authWait"}
       /\ to \in {"put", "authWait"} => k.finish = a.body
  BY <1>9
<1> HIDE DEF k, to
<1>11. ps' \in [Packets -> PacketStates] /\ \A o \in Packets : Keeps(ps[o], ps'[o])
  <2>1. \A o \in PacketStates : Keeps(o, o)
    BY DEF Keeps
  <2> QED
    BY <1>3, <1>7, <1>8, <2>1 DEF Inv, Shapes
<1>12. ps'[p] = k
  BY <1>3, <1>5 DEF Inv, Shapes
<1> QED
  BY <1>1, <1>2, <1>4, <1>5, <1>9, <1>10, <1>11, <1>12, HandlerWorks

LEMMA PutFinishInv ==
  ASSUME Inv, NEW r \in Requests, PutFinish(r)
  PROVE  Inv'
<1> DEFINE p == arg[r].p
           a == arg[r]
           q == ps[p]
           to == IF q.closed THEN "idle" ELSE "authWait"
           k == IF q.closed THEN q ELSE [q EXCEPT !.put = TRUE, !.auth = "flight"]
<1>1. UNCHANGED <<scene, sessions, packets, nonces, packetCount, packetMu, tMu, stop, sweep>>
  BY DEF PutFinish, vvars
<1>2. Goto(r, "put", to, a)
  BY DEF PutFinish
<1>3. ps' = [ps EXCEPT ![p] = k]
  BY DEF PutFinish
<1>4. pc[r] = "put" /\ a \in Args
  BY <1>2 DEF Goto, Go, Inv, Shapes
<1>5. p \in Packets /\ q.run # "unborn" /\ a.body \in Finishes /\ q.finish = a.body
  BY <1>4 DEF Inv, Waiting
<1>6. q \in PacketStates
  BY <1>5 DEF Inv, Shapes
<1>7. k \in PacketStates
  <2>1. [q EXCEPT !.put = TRUE, !.auth = "flight"] \in PacketStates
    BY <1>6 DEF PacketStates
  <2> QED
    BY <1>6, <2>1
<1>8. Keeps(q, k)
  <2>1. \A o \in PacketStates : Keeps(o, o)
    BY DEF Keeps
  <2>2. CASE q.closed
    BY <1>6, <2>1, <2>2
  <2>3. CASE ~q.closed
    BY <1>6, <1>7, <2>3 DEF Keeps, Credible, PacketStates
  <2> QED
    BY <2>2, <2>3
<1>9. k.run # "unborn" /\ k.finish = q.finish /\ to \in {"idle", "authWait"}
  BY <1>5, <1>6 DEF PacketStates
<1> HIDE DEF k, to
<1>11. ps' \in [Packets -> PacketStates] /\ \A o \in Packets : Keeps(ps[o], ps'[o])
  <2>1. \A o \in PacketStates : Keeps(o, o)
    BY DEF Keeps
  <2> QED
    BY <1>3, <1>7, <1>8, <2>1 DEF Inv, Shapes
<1>12. ps'[p] = k
  BY <1>3, <1>5 DEF Inv, Shapes
<1> QED
  BY <1>1, <1>2, <1>4, <1>5, <1>9, <1>11, <1>12, HandlerWorks

----------------------------------------------------------------------------
(* The creation of a packet session. *)

\* A handler that checked the tables under packetMu holds both mutexes up to
\* Create, and evicts visitors on its way.
LEMMA HandlerHolds ==
  ASSUME Inv, NEW r \in Requests, NEW from, NEW a \in Args, NEW to \in {"drop", "room"},
         Goto(r, from, to, a), packetMu \in {None, r}, tMu \in {None, r}, packetMu' = r, tMu' = r,
         UNCHANGED <<scene, pvars, stop, sweep>>,
         sessions' \subseteq Visitors, Cardinality(sessions') + packetCount <= scene.max,
         pc["cleanup"] \notin {"sessions", "done"},
         a.nonce \in Nonces, a.body \in Hellos, nonces[a.nonce] = None,
         Cardinality(packets) < Min2(scene.max, MaxPackets), Cardinality(Provisional) < MaxProvisional
  PROVE  Inv'
<1>0. Shapes /\ to \in Places /\ r \in Procs /\ "cleanup" \in Procs /\ r # "cleanup"
  BY SessionsAssumption DEF Inv, Places, PacketPlaces, Procs
<1>1. /\ pc[r] = from /\ pc'[r] = to
      /\ \A x \in Procs : x # r => pc'[x] = pc[x]
      /\ arg'[r] = a
      /\ \A y \in Requests : y # r => arg'[y] = arg[y]
      /\ pc' \in [Procs -> Places] /\ arg' \in [Requests -> Args]
  BY <1>0, HandlerMoves, SMTT(40)
<1>2. UNCHANGED <<scene, packets, nonces, packetCount, ps, stop, sweep>>
  BY DEF pvars
<1>3. Provisional' = Provisional
  BY <1>2 DEF Provisional
<1>4. \A x \in Procs : x # None
  BY SessionsAssumption DEF Procs
<1>5. Shapes'
  BY <1>0, <1>1, <1>2 DEF Shapes
<1>6. Mutexes'
  BY <1>1, <1>4 DEF Inv, Mutexes
<1>7. Sweeping'
  BY <1>1, <1>2 DEF Inv, Sweeping
<1>8. Asked'
  BY <1>1, <1>2, <1>3 DEF Inv, Asked, Procs
<1>9. Tables' /\ Born' /\ \A p \in Packets : Credible(ps'[p])
  BY <1>2, <1>3 DEF Inv, Tables, Born
<1>10. Waiting'
  BY <1>1, <1>2 DEF Inv, Waiting, Procs
<1>11. Stopping'
  BY <1>0, <1>1, <1>2 DEF Inv, Stopping, Procs
<1> QED
  BY <1>5, <1>6, <1>7, <1>8, <1>9, <1>10, <1>11 DEF Inv

LEMMA FindInv ==
  ASSUME Inv, NEW r \in Requests, Find(r)
  PROVE  Inv'
<1> DEFINE q == nonces[arg[r].nonce]
<1>0. /\ Shapes /\ pc[r] = "find" /\ packetMu = None
      /\ arg[r] \in Args /\ arg[r].nonce \in Nonces /\ arg[r].body \in Hellos
  BY DEF Inv, Shapes, Asked, Find
<1>1. CASE ~stop /\ q = None /\ PacketRoom /\ Reserve(r)
  <2> DEFINE own == arg[r].v \in Anonymous
             a == [arg[r] EXCEPT !.v = IF own THEN @ ELSE None]
             to == IF own THEN "drop" ELSE "room"
  <2>1. /\ Goto(r, "find", to, a)
        /\ packetMu' = r /\ tMu = None /\ tMu' = r
        /\ UNCHANGED <<vvars, pvars, stop, sweep>>
    BY <1>1 DEF Reserve
  <2>2. a \in Args /\ a.nonce = arg[r].nonce /\ a.body = arg[r].body
    BY <1>0 DEF Args
  <2>3. to \in {"drop", "room"}
    OBVIOUS
  <2> HIDE DEF a, to
  <2>4. UNCHANGED <<scene, sessions, pvars, stop, sweep>>
    BY <2>1 DEF vvars
  <2>5. sessions' \subseteq Visitors /\ Cardinality(sessions') + packetCount <= scene.max
    BY <1>0, <2>4, Slots DEF Shapes
  <2>6. pc["cleanup"] \notin {"sessions", "done"}
    BY <1>1 DEF Inv, Stopping
  <2>7. Cardinality(packets) < Min2(scene.max, MaxPackets) /\ Cardinality(Provisional) < MaxProvisional
    BY <1>1 DEF PacketRoom
  <2> QED
    BY <1>0, <1>1, <2>1, <2>2, <2>3, <2>4, <2>5, <2>6, <2>7, HandlerHolds
<1>2. CASE ~stop /\ q # None /\ Retry(r)
  BY <1>0, <1>2, RetryInv
<1>3. CASE /\ Goto(r, "find", "idle", NoArg)
           /\ UNCHANGED <<vvars, pvars, packetMu, tMu, stop, sweep>>
  <2>1. UNCHANGED <<scene, sessions, packets, nonces, packetCount, ps, packetMu, tMu, stop, sweep>>
    BY <1>3 DEF vvars, pvars
  <2> QED
    BY <1>3, <2>1, NoArgType, StatesSame, HandlerWorks
<1> QED
  BY <1>1, <1>2, <1>3 DEF Find

\* What holds where the mutexes are held.
LEMMA Holding ==
  ASSUME Inv, NEW r \in Requests, pc[r] \in {"drop", "room"}
  PROVE  /\ packetMu = r /\ tMu = r /\ pc["cleanup"] \notin {"sweep", "sweepDrop", "sessions", "done"}
         /\ arg[r] \in Args /\ arg[r].nonce \in Nonces /\ arg[r].body \in Hellos
         /\ nonces[arg[r].nonce] = None
         /\ Cardinality(packets) < Min2(scene.max, MaxPackets)
         /\ Cardinality(Provisional) < MaxProvisional
<1>1. r \in Procs /\ "cleanup" \in Procs /\ r # "cleanup"
  BY SessionsAssumption DEF Procs
<1>2. packetMu = r /\ tMu = r /\ pc["cleanup"] \notin {"sweep", "sweepDrop", "sessions", "done"}
  BY <1>1 DEF Inv, Mutexes, Stopping
<1> QED
  BY <1>2 DEF Inv, Shapes, Asked

LEMMA DropInv ==
  ASSUME Inv, NEW r \in Requests, Drop(r)
  PROVE  Inv'
<1> DEFINE a == [arg[r] EXCEPT !.v = None]
<1>0. Shapes /\ pc[r] = "drop"
  BY DEF Inv, Drop, Goto, Go
<1>1. /\ Goto(r, "drop", "room", a) /\ CloseVisitors({arg[r].v})
      /\ UNCHANGED <<scene, pvars, packetMu, tMu, stop, sweep>>
  BY DEF Drop
<1>2. a \in Args /\ a.nonce = arg[r].nonce /\ a.body = arg[r].body
  BY <1>0, Holding DEF Args
<1> HIDE DEF a
<1>3. sessions' \subseteq Visitors /\ Cardinality(sessions') + packetCount <= scene.max
  BY <1>0, <1>1, VisitorsClosed, Slots
<1> QED
  BY <1>0, <1>1, <1>2, <1>3, Holding, HandlerHolds

LEMMA OneMore ==
  ASSUME NEW S, NEW x, IsFiniteSet(S), Cardinality(S) \in Nat
  PROVE  Cardinality(S \cup {x}) <= Cardinality(S) + 1
<1>1. Cardinality(S \cup {x}) = IF x \in S THEN Cardinality(S) ELSE Cardinality(S) + 1
  BY FS_AddElement
<1> QED
  BY <1>1

LEMMA CreateInv ==
  ASSUME Inv, NEW r \in Requests, ~Full, Create(r)
  PROVE  Inv'
<1>0. Shapes /\ pc[r] = "room" /\ r \in Procs /\ "cleanup" \in Procs /\ r # "cleanup"
  BY SessionsAssumption DEF Inv, Create, Goto, Go, Procs
<1> DEFINE k == [Unborn EXCEPT !.nonce = arg[r].nonce, !.body = arg[r].body,
                               !.run = "first", !.begin = "flight"]
<1>1. PICK p \in NewPacket :
        /\ ps' = [ps EXCEPT ![p] = k]
        /\ packets' = packets \cup {p}
        /\ nonces' = [nonces EXCEPT ![arg[r].nonce] = p]
        /\ Goto(r, "room", "beginWait", [arg[r] EXCEPT !.p = p])
  BY DEF Create
<1>2. /\ packetCount' = packetCount + 1 /\ tMu' = None /\ packetMu' = None
      /\ UNCHANGED <<scene, sessions, stop, sweep>>
  BY DEF Create, vvars
<1>3. /\ packetMu = r /\ tMu = r /\ pc["cleanup"] \notin {"sweep", "sweepDrop", "sessions", "done"}
      /\ arg[r] \in Args /\ arg[r].nonce \in Nonces /\ arg[r].body \in Hellos
      /\ nonces[arg[r].nonce] = None
      /\ Cardinality(packets) < Min2(scene.max, MaxPackets)
      /\ Cardinality(Provisional) < MaxProvisional
  BY <1>0, Holding
<1>4. p \in Packets /\ ps[p] = Unborn
  BY Slots DEF NewPacket, Fresh
<1>5. Unborn \in PacketStates /\ Unborn.run = "unborn" /\ Unborn.authed = FALSE
      /\ Unborn.closed = FALSE /\ Unborn.authReply = FALSE
  BY DEF Unborn, PacketStates
<1>6. /\ k \in PacketStates /\ k.nonce = arg[r].nonce /\ k.body = arg[r].body /\ k.run = "first"
      /\ k.authed = FALSE /\ k.authReply = FALSE
  BY <1>3, <1>5 DEF PacketStates
<1> HIDE DEF k
<1>7. p \notin packets
  BY <1>4, <1>5 DEF Inv, Born
<1> DEFINE a == [arg[r] EXCEPT !.p = p]
<1>8. a \in Args /\ a.p = p /\ a.nonce = arg[r].nonce /\ a.body = arg[r].body
  BY <1>3, <1>4 DEF Args
<1>9. Goto(r, "room", "beginWait", a)
  BY <1>1
<1> HIDE DEF a
<1>10. /\ pc'[r] = "beginWait"
       /\ \A x \in Procs : x # r => pc'[x] = pc[x]
       /\ arg'[r] = a
       /\ \A y \in Requests : y # r => arg'[y] = arg[y]
       /\ pc' \in [Procs -> Places] /\ arg' \in [Requests -> Args]
  <2>1. "beginWait" \in Places
    BY DEF Places, PacketPlaces
  <2> QED
    BY <1>0, <1>8, <1>9, <2>1, HandlerMoves, ZenonT(60)
<1>11. /\ ps' \in [Packets -> PacketStates] /\ ps'[p] = k
       /\ \A o \in Packets : o # p => ps'[o] = ps[o]
  BY <1>0, <1>1, <1>4, <1>6 DEF Shapes
<1>12. /\ nonces' \in [Nonces -> Packets \cup {None}] /\ nonces'[arg[r].nonce] = p
       /\ \A n \in Nonces : n # arg[r].nonce => nonces'[n] = nonces[n]
  BY <1>0, <1>1, <1>3, <1>4 DEF Shapes
<1>13. packets \subseteq Packets
  BY <1>0 DEF Shapes
<1>14. Shapes'
  BY <1>0, <1>1, <1>2, <1>4, <1>10, <1>11, <1>12 DEF Shapes
<1>15. \A x \in Procs : x # r => pc[x] \notin {"sweep", "sweepDrop", "drop", "room", "visitDrop", "visitRoom"}
  BY <1>3 DEF Inv, Mutexes
<1>16. Mutexes' /\ Sweeping'
  BY <1>10, <1>15 DEF Mutexes, Sweeping
<1>17. Asked'
  BY <1>10, <1>15 DEF Inv, Asked, Procs
<1>18. Cardinality(packets') = Cardinality(packets) + 1
  BY <1>0, <1>1, <1>7, Finite, FS_AddElement
<1>19. Cardinality(Provisional') <= Cardinality(Provisional) + 1
  <2>1. Provisional' = Provisional \cup {p}
    BY <1>1, <1>6, <1>7, <1>11, <1>13 DEF Provisional
  <2>2. IsFiniteSet(Provisional) /\ Cardinality(Provisional) \in Nat
    BY <1>0, Finite
  <2>3. Cardinality(Provisional \cup {p}) <= Cardinality(Provisional) + 1
    BY <2>2, OneMore
  <2> QED
    BY <2>1, <2>3
<1>20. Tables'
  <2>1. Cardinality(sessions') + packetCount' <= scene'.max
    BY <1>2, Slots DEF Full
  <2>2. packetCount' = Cardinality(packets') /\ Cardinality(packets') <= Min2(scene'.max, MaxPackets)
    <3>1. Cardinality(packets) \in Nat /\ scene.max \in Nat /\ MaxPackets \in Nat
      BY <1>0, Finite, Slots, SessionsAssumption
    <3> QED
      BY <1>2, <1>3, <1>18, <3>1 DEF Inv, Tables, Min2
  <2>3. Cardinality(Provisional') <= MaxProvisional
    <3>1. IsFiniteSet(Provisional') /\ Cardinality(Provisional') \in Nat
      <4>1. Provisional' = {o \in packets' : ~ps'[o].authed}
        BY DEF Provisional
      <4>2. IsFiniteSet(packets')
        BY <1>0, <1>1, Finite, FS_AddElement
      <4>3. IsFiniteSet(Provisional')
        BY <4>1, <4>2, FS_Subset
      <4> QED
        BY <4>3, FS_CardinalityType
    <3> QED
      BY <1>0, <1>3, <1>19, <3>1, Finite, SessionsAssumption
  <2>4. \A o \in packets' : ps'[o].nonce \in Nonces /\ nonces'[ps'[o].nonce] = o
    <3> SUFFICES ASSUME NEW o \in packets'
                 PROVE  ps'[o].nonce \in Nonces /\ nonces'[ps'[o].nonce] = o
      OBVIOUS
    <3>1. CASE o = p
      BY <1>3, <1>6, <1>11, <1>12, <3>1
    <3>2. CASE o # p
      <4>1. o \in packets /\ o \in Packets /\ ps'[o] = ps[o]
        BY <1>1, <1>11, <1>13, <3>2
      <4>2. ps[o].nonce \in Nonces /\ nonces[ps[o].nonce] = o
        BY <4>1 DEF Inv, Tables
      <4>3. ps[o].nonce # arg[r].nonce
        BY <1>3, <4>1, <4>2, SessionsAssumption
      <4> QED
        BY <1>12, <4>1, <4>2, <4>3
    <3> QED
      BY <3>1, <3>2
  <2>5. \A n \in Nonces : nonces'[n] # None => nonces'[n] \in packets' /\ ps'[nonces'[n]].nonce = n
    <3> SUFFICES ASSUME NEW n \in Nonces, nonces'[n] # None
                 PROVE  nonces'[n] \in packets' /\ ps'[nonces'[n]].nonce = n
      OBVIOUS
    <3>1. CASE n = arg[r].nonce
      BY <1>1, <1>6, <1>11, <1>12, <3>1
    <3>2. CASE n # arg[r].nonce
      <4>1. nonces'[n] = nonces[n] /\ nonces[n] \in packets /\ ps[nonces[n]].nonce = n
        BY <1>12, <3>2 DEF Inv, Tables
      <4> QED
        BY <1>1, <1>7, <1>11, <1>13, <4>1
    <3> QED
      BY <3>1, <3>2
  <2> QED
    BY <2>1, <2>2, <2>3, <2>4, <2>5 DEF Tables
<1>21. Born'
  BY <1>1, <1>6, <1>11 DEF Inv, Born
<1>22. \A o \in Packets : Credible(ps'[o])
  BY <1>6, <1>11 DEF Inv, Credible
<1>23. Waiting'
  <2> SUFFICES ASSUME NEW y \in Requests
               PROVE  /\ pc'[y] \in {"beginWait", "start", "put", "authWait"} =>
                           arg'[y].p \in Packets /\ ps'[arg'[y].p].run # "unborn"
                      /\ pc'[y] = "beginWait" =>
                           ps'[arg'[y].p].nonce = arg'[y].nonce /\ ps'[arg'[y].p].body = arg'[y].body
                      /\ pc'[y] = "start" => arg'[y].body \in Finishes
                      /\ pc'[y] \in {"put", "authWait"} =>
                           arg'[y].body \in Finishes /\ ps'[arg'[y].p].finish = arg'[y].body
    BY DEF Waiting
  <2>1. CASE y = r
    BY <1>4, <1>6, <1>8, <1>10, <1>11, <2>1
  <2>2. CASE y # r
    <3>1. pc'[y] = pc[y] /\ arg'[y] = arg[y]
      BY <1>10, <2>2 DEF Procs
    <3>2. pc[y] \in {"beginWait", "start", "put", "authWait"} =>
            arg[y].p \in Packets /\ ps[arg[y].p].run # "unborn"
      BY DEF Inv, Waiting
    <3>3. pc[y] \in {"beginWait", "start", "put", "authWait"} => ps'[arg[y].p] = ps[arg[y].p]
      BY <1>4, <1>5, <1>11, <3>2
    <3> QED
      BY <3>1, <3>3 DEF Inv, Waiting
  <2> QED
    BY <2>1, <2>2
<1>24. Stopping'
  <2>1. pc'["cleanup"] = pc["cleanup"]
    BY <1>0, <1>10
  <2> QED
    BY <1>2, <1>3, <2>1 DEF Inv, Stopping
<1> QED
  BY <1>14, <1>16, <1>17, <1>20, <1>21, <1>22, <1>23, <1>24 DEF Inv

LEMMA RoomInv ==
  ASSUME Inv, NEW r \in Requests, Room(r)
  PROVE  Inv'
<1>0. Shapes
  BY DEF Inv
<1>1. ASSUME NEW v \in Oldest, Goto(r, "room", "drop", [arg[r] EXCEPT !.v = v]),
             UNCHANGED <<vvars, pvars, packetMu, tMu, stop, sweep>>
      PROVE  Inv'
  <2> DEFINE a == [arg[r] EXCEPT !.v = v]
  <2>1. pc[r] = "room" /\ v \in Visitors
    BY <1>0, <1>1 DEF Goto, Go, Oldest, Anonymous, Shapes
  <2>2. a \in Args /\ a.nonce = arg[r].nonce /\ a.body = arg[r].body
    BY <2>1, Holding DEF Args
  <2>3. Goto(r, "room", "drop", a)
    BY <1>1
  <2> HIDE DEF a
  <2>4. UNCHANGED <<scene, sessions, pvars, packetMu, tMu, stop, sweep>>
    BY <1>1 DEF vvars
  <2>5. sessions' \subseteq Visitors /\ Cardinality(sessions') + packetCount <= scene.max
    BY <1>0, <2>4, Slots DEF Shapes
  <2> QED
    BY <2>1, <2>2, <2>3, <2>4, <2>5, Holding, HandlerHolds
<1>2. ASSUME Goto(r, "room", "idle", NoArg), tMu' = None, packetMu' = None,
             UNCHANGED <<vvars, pvars, stop, sweep>>
      PROVE  Inv'
  <2>1. pc[r] = "room" /\ UNCHANGED <<scene, sessions, pvars, stop, sweep>>
    BY <1>2 DEF Goto, Go, vvars
  <2>2. Mutexes'
    BY <1>2, <2>1, NoArgType, Holding, MutexesLeft
  <2>3. sessions' \subseteq Visitors /\ Cardinality(sessions') + packetCount <= scene.max
    BY <1>0, <2>1, Slots DEF Shapes
  <2>4. pc["cleanup"] # "done"
    BY <2>1, Holding
  <2> QED
    BY <1>2, <2>1, <2>2, <2>3, <2>4, NoArgType, HandlerLeaves
<1> QED
  BY <1>1, <1>2, CreateInv DEF Room

----------------------------------------------------------------------------
(* Sweeps of the table. *)

\* A sweep starts with packetMu and the whole table ahead of it.
LEMMA SweepInv ==
  ASSUME Inv, NEW x \in Procs, NEW from, Sweep(x, from),
         UNCHANGED <<scene, sessions, pvars, tMu, stop>>,
         arg' \in [Requests -> Args], \A y \in Requests : y # x => arg'[y] = arg[y],
         x \in Requests => arg'[x].nonce \in Nonces /\ arg'[x].body \in Hellos,
         x = "cleanup" => stop
  PROVE  Inv'
<1>0. Shapes /\ \A y \in Procs : y # None
  BY SessionsAssumption DEF Inv, Procs
<1>1. /\ packetMu = None /\ packetMu' = x /\ pc[x] = from /\ pc'[x] = "sweep"
      /\ \A y \in Procs : y # x => pc'[y] = pc[y]
  BY <1>0 DEF Sweep, Go, Shapes
<1>2. sweep' \in [todo : SUBSET Packets, p : Packets \cup {None}] /\ sweep'.todo = packets
  BY <1>0 DEF Sweep, NoSweep, Shapes
<1>3. pc' \in [Procs -> Places]
  BY <1>0 DEF Sweep, Go, Shapes, Places, PacketPlaces
<1>4. UNCHANGED <<scene, sessions, packets, nonces, packetCount, ps, tMu, stop>>
  BY DEF pvars
<1>5. Provisional' = Provisional
  BY <1>4 DEF Provisional
<1>6. Shapes'
  BY <1>0, <1>1, <1>2, <1>3, <1>4 DEF Shapes
<1>7. \A y \in Procs : pc[y] \notin {"sweep", "sweepDrop", "drop", "room"}
  BY <1>0, <1>1 DEF Inv, Mutexes
<1>8. Mutexes'
  BY <1>1, <1>4, <1>7 DEF Inv, Mutexes
<1>9. Sweeping'
  BY <1>1, <1>2, <1>4, <1>7 DEF Sweeping
<1>10. Asked'
  BY <1>1, <1>7 DEF Inv, Asked, Procs
<1>11. Tables' /\ Born' /\ \A p \in Packets : Credible(ps'[p])
  BY <1>4, <1>5 DEF Inv, Tables, Born
<1>12. Waiting'
  BY <1>1, <1>4 DEF Inv, Waiting, Procs
<1>13. Stopping'
  <2>1. "cleanup" \in Procs /\ \A r \in Requests : r \in Procs /\ r # "cleanup"
    BY SessionsAssumption DEF Procs
  <2> QED
    BY <1>1, <1>4, <2>1 DEF Inv, Stopping
<1> QED
  BY <1>6, <1>8, <1>9, <1>10, <1>11, <1>12, <1>13 DEF Inv

LEMMA BeginInv ==
  ASSUME Inv, NEW r \in Requests, Begin(r)
  PROVE  Inv'
<1>1. PICK n \in Nonces, b \in Hellos, v \in sessions \cup {None} :
        /\ Sweep(r, "idle")
        /\ arg' = [arg EXCEPT ![r] = [NoArg EXCEPT !.nonce = n, !.body = b, !.v = v]]
  BY DEF Begin
<1> DEFINE a == [NoArg EXCEPT !.nonce = n, !.body = b, !.v = v]
<1>2. a \in Args /\ a.nonce = n /\ a.body = b
  <2>1. v \in Visitors \cup {None}
    BY DEF Inv, Shapes
  <2> QED
    BY <2>1, NoArgType DEF Args
<1>3. arg' = [arg EXCEPT ![r] = a]
  BY <1>1
<1> HIDE DEF a
<1>4. UNCHANGED <<scene, sessions, pvars, tMu, stop>>
  BY DEF Begin, vvars
<1>5. /\ arg' \in [Requests -> Args] /\ arg'[r] = a
      /\ \A y \in Requests : y # r => arg'[y] = arg[y]
  BY <1>2, <1>3 DEF Inv, Shapes
<1>6. r \in Procs /\ r # "cleanup"
  BY SessionsAssumption DEF Procs
<1> QED
  BY <1>1, <1>2, <1>4, <1>5, <1>6, SweepInv

LEMMA TickInv ==
  ASSUME Inv, Tick \/ CleanupJoin
  PROVE  Inv'
<1>1. \A y \in {"tick", "cleanup"} : y \in Procs /\ y \notin Requests
  BY SessionsAssumption DEF Procs
<1>2. UNCHANGED <<scene, sessions, pvars, tMu, stop, arg>>
  BY DEF Tick, CleanupJoin, vvars
<1>3. arg' \in [Requests -> Args] /\ \A y \in Requests : arg'[y] = arg[y]
  BY <1>2 DEF Inv, Shapes
<1>4. CASE Tick
  BY <1>1, <1>2, <1>3, <1>4, SweepInv DEF Tick
<1>5. CASE CleanupJoin
  <2>1. stop
    BY <1>5 DEF CleanupJoin, Sweep, Go, Inv, Stopping
  <2> QED
    BY <1>1, <1>2, <1>3, <1>5, <2>1, SweepInv DEF CleanupJoin
<1> QED
  BY <1>4, <1>5

LEMMA SweepLookInv ==
  ASSUME Inv, NEW x \in Procs, SweepLook(x)
  PROVE  Inv'
<1>0. Shapes
  BY DEF Inv
<1>1. PICK p \in sweep.todo :
        \/ Go(x, "sweep", "sweepDrop") /\ sweep' = [todo |-> sweep.todo \ {p}, p |-> p]
        \/ /\ x # "cleanup"
           /\ Go(x, "sweep", "sweep") /\ sweep' = [sweep EXCEPT !.todo = @ \ {p}]
  BY DEF SweepLook
<1>2. UNCHANGED <<scene, sessions, packets, nonces, packetCount, ps, packetMu, tMu, stop, arg>>
  BY DEF SweepLook, vvars, pvars
<1>3. /\ pc[x] = "sweep" /\ pc'[x] \in {"sweep", "sweepDrop"}
      /\ \A y \in Procs : y # x => pc'[y] = pc[y]
      /\ x = "cleanup" => pc'[x] = "sweepDrop"
      /\ pc' \in [Procs -> Places]
  BY <1>0, <1>1 DEF Go, Shapes, Places, PacketPlaces
<1>4. /\ sweep' \in [todo : SUBSET Packets, p : Packets \cup {None}]
      /\ sweep'.todo = sweep.todo \ {p}
      /\ pc'[x] = "sweepDrop" => sweep'.p = p
  BY <1>0, <1>1 DEF Go, Shapes
<1>5. Provisional' = Provisional
  BY <1>2 DEF Provisional
<1>6. \A y \in Procs : y # x => pc[y] \notin {"sweep", "sweepDrop", "drop", "room"}
  BY <1>3 DEF Inv, Mutexes
<1>7. Shapes'
  BY <1>0, <1>2, <1>3, <1>4 DEF Shapes
<1>8. Mutexes'
  BY <1>2, <1>3 DEF Inv, Mutexes
<1>9. Sweeping'
  BY <1>2, <1>3, <1>4, <1>6 DEF Inv, Sweeping
<1>10. Asked'
  BY <1>2, <1>3, <1>5 DEF Inv, Asked, Procs
<1>11. Tables' /\ Born' /\ \A o \in Packets : Credible(ps'[o])
  BY <1>2, <1>5 DEF Inv, Tables, Born
<1>12. Waiting'
  BY <1>2, <1>3 DEF Inv, Waiting, Procs
<1>13. Stopping'
  <2>1. "cleanup" \in Procs /\ \A r \in Requests : r \in Procs
    BY DEF Procs
  <2> QED
    BY <1>2, <1>3, <2>1 DEF Inv, Stopping
<1> QED
  BY <1>7, <1>8, <1>9, <1>10, <1>11, <1>12, <1>13 DEF Inv

LEMMA EndedKeeps ==
  ASSUME NEW q \in PacketStates
  PROVE  Keeps(q, Ended(q)) /\ Ended(q).closed
<1> DEFINE c == Closed(q)
           z == IF c.state = "open" THEN "closed" ELSE c.state
           k == [c EXCEPT !.closing = FALSE, !.state = z]
<1>1. /\ c \in PacketStates
      /\ c.nonce = q.nonce /\ c.body = q.body /\ c.run = q.run /\ c.finish = q.finish
      /\ c.authed = q.authed /\ c.closed = TRUE /\ (c.authReply => q.authReply)
  BY ClosedState
<1>2. Ended(q) = k
  BY DEF Ended
<1> HIDE DEF c
<1>z. z \in {"none", "open", "closed"}
  BY <1>1 DEF PacketStates
<1> HIDE DEF z
<1>3. k \in PacketStates
  BY <1>1, <1>z, ZenonT(60) DEF PacketStates
<1>4. /\ k.nonce = c.nonce /\ k.body = c.body /\ k.run = c.run /\ k.finish = c.finish
      /\ k.authed = c.authed /\ k.closed = TRUE /\ k.authReply = c.authReply
  BY <1>1 DEF PacketStates
<1> HIDE DEF k
<1>5. Keeps(q, k)
  BY <1>1, <1>3, <1>4 DEF Keeps, Credible
<1> QED
  BY <1>2, <1>4, <1>5

LEMMA SweepDropInv ==
  ASSUME Inv, NEW x \in Procs, SweepDrop(x)
  PROVE  Inv'
<1> DEFINE p == sweep.p
           q == ps[p]
           k == IF q.closed THEN q ELSE Ended(q)
<1>0. Shapes
  BY DEF Inv
<1>1. /\ pc[x] = "sweepDrop" /\ pc'[x] = "sweep"
      /\ \A y \in Procs : y # x => pc'[y] = pc[y]
      /\ pc' \in [Procs -> Places]
  BY <1>0 DEF SweepDrop, Go, Shapes, Places, PacketPlaces
<1>2. /\ UNCHANGED <<scene, sessions, packetMu, tMu, stop, arg>>
      /\ packets' = packets \ {p} /\ packetCount' = packetCount - 1
      /\ nonces' = [nonces EXCEPT ![q.nonce] = None]
      /\ ps' = [ps EXCEPT ![p] = k]
      /\ sweep' = [sweep EXCEPT !.p = None]
  BY DEF SweepDrop, vvars
<1>3. p \in packets /\ p \in Packets /\ p \notin sweep.todo
  BY <1>0, <1>1 DEF Inv, Sweeping, Shapes
<1>4. q \in PacketStates /\ q.nonce \in Nonces /\ nonces[q.nonce] = p /\ q.run # "unborn"
  BY <1>0, <1>3 DEF Shapes, Inv, Tables, Born
<1>5. Keeps(q, k) /\ k.closed
  <2>1. Keeps(q, q)
    BY <1>4 DEF Keeps
  <2> QED
    BY <1>4, <2>1, EndedKeeps
<1>6. /\ sweep' \in [todo : SUBSET Packets, p : Packets \cup {None}]
      /\ sweep'.todo = sweep.todo
  BY <1>0, <1>2 DEF Shapes
<1> HIDE DEF k, p, q
<1>7. k \in PacketStates
  BY <1>5 DEF Keeps
<1>8. /\ ps' \in [Packets -> PacketStates] /\ ps'[p] = k
      /\ \A o \in Packets : o # p => ps'[o] = ps[o]
  BY <1>0, <1>2, <1>3, <1>7 DEF Shapes
<1>9. \A o \in Packets : Keeps(ps[o], ps'[o])
  <2>1. \A o \in PacketStates : Keeps(o, o)
    BY DEF Keeps
  <2>2. Keeps(ps[p], ps'[p])
    BY <1>5, <1>8 DEF q
  <2> QED
    BY <1>0, <1>8, <2>1, <2>2 DEF Shapes
<1>10. /\ nonces' \in [Nonces -> Packets \cup {None}] /\ nonces'[q.nonce] = None
       /\ \A n \in Nonces : n # q.nonce => nonces'[n] = nonces[n]
  BY <1>0, <1>2, <1>4 DEF Shapes
<1>11. packets \subseteq Packets
  BY <1>0 DEF Shapes
<1>12. Shapes'
  BY <1>0, <1>1, <1>2, <1>6, <1>8, <1>10 DEF Shapes
<1>13. \A y \in Procs : y # x => pc[y] \notin {"sweep", "sweepDrop", "drop", "room"}
  BY <1>1 DEF Inv, Mutexes
<1>14. Mutexes'
  BY <1>1, <1>2 DEF Inv, Mutexes
<1>15. Sweeping'
  BY <1>1, <1>2, <1>3, <1>6, <1>13 DEF Inv, Sweeping, p
<1>16. Asked'
  BY <1>1, <1>2, <1>13 DEF Inv, Asked, Procs
<1>17. Cardinality(packets') = Cardinality(packets) - 1 /\ Cardinality(packets) \in Nat \ {0}
  <2>1. IsFiniteSet(packets) /\ Cardinality(packets) \in Nat
    BY <1>0, Finite
  <2>2. Cardinality(packets \ {p}) = Cardinality(packets) - 1
    BY <1>3, <2>1, FS_RemoveElement
  <2>3. IsFiniteSet(packets \ {p}) /\ Cardinality(packets \ {p}) \in Nat
    BY <2>1, FS_RemoveElement, FS_CardinalityType
  <2> QED
    BY <1>2, <2>1, <2>2, <2>3
<1>18. Cardinality(Provisional') <= Cardinality(Provisional) /\ Cardinality(Provisional') \in Nat
  <2>1. Provisional' \subseteq Provisional
    BY <1>2, <1>8, <1>11 DEF Provisional
  <2>2. IsFiniteSet(Provisional)
    BY <1>0, Finite
  <2> QED
    BY <2>1, <2>2, FS_Subset, FS_CardinalityType
<1>19. Tables'
  <2>1. Cardinality(sessions') + packetCount' <= scene'.max
    BY <1>2, Slots
  <2>2. packetCount' = Cardinality(packets') /\ Cardinality(packets') <= Min2(scene'.max, MaxPackets)
    <3>1. scene.max \in Nat /\ MaxPackets \in Nat
      BY Slots, SessionsAssumption
    <3> QED
      BY <1>2, <1>17, <3>1 DEF Inv, Tables, Min2
  <2>3. Cardinality(Provisional') <= MaxProvisional
    <3>1. Cardinality(Provisional) \in Nat /\ Cardinality(Provisional) <= MaxProvisional
      BY <1>0, Finite DEF Inv, Tables
    <3> QED
      BY <1>18, <3>1, SessionsAssumption
  <2>4. \A o \in packets' : ps'[o].nonce \in Nonces /\ nonces'[ps'[o].nonce] = o
    <3> SUFFICES ASSUME NEW o \in packets'
                 PROVE  ps'[o].nonce \in Nonces /\ nonces'[ps'[o].nonce] = o
      OBVIOUS
    <3>1. o \in packets /\ o \in Packets /\ o # p /\ ps'[o] = ps[o]
      BY <1>2, <1>8, <1>11
    <3>2. ps[o].nonce \in Nonces /\ nonces[ps[o].nonce] = o
      BY <3>1 DEF Inv, Tables
    <3> QED
      BY <1>4, <1>10, <3>1, <3>2
  <2>5. \A n \in Nonces : nonces'[n] # None => nonces'[n] \in packets' /\ ps'[nonces'[n]].nonce = n
    <3> SUFFICES ASSUME NEW n \in Nonces, nonces'[n] # None
                 PROVE  nonces'[n] \in packets' /\ ps'[nonces'[n]].nonce = n
      OBVIOUS
    <3>1. n # q.nonce /\ nonces'[n] = nonces[n]
      BY <1>10
    <3>2. nonces[n] \in packets /\ ps[nonces[n]].nonce = n
      BY <3>1 DEF Inv, Tables
    <3>3. nonces[n] # p
      BY <3>1, <3>2 DEF q
    <3> QED
      BY <1>2, <1>8, <1>11, <3>1, <3>2, <3>3
  <2> QED
    BY <2>1, <2>2, <2>3, <2>4, <2>5 DEF Tables
<1>20. Born'
  BY <1>2, <1>5, <1>8, <1>9, <1>11 DEF Inv, Born, Keeps
<1>21. \A o \in Packets : Credible(ps'[o])
  BY <1>9 DEF Inv, Keeps
<1>22. Waiting'
  <2> SUFFICES ASSUME NEW y \in Requests
               PROVE  /\ pc[y] \in {"beginWait", "start", "put", "authWait"} =>
                           arg[y].p \in Packets /\ ps'[arg[y].p].run # "unborn"
                      /\ pc[y] = "beginWait" =>
                           ps'[arg[y].p].nonce = arg[y].nonce /\ ps'[arg[y].p].body = arg[y].body
                      /\ pc[y] = "start" => arg[y].body \in Finishes
                      /\ pc[y] \in {"put", "authWait"} =>
                           arg[y].body \in Finishes /\ ps'[arg[y].p].finish = arg[y].body
    BY <1>1, <1>2 DEF Waiting, Procs
  <2>1. /\ pc[y] \in {"beginWait", "start", "put", "authWait"} =>
             arg[y].p \in Packets /\ ps[arg[y].p].run # "unborn"
        /\ pc[y] = "beginWait" =>
             ps[arg[y].p].nonce = arg[y].nonce /\ ps[arg[y].p].body = arg[y].body
        /\ pc[y] = "start" => arg[y].body \in Finishes
        /\ pc[y] \in {"put", "authWait"} =>
             arg[y].body \in Finishes /\ ps[arg[y].p].finish = arg[y].body
    BY DEF Inv, Waiting
  <2>2. arg[y].p \in Packets => Keeps(ps[arg[y].p], ps'[arg[y].p])
    BY <1>9
  <2> QED
    BY <2>1, <2>2, SessionsAssumption DEF Keeps
<1>23. Stopping'
  <2>1. "cleanup" \in Procs /\ \A r \in Requests : r \in Procs
    BY DEF Procs
  <2> QED
    BY <1>1, <1>2, <2>1 DEF Inv, Stopping
<1> QED
  BY <1>12, <1>14, <1>15, <1>16, <1>19, <1>20, <1>21, <1>22, <1>23 DEF Inv

\* A process moves, and neither tables nor sessions change with it.
LEMMA SweepEndInv ==
  ASSUME Inv, NEW x \in Procs, SweepEnd(x)
  PROVE  Inv'
<1> DEFINE to == CASE x = "tick" -> "visitors" [] x = "cleanup" -> "sessions" [] OTHER -> "find"
<1>0. Shapes
  BY DEF Inv
<1>1. /\ sweep.todo = {} /\ Go(x, "sweep", to) /\ packetMu' = None
      /\ UNCHANGED <<scene, sessions, packets, nonces, packetCount, ps, tMu, stop, arg, sweep>>
  BY DEF SweepEnd, vvars, pvars
<1>2. /\ to \in {"visitors", "sessions", "find"} /\ to \in Places
      /\ to = "find" => x \in Requests
      /\ to = "sessions" <=> x = "cleanup"
  BY DEF Places, PacketPlaces, Procs
<1> HIDE DEF to
<1>3. /\ pc[x] = "sweep" /\ pc'[x] = to
      /\ \A y \in Procs : y # x => pc'[y] = pc[y]
      /\ pc' \in [Procs -> Places]
  BY <1>0, <1>1, <1>2 DEF Go, Shapes
<1>4. \A y \in Procs : y # x => pc[y] \notin {"sweep", "sweepDrop", "drop", "room"}
  BY <1>3 DEF Inv, Mutexes
<1>5. Provisional' = Provisional
  BY <1>1 DEF Provisional
<1>6. Shapes'
  BY <1>0, <1>1, <1>3 DEF Shapes
<1>7. Mutexes'
  BY <1>1, <1>2, <1>3, <1>4 DEF Inv, Mutexes
<1>8. Sweeping'
  BY <1>1, <1>2, <1>3, <1>4 DEF Sweeping
<1>9. Asked'
  BY <1>1, <1>2, <1>3, <1>4, <1>5 DEF Inv, Asked, Procs
<1>10. Tables' /\ Born' /\ \A o \in Packets : Credible(ps'[o])
  BY <1>1, <1>5 DEF Inv, Tables, Born
<1>11. Waiting'
  BY <1>1, <1>2, <1>3 DEF Inv, Waiting, Procs
<1>12. Stopping'
  <2>1. "cleanup" \in Procs /\ \A r \in Requests : r \in Procs
    BY DEF Procs
  <2>2. x = "cleanup" => packets = {} /\ stop /\ \A r \in Requests : pc'[r] \notin {"drop", "room"}
    BY <1>1, <1>2, <1>3, <1>4, <2>1 DEF Inv, Sweeping, Stopping
  <2> QED
    BY <1>1, <1>2, <1>3, <2>1, <2>2 DEF Inv, Stopping
<1> QED
  BY <1>6, <1>7, <1>8, <1>9, <1>10, <1>11, <1>12 DEF Inv

----------------------------------------------------------------------------
(* Expiry of visitors and shutdown. *)

\* The ticker or Cleanup moves outside the mutexes, and visitors may go.
LEMMA MoverInv ==
  ASSUME Inv, NEW x \in {"tick", "cleanup"}, NEW from,
         NEW to \in {"idle", "join", "done"}, Go(x, from, to),
         UNCHANGED <<scene, pvars, packetMu, tMu, arg, sweep>>, stop' \in BOOLEAN, stop => stop',
         sessions' \subseteq sessions,
         x = "cleanup" => to # "idle" /\ stop',
         to = "done" => x = "cleanup" /\ from = "sessions" /\ tMu = None /\ sessions' = {}
  PROVE  Inv'
<1>0. /\ Shapes /\ x \in Procs /\ "cleanup" \in Procs /\ to \in Places
      /\ \A r \in Requests : r \in Procs /\ r # x /\ r # None
  BY SessionsAssumption DEF Inv, Procs, Places
<1>1. /\ pc[x] = from /\ pc'[x] = to
      /\ \A y \in Procs : y # x => pc'[y] = pc[y]
      /\ pc' \in [Procs -> Places]
  BY <1>0 DEF Go, Shapes
<1>2. UNCHANGED <<scene, packets, nonces, packetCount, ps, packetMu, tMu, arg, sweep>>
  BY DEF pvars
<1>3. Provisional' = Provisional
  BY <1>2 DEF Provisional
<1>4. Cardinality(sessions') \in Nat /\ Cardinality(sessions') <= Cardinality(sessions)
  <2>1. IsFiniteSet(sessions)
    BY <1>0, Finite
  <2> QED
    BY <2>1, FS_Subset, FS_CardinalityType
<1>5. Shapes'
  BY <1>0, <1>1, <1>2 DEF Shapes
<1>6. Mutexes' /\ Sweeping'
  BY <1>1, <1>2 DEF Inv, Mutexes, Sweeping
<1>7. Asked'
  BY <1>0, <1>1, <1>2, <1>3 DEF Inv, Asked
<1>8. Tables'
  <2>1. Cardinality(sessions') + packetCount' <= scene'.max
    BY <1>2, <1>4, Slots
  <2> QED
    BY <1>2, <1>3, <2>1 DEF Inv, Tables
<1>9. Born' /\ \A o \in Packets : Credible(ps'[o])
  BY <1>2 DEF Inv, Born
<1>10. Waiting'
  BY <1>0, <1>1, <1>2 DEF Inv, Waiting
<1>11. Stopping'
  <2>1. tMu = None => \A r \in Requests : pc[r] \notin {"visitDrop", "visitRoom"}
    BY <1>0 DEF Inv, Mutexes
  <2>2. pc'["cleanup"] # "idle" => stop'
    BY <1>0, <1>1 DEF Inv, Stopping
  <2>3. pc'["cleanup"] \in {"sessions", "done"} => pc["cleanup"] \in {"sessions", "done"}
    BY <1>0, <1>1
  <2>4. pc'["cleanup"] = "done" => pc["cleanup"] = "done" \/ (tMu = None /\ sessions' = {})
    BY <1>0, <1>1
  <2> QED
    BY <1>0, <1>1, <1>2, <2>1, <2>2, <2>3, <2>4 DEF Inv, Stopping
<1> QED
  BY <1>5, <1>6, <1>7, <1>8, <1>9, <1>10, <1>11 DEF Inv

LEMMA ExpiryInv ==
  ASSUME Inv, ExpireVisitors \/ Cleanup \/ CleanupSessions
  PROVE  Inv'
<1>0. Shapes /\ stop \in BOOLEAN
  BY DEF Inv, Shapes
<1>1. CASE ExpireVisitors
  <2>1. /\ Go("tick", "visitors", "idle") /\ UNCHANGED <<scene, pvars, packetMu, tMu, stop, arg, sweep>>
        /\ sessions' \subseteq sessions
    BY <1>1 DEF ExpireVisitors, CloseVisitors
  <2> QED
    BY <1>0, <2>1, MoverInv
<1>2. CASE Cleanup
  <2>1. /\ Go("cleanup", "idle", "join") /\ stop' = TRUE
        /\ UNCHANGED <<scene, sessions, pvars, packetMu, tMu, arg, sweep>>
    BY <1>2 DEF Cleanup, vvars
  <2> QED
    BY <1>0, <2>1, MoverInv
<1>3. CASE CleanupSessions
  <2>1. /\ Go("cleanup", "sessions", "done") /\ tMu = None
        /\ UNCHANGED <<scene, pvars, packetMu, tMu, stop, arg, sweep>>
        /\ sessions' = {}
    BY <1>3 DEF CleanupSessions, CloseVisitors
  <2>2. stop
    BY <2>1 DEF Go, Inv, Stopping
  <2> QED
    BY <1>0, <2>1, <2>2, MoverInv
<1> QED
  BY <1>1, <1>2, <1>3

----------------------------------------------------------------------------
(* Theorems. *)

LEMMA InitInv == Init => Inv
<1> SUFFICES ASSUME Init PROVE Inv
  OBVIOUS
<1>1. Unborn \in PacketStates /\ Unborn.run = "unborn" /\ Unborn.authed = FALSE /\ Unborn.authReply = FALSE
  BY DEF Unborn, PacketStates
<1>2. Shapes
  <2>1. sweep \in [todo : SUBSET Packets, p : Packets \cup {None}]
    BY DEF Init, NoSweep
  <2>2. ps \in [Packets -> PacketStates]
    BY <1>1 DEF Init
  <2>3. arg \in [Requests -> Args] /\ pc \in [Procs -> Places]
    BY NoArgType DEF Init, Places
  <2> QED
    BY <2>1, <2>2, <2>3 DEF Init, Shapes
<1>3. \A x \in Procs : pc[x] = "idle"
  BY DEF Init
<1>4. \A r \in Requests : r \in Procs
  BY DEF Procs
<1>5. Mutexes /\ Sweeping /\ Asked /\ Waiting
  BY <1>3, <1>4 DEF Mutexes, Sweeping, Asked, Waiting
<1>6. Tables
  <2>1. Provisional = {} /\ packets = {} /\ sessions = {} /\ packetCount = 0
    BY DEF Init, Provisional
  <2>2. Cardinality({}) = 0
    BY FS_EmptySet
  <2>3. scene.max \in Nat /\ MaxPackets \in Nat /\ MaxProvisional \in Nat
    BY <1>2, SessionsAssumption DEF Shapes
  <2>4. Cardinality(Provisional) = 0 /\ Cardinality(packets) = 0 /\ Cardinality(sessions) = 0
    BY <2>1, <2>2
  <2> QED
    BY <2>1, <2>3, <2>4 DEF Init, Tables, Min2
<1>7. Born /\ \A p \in Packets : Credible(ps[p])
  BY <1>1 DEF Init, Born, Credible
<1>8. Stopping
  BY <1>3 DEF Stopping, Procs
<1> QED
  BY <1>2, <1>5, <1>6, <1>7, <1>8 DEF Inv

LEMMA StepInv == Inv /\ [Next]_vars => Inv'
<1> SUFFICES ASSUME Inv, [Next]_vars PROVE Inv'
  OBVIOUS
<1>1. ASSUME NEW r \in Requests, Handler(r) \/ Request(r) PROVE Inv'
  BY <1>1, VisitorInv, FindInv, DropInv, RoomInv, WaitInv, StartInv, PutFinishInv, BeginInv, AuthInv
     DEF Handler, Request
<1>2. ASSUME NEW x \in Procs, Sweeper(x) PROVE Inv'
  BY <1>2, SweepLookInv, SweepDropInv, SweepEndInv DEF Sweeper
<1>3. ASSUME NEW p \in Packets, Goroutine(p) \/ RunFirst(p) \/ RunFails(p) \/ HandlerCloses(p) PROVE Inv'
  BY <1>3, GoroutineInv
<1>4. CASE Tick \/ ExpireVisitors \/ Cleanup \/ Shutdown
  BY <1>4, TickInv, ExpiryInv DEF Shutdown
<1>5. CASE UNCHANGED vars
  <2>1. /\ UNCHANGED <<scene, sessions, packets, nonces, packetCount, ps>>
        /\ UNCHANGED <<packetMu, tMu, stop, pc, arg, sweep>>
    BY <1>5 DEF vars
  <2>2. Provisional' = Provisional
    BY <2>1 DEF Provisional
  <2> QED
    BY <2>1, <2>2 DEF Inv, Shapes, Mutexes, Sweeping, Asked, Tables, Born, Waiting, Stopping
<1> QED
  BY <1>1, <1>2, <1>3, <1>4, <1>5 DEF Next

\* The inductive invariant.
THEOREM Invariance == Spec => []Inv
  BY InitInv, StepInv, PTL DEF Spec

\* Reservations are exact, however page visits, packet setup, sweeps and
\* Cleanup interleave: no limit is passed, and the tables agree with each
\* other and with packetCount.
THEOREM ReservationsAreExact == Spec => []ReservationsExact
<1>1. Inv => ReservationsExact
  BY DEF Inv, Tables, ReservationsExact
<1> QED
  BY <1>1, Invariance, PTL

\* A setup POST is answered 200 only with the body its session has, and an
\* AUTH only for a session whose credentials were verified.
THEOREM RetriesDoAgree == Spec => []RetriesAgree
<1>1. Inv => RetriesAgree
  <2> SUFFICES ASSUME Inv, NEW r \in Requests
               PROVE  /\ pc[r] = "beginWait" =>
                           ps[arg[r].p].nonce = arg[r].nonce /\ ps[arg[r].p].body = arg[r].body
                      /\ pc[r] = "authWait" /\ ps[arg[r].p].authReply =>
                           /\ ps[arg[r].p].authed /\ ps[arg[r].p].finish = arg[r].body
                           /\ ps[arg[r].p].finish \in Valid
    BY DEF RetriesAgree
  <2>1. pc[r] = "authWait" => arg[r].p \in Packets
    BY DEF Inv, Waiting
  <2> QED
    BY <2>1 DEF Inv, Waiting, Credible
<1> QED
  BY <1>1, Invariance, PTL

\* Once Cleanup has returned both tables are empty for good and every packet
\* session ever made is closed.
THEOREM ShutdownIsFinal == Spec => []ShutdownFinal
<1>1. Inv => ShutdownFinal
  <2> SUFFICES ASSUME Inv, pc["cleanup"] = "done"
               PROVE  /\ sessions = {} /\ packets = {} /\ packetCount = 0
                      /\ \A p \in Packets : ps[p].run # "unborn" => ps[p].closed
    BY DEF ShutdownFinal
  <2>1. sessions = {} /\ packets = {}
    BY DEF Inv, Stopping
  <2>2. packetCount = 0
    BY <2>1, FS_EmptySet DEF Inv, Tables
  <2>3. \A p \in Packets : ps[p].run # "unborn" => ps[p].closed
    BY <2>1 DEF Inv, Born
  <2> QED
    BY <2>1, <2>2, <2>3
<1> QED
  BY <1>1, Invariance, PTL

\* Only VisitDrop takes a handler away from the place before it.
LEMMA OnlyVisitDrop ==
  ASSUME Shapes, NEW r \in Requests, pc[r] = "visitDrop", pc'[r] # "visitDrop", Next
  PROVE  VisitDrop(r)
<1>1. pc \in [Procs -> Places] /\ r \in Procs /\ r # "tick" /\ r # "cleanup"
  BY SessionsAssumption DEF Shapes, Procs
<1>2. \A x \in Procs : \A from, to : Go(x, from, to) => from = "visitDrop" /\ x = r
  BY <1>1 DEF Go
<1>3. \A y \in Requests : \A from, to, a : Goto(y, from, to, a) => from = "visitDrop" /\ y = r
  BY <1>2 DEF Goto, Procs
<1>4. ASSUME NEW y \in Requests, Handler(y) \/ Request(y) PROVE VisitDrop(r)
  <2>1. CASE Begin(y)
    BY <1>2, <2>1 DEF Begin, Sweep, Procs
  <2>2. CASE VisitDrop(y)
    BY <1>3, <2>2 DEF VisitDrop
  <2>3. CASE VisitRoom(y) \/ Visit(y)
    <3>1. \E from \in {"idle", "visitRoom"} : \E to : Go(y, from, to)
      BY <2>3 DEF VisitRoom, Visit, Admit, Goto
    <3> QED
      BY <1>2, <3>1 DEF Procs
  <2>4. CASE Find(y)
    BY <1>3, <2>4 DEF Find, Reserve, Retry
  <2>5. CASE Room(y)
    <3>1. \E to : Go(y, "room", to)
      BY <2>5 DEF Room, Create, Goto
    <3> QED
      BY <1>2, <3>1 DEF Procs
  <2>6. CASE Lookup(y) \/ Auth(y)
    <3>1. \E to : Go(y, "idle", to)
      BY <2>6 DEF Lookup, Auth, Goto
    <3> QED
      BY <1>2, <3>1 DEF Procs
  <2>7. CASE Start(y)
    BY <1>1, <2>7 DEF Start, Goto, Go
  <2>8. CASE PutFinish(y)
    <3>1. \E to : Go(y, "put", to)
      BY <2>8 DEF PutFinish, Goto
    <3> QED
      BY <1>2, <3>1 DEF Procs
  <2>9. CASE Commit(y) \/ Drop(y) \/ BeginWait(y) \/ AuthWait(y) \/ Abandon(y)
    BY <1>3, <2>9 DEF Commit, Drop, BeginWait, AuthWait, Abandon
  <2> QED
    BY <1>4, <2>1, <2>2, <2>3, <2>4, <2>5, <2>6, <2>7, <2>8, <2>9 DEF Handler, Request
<1>5. ASSUME NEW x \in Procs, Sweeper(x) PROVE VisitDrop(r)
  BY <1>2, <1>5 DEF Sweeper, SweepLook, SweepDrop, SweepEnd
<1>6. ASSUME NEW p \in Packets, Goroutine(p) \/ RunFirst(p) \/ RunFails(p) \/ HandlerCloses(p)
      PROVE  VisitDrop(r)
  BY <1>6, GoroutineKeeps
<1>7. CASE Tick \/ ExpireVisitors \/ Cleanup \/ Shutdown
  <2>1. "tick" \in Procs /\ "cleanup" \in Procs
    BY DEF Procs
  <2> QED
    BY <1>1, <1>2, <1>7, <2>1 DEF Tick, ExpireVisitors, Cleanup, Shutdown, CleanupJoin, CleanupSessions, Sweep
<1> QED
  BY <1>4, <1>5, <1>6, <1>7 DEF Next

\* A page visit at the limit looks at authed again before it evicts: the
\* session it chose stays if its AUTH was committed meanwhile, and so does
\* every other authenticated one.
THEOREM VisitsSpare == Spec => VisitsSpareAuthenticated
<1>1. Inv /\ [Next]_vars => [Spared("visitDrop")]_vars
  <2> SUFFICES ASSUME Inv, Next, NEW r \in Requests, NEW v \in sessions,
                      pc[r] = "visitDrop", pc'[r] # "visitDrop", visitor[v] = "authed"
               PROVE  v \in sessions'
    BY DEF Spared
  <2>1. VisitDrop(r)
    BY OnlyVisitDrop DEF Inv
  <2> QED
    BY <2>1 DEF VisitDrop, CloseVisitors
<1> QED
  BY <1>1, Invariance, PTL DEF Spec, VisitsSpareAuthenticated
=============================================================================
