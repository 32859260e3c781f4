------------------------------ MODULE Upstream ------------------------------
(***************************************************************************)
(* One connection to an upstream proxy (upstream.go): its setup, bounded   *)
(* by a context that closes the socket when it ends, and the HTTP/2 tunnel *)
(* handed out, whose deadlines are timers that close it.                   *)
(*                                                                         *)
(* The setup runs beside the callback of context.AfterFunc; the user of    *)
(* the tunnel runs beside the callbacks of time.AfterFunc.  What goes over *)
(* the socket is left out: a phase of the handshake succeeds, fails or     *)
(* waits for the proxy.                                                    *)
(***************************************************************************)
EXTENDS Naturals, FiniteSets

CONSTANTS
  Schemes,  \* of the upstream URL: "http", "https", "socks5"
  MaxSets   \* bound: calls of setDeadline for each direction

Sides == {"read", "write"}

ASSUME UpstreamAssumption == Schemes \subseteq {"http", "https", "socks5"} /\ MaxSets \in Nat

VARIABLES
  scheme, timeout,  \* of this call; the setup's deadline: "none", its own or its caller's
  pc,       \* of dialUpstreamTLS
  setupCtx, \* "live" or "done"
  after,    \* its AfterFunc: "none", "armed", "running", "ran" or "stopped"
  raw,      \* the TCP connection: "none", "open" or "closed"
  deadline, \* raw has the deadline of the setup
  result,   \* "none", "conn" or "h2"
  failed,   \* resultErr is not nil
  user,     \* the user has closed the connection
  closed, timer, generation, expired,  \* fields of upstreamH2Conn
  fired,    \* callbacks of timers that have started: <<side, generation>>
  closing,  \* one of them has found its deadline current and calls Close
  want      \* history: side -> the deadline last asked for: "none", "set" or "lapsed"
svars == <<pc, setupCtx, after, deadline, result, failed>>
tvars == <<closed, timer, generation, expired, fired, closing, want>>
vars == <<scheme, timeout, raw, user, svars, tvars>>

Init ==
  /\ scheme \in Schemes /\ timeout \in {"none", "own", "caller"} /\ pc = "dial" /\ setupCtx = "live" /\ after = "none"
  /\ raw = "none" /\ deadline = FALSE /\ result = "none" /\ failed = FALSE /\ user = FALSE
  /\ closed = FALSE /\ timer = [s \in Sides |-> 0] /\ generation = [s \in Sides |-> 0]
  /\ expired = [s \in Sides |-> FALSE] /\ fired = {} /\ closing = FALSE
  /\ want = [s \in Sides |-> "none"]

-----------------------------------------------------------------------------
(* The setup context and the callback that closes the socket. *)

\* The timeout passes or the caller gives up, during the setup or after it.
CtxDone ==
  /\ setupCtx = "live" /\ setupCtx' = "done"
  /\ UNCHANGED <<scheme, timeout, raw, user, pc, after, deadline, result, failed, tvars>>

AfterStarts ==
  /\ after = "armed" /\ setupCtx = "done" /\ after' = "running"
  /\ UNCHANGED <<scheme, timeout, raw, user, pc, setupCtx, deadline, result, failed, tvars>>

AfterCloses ==
  /\ after = "running" /\ after' = "ran" /\ raw' = "closed"
  /\ UNCHANGED <<scheme, timeout, user, pc, setupCtx, deadline, result, failed, tvars>>

-----------------------------------------------------------------------------
(* dialUpstreamTLS. *)

SetupSame == UNCHANGED <<scheme, timeout, user, setupCtx, tvars>>

\* The deferred function is not there yet when the dial fails.
Dial(ok) ==
  /\ pc = "dial" /\ pc' = IF ok THEN "guard" ELSE "done"
  /\ raw' = (IF ok THEN "open" ELSE "none") /\ failed' = ~ok
  /\ UNCHANGED <<after, deadline, result>> /\ SetupSame

\* Defective variant: only a setup with a timeout is guarded.
GuardTimeout ==
  /\ pc = "guard" /\ pc' = "deadline" /\ after' = IF timeout = "own" THEN "armed" ELSE "stopped"
  /\ UNCHANGED <<raw, deadline, result, failed>> /\ SetupSame

Guard ==
  /\ pc = "guard" /\ pc' = "deadline" /\ after' = "armed"
  /\ UNCHANGED <<raw, deadline, result, failed>> /\ SetupSame

\* The phases that follow: TLS for https, then the CONNECT of HTTP/1.1,
\* HTTP/2 (if TLS negotiated it) or SOCKS.
FirstPhase == IF scheme = "https" THEN "tls" ELSE "connect"

SetDeadline ==
  /\ pc = "deadline"
  /\ deadline' = (timeout # "none" /\ raw = "open")
  /\ failed' = (timeout # "none" /\ raw = "closed") /\ pc' = IF failed' THEN "stop" ELSE FirstPhase
  /\ UNCHANGED <<raw, after, result>> /\ SetupSame

Phase(to) ==
  /\ raw = "open"
  /\ <<pc, to>> \in {<<"tls", "h2">>, <<"tls", "connect">>, <<"connect", "clear">>, <<"h2", "clear">>}
  /\ pc' = to
  /\ result' = CASE pc = "h2" -> "h2" [] OTHER -> result
  /\ UNCHANGED <<raw, after, deadline, failed>> /\ SetupSame

\* The proxy refuses or breaks off, or the socket was closed under it. A
\* failed HTTP/2 CONNECT closes its client and with it the socket.
PhaseFails ==
  /\ pc \in {"tls", "connect", "h2"} /\ pc' = "stop" /\ failed' = TRUE
  /\ raw' = IF pc = "h2" THEN "closed" ELSE raw
  /\ UNCHANGED <<after, deadline, result>> /\ SetupSame

\* raw.SetDeadline(time.Time{}) fails on a closed socket.
ClearDeadline ==
  /\ pc = "clear" /\ pc' = "stop"
  /\ deadline' = (deadline /\ raw = "closed") /\ failed' = (raw = "closed")
  /\ result' = IF result = "none" /\ raw = "open" THEN "conn" ELSE result
  /\ UNCHANGED <<raw, after>> /\ SetupSame

\* Defective variant: the callback outlives the setup.
StopAfterNever ==
  /\ pc = "stop" /\ pc' = "check"
  /\ UNCHANGED <<raw, after, deadline, result, failed>> /\ SetupSame

\* The deferred function: a callback that has started is waited for.
StopAfter ==
  /\ pc = "stop" /\ pc' = "check" /\ after # "running"
  /\ after' = IF after = "armed" THEN "stopped" ELSE after
  /\ failed' = (failed \/ after = "ran")
  /\ UNCHANGED <<raw, deadline, result>> /\ SetupSame

\* Then the context is looked at again, and on failure everything is closed.
\* The deferred cancel of the call's own timeout ends the setup context.
Return ==
  LET f == failed \/ setupCtx = "done" IN
  /\ pc = "check" /\ pc' = "done" /\ failed' = f
  /\ raw' = IF f THEN "closed" ELSE raw
  /\ result' = IF f THEN "none" ELSE result
  /\ closed' = (closed \/ (f /\ result = "h2"))
  /\ setupCtx' = IF timeout = "own" THEN "done" ELSE setupCtx
  /\ UNCHANGED <<scheme, timeout, user, after, deadline, timer, generation, expired, fired, closing, want>>

-----------------------------------------------------------------------------
(* The connection handed out. *)

InUse == pc = "done" /\ result # "none"

\* upstreamH2Conn.Close, which stops the timers, or the Close of the socket.
CloseConn ==
  /\ closed' = TRUE /\ raw' = "closed" /\ timer' = [s \in Sides |-> 0]
  /\ UNCHANGED <<scheme, timeout, svars, generation, expired, fired, want>>

Close == InUse /\ ~user /\ user' = TRUE /\ CloseConn /\ UNCHANGED closing

\* setDeadline: a new generation; the old timer is stopped, if it has not
\* fired yet.
SetTimer(s, on) ==
  LET g == generation[s] + 1 IN
  /\ InUse /\ result = "h2" /\ ~closed /\ generation[s] < MaxSets
  /\ generation' = [generation EXCEPT ![s] = g]
  /\ timer' = [timer EXCEPT ![s] = IF on THEN g ELSE 0]
  /\ want' = [want EXCEPT ![s] = IF on THEN "set" ELSE "none"]
  /\ UNCHANGED <<scheme, timeout, raw, user, svars, closed, expired, fired, closing>>

\* The timer starts its callback, which must wait for the mutex.
TimerFires(s) ==
  /\ timer[s] # 0
  /\ timer' = [timer EXCEPT ![s] = 0] /\ fired' = fired \cup {<<s, timer[s]>>}
  /\ want' = [want EXCEPT ![s] = "lapsed"]
  /\ UNCHANGED <<scheme, timeout, raw, user, svars, closed, generation, expired, closing>>

\* Defective variant: the callback does not compare generations.
TimedOutAny(s, g) ==
  LET current == ~closed IN
  /\ <<s, g>> \in fired /\ fired' = fired \ {<<s, g>>}
  /\ expired' = [expired EXCEPT ![s] = @ \/ current] /\ closing' = (closing \/ current)
  /\ UNCHANGED <<scheme, timeout, raw, user, svars, closed, timer, generation, want>>

\* The callback under the mutex.
TimedOut(s, g) ==
  LET current == ~closed /\ generation[s] = g IN
  /\ <<s, g>> \in fired /\ fired' = fired \ {<<s, g>>}
  /\ expired' = [expired EXCEPT ![s] = @ \/ current] /\ closing' = (closing \/ current)
  /\ UNCHANGED <<scheme, timeout, raw, user, svars, closed, timer, generation, want>>

\* And after it, without the mutex.
TimerCloses == closing /\ closing' = FALSE /\ CloseConn /\ UNCHANGED user

-----------------------------------------------------------------------------
Setup ==
  \/ \E ok \in BOOLEAN : Dial(ok)
  \/ Guard \/ SetDeadline \/ ClearDeadline \/ StopAfter \/ Return
  \/ \E to \in {"h2", "connect", "clear"} : Phase(to)
  \/ PhaseFails

Callback == AfterStarts \/ AfterCloses

Next ==
  \/ CtxDone \/ Callback \/ Setup \/ Close \/ TimerCloses
  \/ \E s \in Sides : \/ TimerFires(s) \/ \E on \in BOOLEAN : SetTimer(s, on)
                      \/ \E g \in 1..MaxSets : TimedOut(s, g)

Spec == Init /\ [][Next]_vars

\* The steps of the setup that do not wait for the proxy: DialContext heeds
\* the context, and I/O on a closed socket fails.
Prompt ==
  \/ (setupCtx = "done" /\ \E ok \in BOOLEAN : Dial(ok))
  \/ Guard \/ SetDeadline \/ ClearDeadline \/ StopAfter \/ Return
  \/ (raw = "closed" /\ PhaseFails)

(* The goroutines run; nothing is assumed of the proxy. *)
Fairness == WF_vars(Prompt) /\ WF_vars(Callback)

FairSpec == Spec /\ Fairness

-----------------------------------------------------------------------------
(* Properties. *)

\* What dialUpstreamTLS returns is sound: after an error nothing is left
\* open; a connection handed out has no deadline left over from its setup and
\* is closed by nothing but its user or one of its own deadlines, so that the
\* end of the setup context, however close to the return, never kills it.
OutcomeSound ==
  pc = "done" =>
    /\ failed => raw # "open" /\ result = "none"
    /\ ~failed => /\ ~deadline
                  /\ raw = "closed" => user \/ \E s \in Sides : expired[s]

\* A deadline that was moved or cleared in time never counts as expired: the
\* callback of its timer, already started, finds a newer generation.
DeadlineMeant ==
  [][\A s \in Sides : expired'[s] /\ ~expired[s] => want[s] = "lapsed"]_vars

\* The end of the context ends the setup, whatever the proxy does: closing
\* the socket interrupts every phase, also without a timeout.
SetupReturns == setupCtx = "done" ~> pc = "done"
=============================================================================
