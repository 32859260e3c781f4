--------------------------- MODULE UpstreamProofs ---------------------------
(***************************************************************************)
(* Proofs about Upstream, for every set of schemes and however often       *)
(* deadlines are set: an error leaves no socket behind, and no stale timer *)
(* ends the tunnel.                                                        *)
(***************************************************************************)
EXTENDS Upstream, TLAPS

Working == {"deadline", "tls", "connect", "h2", "clear", "stop", "check"}

\* The shapes the argument needs.
Shapes ==
  /\ pc \in {"dial", "guard", "done"} \cup Working
  /\ setupCtx \in {"live", "done"}
  /\ after \in {"none", "armed", "running", "ran", "stopped"}
  /\ raw \in {"none", "open", "closed"}
  /\ result \in {"none", "conn", "h2"}
  /\ deadline \in BOOLEAN /\ failed \in BOOLEAN /\ user \in BOOLEAN /\ closing \in BOOLEAN
  /\ expired \in [Sides -> BOOLEAN] /\ timer \in [Sides -> Nat] /\ generation \in [Sides -> Nat]

\* The callback runs only once its context is done, and only between its
\* registration and the deferred function, which has waited for it.
CallbackOrder ==
  /\ after \in {"running", "ran"} => setupCtx = "done"
  /\ pc \in {"dial", "guard"} => after = "none"
  /\ pc \in Working \ {"check"} => after \in {"armed", "running", "ran"}
  /\ pc = "check" => after = "stopped" \/ (after = "ran" /\ failed)
  /\ pc = "done" => after \in {"none", "ran", "stopped"}

\* While the setup goes on nothing but the callback closes the socket, and
\* a setup that is about to succeed has taken its deadline off.
SetupSocket ==
  /\ pc = "dial" => raw = "none"
  /\ pc \in {"guard"} \cup Working => raw # "none"
  /\ pc = "guard" => raw = "open"
  /\ failed => pc \in {"stop", "check", "done"}
  /\ pc \in Working /\ ~failed /\ raw = "closed" => after = "ran"
  /\ pc \in {"stop", "check"} /\ ~failed => ~deadline
  /\ pc \in {"dial", "guard"} => ~deadline /\ result = "none"

\* There are no deadlines before the tunnel is handed out, and a callback
\* that is closing it has marked one of them expired.
Deadlines ==
  /\ pc # "done" => ~closing /\ fired = {} /\ \A s \in Sides : timer[s] = 0
  /\ closing => \E s \in Sides : expired[s]

SetupInv == Shapes /\ CallbackOrder /\ SetupSocket /\ Deadlines /\ OutcomeSound

LEMMA SetupInit == Init => SetupInv
<1> SUFFICES ASSUME Init PROVE SetupInv
  OBVIOUS
<1>1. Shapes
  BY DEF Init, Shapes, Working
<1>2. CallbackOrder /\ SetupSocket /\ OutcomeSound
  BY DEF Init, CallbackOrder, SetupSocket, OutcomeSound, Working
<1>3. Deadlines
  BY DEF Init, Deadlines
<1>4. QED
  BY <1>1, <1>2, <1>3 DEF SetupInv

LEMMA SetupStep == SetupInv /\ [Next]_vars => SetupInv'
<1> SUFFICES ASSUME SetupInv, [Next]_vars PROVE SetupInv'
  OBVIOUS
<1> USE DEF SetupInv, Shapes, CallbackOrder, SetupSocket, Deadlines, OutcomeSound, Working
<1>1. CASE CtxDone
  BY <1>1 DEF CtxDone, tvars
<1>2. CASE AfterStarts
  BY <1>2 DEF AfterStarts, tvars
<1>3. CASE AfterCloses
  BY <1>3 DEF AfterCloses, tvars
<1>4. ASSUME NEW ok \in BOOLEAN, Dial(ok) PROVE SetupInv'
  BY <1>4 DEF Dial, SetupSame, tvars
<1>5. CASE Guard
  BY <1>5 DEF Guard, SetupSame, tvars
<1>6. CASE SetDeadline
  BY <1>6 DEF SetDeadline, FirstPhase, SetupSame, tvars
<1>7. ASSUME NEW to \in {"h2", "connect", "clear"}, Phase(to) PROVE SetupInv'
  BY <1>7 DEF Phase, SetupSame, tvars
<1>8. CASE PhaseFails
  BY <1>8 DEF PhaseFails, SetupSame, tvars
<1>9. CASE ClearDeadline
  BY <1>9 DEF ClearDeadline, SetupSame, tvars
<1>10. CASE StopAfter
  BY <1>10 DEF StopAfter, SetupSame, tvars
<1>11. CASE Return
  BY <1>11 DEF Return
<1>12. CASE Close
  BY <1>12 DEF Close, CloseConn, InUse, svars
<1>13. ASSUME NEW s \in Sides, NEW on \in BOOLEAN, SetTimer(s, on) PROVE SetupInv'
  BY <1>13 DEF SetTimer, InUse, svars
<1>14. ASSUME NEW s \in Sides, TimerFires(s) PROVE SetupInv'
  BY <1>14 DEF TimerFires, svars
<1>15. ASSUME NEW s \in Sides, NEW g \in 1..MaxSets, TimedOut(s, g) PROVE SetupInv'
  BY <1>15 DEF TimedOut, svars
<1>16. CASE TimerCloses
  BY <1>16 DEF TimerCloses, CloseConn, svars
<1>17. CASE UNCHANGED vars
  BY <1>17 DEF vars, svars, tvars
<1> HIDE DEF SetupInv, Shapes, CallbackOrder, SetupSocket, Deadlines, OutcomeSound, Working
<1>18. QED
  BY <1>1, <1>2, <1>3, <1>4, <1>5, <1>6, <1>7, <1>8, <1>9, <1>10, <1>11, <1>12, <1>13, <1>14,
     <1>15, <1>16, <1>17 DEF Next, Callback, Setup

\* After an error of dialUpstreamTLS nothing is left open, and a connection it
\* returned is closed only by its user or its own deadlines, whenever the
\* setup context ends.
THEOREM Outcome == Spec => []OutcomeSound
<1>1. SetupInv => OutcomeSound
  BY DEF SetupInv
<1>2. QED
  BY <1>1, SetupInit, SetupStep, PTL DEF Spec

-----------------------------------------------------------------------------
\* A timer that is armed is that of the current generation; a callback that
\* has started belongs to it or to an older one, and to it only if the
\* deadline last asked for has passed.
TimerInv ==
  /\ generation \in [Sides -> Nat] /\ timer \in [Sides -> Nat]
  /\ want \in [Sides -> {"none", "set", "lapsed"}] /\ expired \in [Sides -> BOOLEAN]
  /\ fired \subseteq Sides \X Nat
  /\ \A s \in Sides : timer[s] # 0 => timer[s] = generation[s]
  /\ \A s \in Sides, g \in Nat : <<s, g>> \in fired =>
       g <= generation[s] /\ (g = generation[s] => want[s] = "lapsed")

LEMMA TimerInit == Init => TimerInv
BY DEF Init, TimerInv

LEMMA TimerStep == TimerInv /\ [Next]_vars => TimerInv'
<1> SUFFICES ASSUME TimerInv, [Next]_vars PROVE TimerInv'
  OBVIOUS
<1> USE DEF TimerInv
<1>1. CASE CloseConn
  BY <1>1 DEF CloseConn
<1>2. ASSUME NEW s \in Sides, NEW on \in BOOLEAN, SetTimer(s, on) PROVE TimerInv'
  BY <1>2 DEF SetTimer
<1>3. ASSUME NEW s \in Sides, TimerFires(s) PROVE TimerInv'
  BY <1>3 DEF TimerFires
<1>4. ASSUME NEW s \in Sides, NEW g \in 1..MaxSets, TimedOut(s, g) PROVE TimerInv'
  BY <1>4 DEF TimedOut
<1>5. CASE UNCHANGED <<generation, timer, want, expired, fired>>
  BY <1>5
<1>6. CtxDone \/ Callback \/ Setup \/ UNCHANGED vars => UNCHANGED <<generation, timer, want, expired, fired>>
  BY DEF CtxDone, Callback, AfterStarts, AfterCloses, Setup, Dial, Guard, SetDeadline, Phase, PhaseFails,
         ClearDeadline, StopAfter, Return, SetupSame, vars, tvars
<1> HIDE DEF TimerInv
<1>7. QED
  BY <1>1, <1>2, <1>3, <1>4, <1>5, <1>6 DEF Next, Close, TimerCloses

LEMMA TimerMeant ==
  TimerInv /\ [Next]_vars => [\A s \in Sides : expired'[s] /\ ~expired[s] => want[s] = "lapsed"]_vars
<1> SUFFICES ASSUME TimerInv, Next, NEW r \in Sides, expired'[r], ~expired[r] PROVE want[r] = "lapsed"
  OBVIOUS
<1>1. ASSUME NEW s \in Sides, NEW g \in 1..MaxSets, TimedOut(s, g) PROVE want[r] = "lapsed"
  BY <1>1 DEF TimedOut, TimerInv
<1>2. (\E s \in Sides, g \in 1..MaxSets : TimedOut(s, g)) \/ UNCHANGED expired
  BY DEF Next, CtxDone, Callback, AfterStarts, AfterCloses, Setup, Dial, Guard, SetDeadline, Phase,
         PhaseFails, ClearDeadline, StopAfter, Return, SetupSame, Close, TimerCloses, CloseConn,
         SetTimer, TimerFires, tvars
<1>3. QED
  BY <1>1, <1>2

\* A deadline of the HTTP/2 tunnel that was moved or cleared before it passed
\* is never taken for expired by the callback of its timer.
THEOREM NoStaleDeadline == Spec => DeadlineMeant
<1>1. QED
  BY TimerInit, TimerStep, TimerMeant, PTL DEF Spec, DeadlineMeant
=============================================================================
