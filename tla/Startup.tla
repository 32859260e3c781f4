------------------------------ MODULE Startup ------------------------------
(***************************************************************************)
(* One WSS/H3 session from its first AUTH to the realtime transition:      *)
(* Transport.startup and its journal (startup.go), the session's close and *)
(* expiry (transport.go), the transition of realtime.go, and the goroutine *)
(* that dials a stream's target.                                           *)
(*                                                                         *)
(* Startup is a fixed sequence of steps, uploads and downloads in turn.    *)
(* Each is applied once and its answer is kept in a journal, so that a     *)
(* retry gets the same answer.  A journal entry is shared with the         *)
(* requests that are writing it; the bytes of all entries alive count      *)
(* against one limit of the whole server.                                  *)
(*                                                                         *)
(* The two mutexes are state: `smu' (session.mu) and `tmu' (Transport.mu)  *)
(* name their holder wherever a goroutine keeps them across a wait.        *)
(***************************************************************************)
EXTENDS Naturals, FiniteSets

CONSTANTS
  Steps,         \* number of startup steps: 40
  Capacity,      \* bytes of a download answer
  JournalLimit,  \* startupJournalLimit
  Handlers,      \* requests of the session in progress at once
  Bodies,        \* upload bodies the client may send
  Dials          \* dial goroutines the session may start

\* "auth": the AUTH cell; "empty": no frames; "open": an OPEN; "bad": an OPEN
\* followed by a frame Receive refuses.
ASSUME StartupAssumption ==
  /\ Steps \in Nat \ {0} /\ Capacity \in Nat /\ JournalLimit \in Nat
  /\ Bodies \subseteq {"auth", "empty", "open", "bad"}
  /\ IsFiniteSet(Handlers) /\ Handlers \cap {"free", "expire"} = {}

VARIABLES
  smu, tmu,      \* "free" or the holder
  present,       \* the session is in Transport.sessions
  idle,          \* two minutes passed since session.last
  authed, startupSteps, startupInvalid, realtime,
  deadline,      \* "none" | "armed" | "passed": startupDeadline
  journal,       \* indices in startupJournal
  digest,        \* index -> body the entry was made for
  refs,          \* index -> startupResult.refs
  journalBytes,  \* startupJournalBytes, one counter of the whole process
  others,        \* the part of it that other sessions hold
  peerDone,      \* the peer's context is cancelled
  pc,            \* handler -> what it does
  expire,        \* the goroutine that runs Transport.expire
  dial,          \* dial goroutine -> "none" | "start" | "dialing" | "done"
  applied        \* history: index -> body handed to Peer.Receive

locks == <<smu, tmu>>
entries == <<journal, digest, refs, journalBytes>>
steps == <<authed, startupSteps, startupInvalid, realtime, deadline, peerDone>>
life == <<present, idle, steps>>
vars == <<locks, entries, life, others, pc, expire, dial, applied>>

Indices == 0..(Steps - 1)
IsUpload(k) == k % 2 = 0
Size(k) == IF IsUpload(k) THEN 0 ELSE Capacity
Idle == [at |-> "idle", index |-> 0, body |-> "empty"]

Init ==
  /\ smu = "free" /\ tmu = "free" /\ present = TRUE /\ idle = FALSE
  /\ authed = FALSE /\ startupSteps = 0 /\ startupInvalid = FALSE /\ realtime = FALSE
  /\ deadline = "none" /\ journal = {} /\ digest = [k \in Indices |-> "empty"]
  /\ refs = [k \in Indices |-> 0] /\ journalBytes = 0 /\ others = 0 /\ peerDone = FALSE
  /\ pc = [h \in Handlers |-> Idle] /\ expire = "idle"
  /\ dial = [d \in Dials |-> "none"] /\ applied = <<>>

-----------------------------------------------------------------------------
(* The journal. *)

\* Defective variant: the bytes are returned with the first reference.
ReleaseFirst(ks) ==
  /\ refs' = [k \in Indices |-> IF k \in ks THEN refs[k] - 1 ELSE refs[k]]
  /\ journalBytes' = journalBytes -
       Capacity * Cardinality({k \in ks : refs[k] = 2 /\ ~IsUpload(k)})

\* release of the entries in ks, each by one reference; the last one returns
\* the bytes.
Release(ks) ==
  /\ refs' = [k \in Indices |-> IF k \in ks THEN refs[k] - 1 ELSE refs[k]]
  /\ journalBytes' = journalBytes -
       Capacity * Cardinality({k \in ks : refs[k] = 1 /\ ~IsUpload(k)})

\* clearStartupLocked: the journal gives up its references.
ClearStartup == Release(journal) /\ journal' = {} /\ UNCHANGED digest

\* Defective variant: no reference is counted for the writer.
CommitOne(h, k, body) ==
  /\ journal' = journal \cup {k}
  /\ digest' = [digest EXCEPT ![k] = body]
  /\ refs' = [refs EXCEPT ![k] = 1]
  /\ startupSteps' = startupSteps + 1
  /\ deadline' = IF deadline = "none" THEN "armed" ELSE deadline
  /\ pc' = [pc EXCEPT ![h] = [at |-> "write", index |-> k, body |-> body]]

\* A step is committed: the journal and the writer hold one reference each.
Commit(h, k, body) ==
  /\ journal' = journal \cup {k}
  /\ digest' = [digest EXCEPT ![k] = body]
  /\ refs' = [refs EXCEPT ![k] = 2]
  /\ startupSteps' = startupSteps + 1
  /\ deadline' = IF deadline = "none" THEN "armed" ELSE deadline
  /\ pc' = [pc EXCEPT ![h] = [at |-> "write", index |-> k, body |-> body]]

-----------------------------------------------------------------------------
(* Requests. *)

\* getSession finds the session under Transport.mu and refreshes it.
Arrive(h, k, body) ==
  /\ pc[h].at = "idle" /\ tmu = "free" /\ smu = "free" /\ present
  /\ authed \/ (k = 0 /\ body = "auth")
  /\ pc' = [pc EXCEPT ![h] = [at |-> "start", index |-> k, body |-> body]]
  /\ idle' = FALSE
  /\ UNCHANGED <<locks, entries, present, steps, expire, dial, applied, others>>

\* The handler gets session.mu: for a startup step, or (index Steps) for the
\* upgrade to the realtime carrier.
Locked(h) == pc[h].at = "start" /\ smu = "free"
Entered(h) == Locked(h) /\ pc[h].index # Steps
Upgrading(h) == Locked(h) /\ pc[h].index = Steps
\* Defective variant: an invalidated session still takes steps.
RunningInvalid == ~realtime
Running == ~realtime /\ ~startupInvalid /\ ~peerDone
AfterDeadline == deadline = "passed"

\* Peer.Close, called with session.mu held, cancels the peer's context and
\* waits for the dials.
CloseReturns(h) ==
  /\ pc[h].at \in {"late", "refused"} /\ \A d \in Dials : dial[d] \in {"none", "done"}
  /\ smu' = "free" /\ pc' = [pc EXCEPT ![h] = Idle]
  /\ startupInvalid' = TRUE
  /\ ClearStartup
  /\ UNCHANGED <<tmu, present, idle, authed, startupSteps, realtime, deadline, peerDone,
                 expire, dial, applied, others>>

\* The startup deadline is over: close the session's peer.
StartupLate(h) ==
  /\ Entered(h) /\ Running /\ AfterDeadline
  /\ startupInvalid' = TRUE /\ peerDone' = TRUE /\ ClearStartup
  /\ smu' = h /\ pc' = [pc EXCEPT ![h].at = "late"]
  /\ UNCHANGED <<tmu, present, idle, authed, startupSteps, realtime, deadline,
                 expire, dial, applied, others>>

\* Defective variant: a replayed upload is not compared with the one applied.
StartupReplayAny(h) ==
  LET r == pc[h] IN
  /\ Entered(h) /\ Running /\ ~AfterDeadline
  /\ r.index \in journal
  /\ refs' = [refs EXCEPT ![r.index] = @ + 1]
  /\ pc' = [pc EXCEPT ![h].at = "write"]
  /\ UNCHANGED <<locks, life, journal, digest, journalBytes, expire, dial, applied, others>>

\* A step already in the journal: the same upload, or the download again.
StartupReplay(h) ==
  LET r == pc[h] IN
  /\ Entered(h) /\ Running /\ ~AfterDeadline
  /\ r.index \in journal /\ (IsUpload(r.index) => digest[r.index] = r.body)
  /\ refs' = [refs EXCEPT ![r.index] = @ + 1]
  /\ pc' = [pc EXCEPT ![h].at = "write"]
  /\ UNCHANGED <<locks, life, journal, digest, journalBytes, expire, dial, applied, others>>

\* The next step in order, and for an upload a body that is allowed there.
NextStep(h) ==
  /\ Entered(h) /\ Running /\ ~AfterDeadline
  /\ pc[h].index = startupSteps /\ pc[h].index \notin journal
UploadAllowed(body) ==
  IF body = "auth" THEN ~authed
  ELSE authed /\ (body # "empty" => startupSteps >= 2)

\* Receive starts a dial for each OPEN.
StartDial(body) ==
  IF body \in {"open", "bad"}
    THEN \E d \in Dials : dial[d] = "none" /\ dial' = [dial EXCEPT ![d] = "start"]
    ELSE UNCHANGED dial

StartupUpload(h) ==
  LET k == pc[h].index body == pc[h].body IN
  /\ NextStep(h) /\ IsUpload(k) /\ UploadAllowed(body)
  /\ authed' = (authed \/ body = "auth")
  /\ StartDial(body)
  /\ IF body = "bad"
       THEN /\ peerDone' = TRUE
            /\ smu' = h /\ pc' = [pc EXCEPT ![h].at = "refused"]
            /\ UNCHANGED <<entries, startupSteps, startupInvalid, deadline, applied>>
       ELSE /\ Commit(h, k, body)
            /\ applied' = [i \in DOMAIN applied \cup {k} |-> IF i = k THEN body ELSE applied[i]]
            /\ UNCHANGED <<smu, startupInvalid, peerDone, journalBytes>>
  /\ UNCHANGED <<tmu, present, idle, realtime, expire, others>>

\* A download reserves its bytes first; without room it answers 503.
StartupDownload(h) ==
  LET k == pc[h].index IN
  /\ NextStep(h) /\ ~IsUpload(k) /\ authed
  /\ IF Capacity > JournalLimit - journalBytes
       THEN pc' = [pc EXCEPT ![h] = Idle] /\ UNCHANGED <<entries, startupSteps, deadline>>
       ELSE Commit(h, k, "empty") /\ journalBytes' = journalBytes + Capacity
  /\ UNCHANGED <<locks, present, idle, authed, startupInvalid, realtime, peerDone,
                 expire, dial, applied, others>>

\* Every other request is rejected and changes nothing.
StartupReject(h) ==
  LET k == pc[h].index IN
  /\ Entered(h)
  /\ \/ ~Running
     \/ /\ ~AfterDeadline
        /\ \/ k \in journal /\ IsUpload(k) /\ digest[k] # pc[h].body
           \/ k \notin journal /\ k # startupSteps
           \/ k \notin journal /\ IsUpload(k) /\ ~UploadAllowed(pc[h].body)
  /\ pc' = [pc EXCEPT ![h] = Idle]
  /\ UNCHANGED <<locks, entries, life, expire, dial, applied, others>>

\* Count under Transport.mu, then writeStartup: the answer is written, or the
\* write fails; either way its reference is released.
WriteStartup(h) ==
  /\ pc[h].at = "write" /\ tmu = "free"
  /\ Release({pc[h].index})
  /\ pc' = [pc EXCEPT ![h] = Idle]
  /\ UNCHANGED <<locks, life, journal, digest, expire, dial, applied, others>>

\* The realtime carrier takes over once all steps are done, in time.
Ready == Running /\ deadline = "armed" /\ startupSteps = Steps

Realtime(h) ==
  /\ Upgrading(h) /\ Ready
  /\ realtime' = TRUE
  /\ ClearStartup
  /\ pc' = [pc EXCEPT ![h] = Idle]
  /\ UNCHANGED <<locks, present, idle, authed, startupSteps, startupInvalid, deadline,
                 peerDone, expire, dial, applied, others>>

RealtimeReject(h) ==
  /\ Upgrading(h) /\ ~Ready
  /\ pc' = [pc EXCEPT ![h] = Idle]
  /\ UNCHANGED <<locks, entries, life, expire, dial, applied, others>>

\* The realtime connection ends: session.close by its handler.
RealtimeEnds ==
  /\ realtime /\ smu = "free" /\ ~startupInvalid
  /\ startupInvalid' = TRUE /\ peerDone' = TRUE
  /\ ClearStartup
  /\ UNCHANGED <<locks, present, idle, authed, startupSteps, realtime, deadline,
                 pc, expire, dial, applied, others>>

\* The journals of other sessions draw on the same limit.
OthersReserve ==
  /\ Capacity <= JournalLimit - journalBytes
  /\ journalBytes' = journalBytes + Capacity /\ others' = others + Capacity
  /\ UNCHANGED <<locks, journal, digest, refs, life, pc, expire, dial, applied>>
OthersRelease ==
  /\ others > 0
  /\ journalBytes' = journalBytes - Capacity /\ others' = others - Capacity
  /\ UNCHANGED <<locks, journal, digest, refs, life, pc, expire, dial, applied>>

-----------------------------------------------------------------------------
(* Dialing, time, expiry. *)

\* The dial function of getSession looks at session.authed first.
DialChecks(d) ==
  /\ dial[d] = "start" /\ smu = "free"
  /\ dial' = [dial EXCEPT ![d] = IF authed THEN "dialing" ELSE "done"]
  /\ UNCHANGED <<locks, entries, life, pc, expire, applied, others>>

DialEnds(d) ==
  /\ dial[d] = "dialing"
  /\ dial' = [dial EXCEPT ![d] = "done"]
  /\ UNCHANGED <<locks, entries, life, pc, expire, applied, others>>

TimePasses ==
  /\ \/ deadline = "armed" /\ deadline' = "passed" /\ UNCHANGED idle
     \/ ~idle /\ idle' = TRUE /\ UNCHANGED deadline
  /\ UNCHANGED <<locks, entries, present, authed, startupSteps, startupInvalid, realtime,
                 peerDone, pc, expire, dial, applied, others>>

\* Transport.expire takes Transport.mu and keeps it to its end.
ExpireStart ==
  /\ expire = "idle" /\ tmu = "free" /\ present
  /\ expire' = "check" /\ tmu' = "expire"
  /\ UNCHANGED <<smu, entries, life, pc, dial, applied, others>>

Expired == idle \/ (~realtime /\ AfterDeadline)

ExpireCheck ==
  /\ expire = "check" /\ smu = "free"
  /\ expire' = IF Expired THEN "close" ELSE "idle"
  /\ tmu' = IF Expired THEN tmu ELSE "free"
  /\ UNCHANGED <<smu, entries, life, pc, dial, applied, others>>

\* session.close: under session.mu, then the peer without it.
ExpireClose ==
  /\ expire = "close" /\ smu = "free"
  /\ startupInvalid' = TRUE /\ peerDone' = TRUE
  /\ ClearStartup
  /\ expire' = "wait"
  /\ UNCHANGED <<locks, present, idle, authed, startupSteps, realtime, deadline,
                 pc, dial, applied, others>>

ExpireEnd ==
  /\ expire = "wait" /\ \A d \in Dials : dial[d] \in {"none", "done"}
  /\ present' = FALSE /\ expire' = "idle" /\ tmu' = "free"
  /\ UNCHANGED <<smu, entries, idle, authed, startupSteps, startupInvalid, realtime,
                 deadline, peerDone, pc, dial, applied, others>>

-----------------------------------------------------------------------------
Serve(h) ==
  \/ StartupLate(h) \/ CloseReturns(h) \/ StartupReplay(h) \/ StartupUpload(h)
  \/ StartupDownload(h) \/ StartupReject(h) \/ WriteStartup(h)
  \/ Realtime(h) \/ RealtimeReject(h)
Dial(d) == DialChecks(d) \/ DialEnds(d)
Expire == ExpireCheck \/ ExpireClose \/ ExpireEnd

Next ==
  \/ \E h \in Handlers, k \in 0..Steps, b \in Bodies : Arrive(h, k, b)
  \/ \E h \in Handlers : Serve(h)
  \/ \E d \in Dials : Dial(d)
  \/ RealtimeEnds \/ OthersReserve \/ OthersRelease \/ TimePasses
  \/ ExpireStart \/ Expire

Spec == Init /\ [][Next]_vars

(* Goroutines that can run do; a mutex goes to each of its waiters in the end
   (sync.Mutex hands over to a starving one); a dial ends by its timeout. *)
Fairness ==
  /\ \A h \in Handlers : SF_vars(Serve(h))
  /\ \A d \in Dials : SF_vars(Dial(d))
  /\ SF_vars(Expire)

FairSpec == Spec /\ Fairness

-----------------------------------------------------------------------------
(* Properties. *)

Writing(k) == {h \in Handlers : pc[h].at = "write" /\ pc[h].index = k}

\* Reference counts are exact, whatever replays, transitions and closes
\* overlap: an entry is held by the journal and by each request writing it,
\* so no answer's bytes are returned while it is written, or twice.
RefsExact ==
  \A k \in Indices :
    refs[k] = Cardinality(Writing(k)) + (IF k \in journal THEN 1 ELSE 0)

\* The global byte count is that of the entries alive, and the limit holds.
JournalExact ==
  /\ journalBytes = others + Capacity * Cardinality({k \in Indices : refs[k] > 0 /\ ~IsUpload(k)})
  /\ journalBytes <= JournalLimit

\* An answer to an upload means that this very body was applied, in its turn:
\* retries and concurrent requests neither apply a step twice nor confirm a
\* body that was not the one applied.
AnswerMeansApplied ==
  /\ DOMAIN applied = {k \in 0..(startupSteps - 1) : IsUpload(k)}
  /\ \A h \in Handlers : pc[h].at = "write" /\ IsUpload(pc[h].index) =>
       pc[h].index \in DOMAIN applied /\ applied[pc[h].index] = pc[h].body

\* A session that is over, invalidated or handed over, keeps nothing of the
\* journal: what the process still counts for it is the answers being written,
\* so a request that came before the end and runs after it leaves no entry
\* behind, whose bytes nobody would ever return.
OverLeavesNothing ==
  startupInvalid \/ realtime =>
    /\ journal = {}
    /\ journalBytes = others +
         Capacity * Cardinality({k \in Indices : Writing(k) # {} /\ ~IsUpload(k)})

\* Expiry always finishes its pass and lets go of Transport.mu.
ExpireReturns == expire # "idle" ~> expire = "idle"
=============================================================================
