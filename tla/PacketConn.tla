----------------------------- MODULE PacketConn -----------------------------
(***************************************************************************)
(* packet.Conn (internal/packet/conn.go): the bounded byte stream that     *)
(* carries TLS over short HTTP requests.  Numbered upload blocks arrive in *)
(* any order and leave through Read in sequence; bytes written by TLS are  *)
(* cut into numbered blocks that stay replayable until the client          *)
(* acknowledges them.                                                      *)
(*                                                                         *)
(* Every method runs under c.mu, so one method (or one iteration of its    *)
(* loop up to waitLocked, which drops the mutex) is one action.  The only  *)
(* loop that must be seen step by step is writeLocked: `mutex' names the   *)
(* writer that holds c.mu between two of its iterations and every other    *)
(* action needs it free.                                                   *)
(*                                                                         *)
(* A goroutine asleep in waitLocked is a member of `waiting'; signal()     *)
(* closes the channel all sleepers captured under the mutex, so it empties *)
(* the set.                                                                *)
(***************************************************************************)
EXTENDS Naturals, Integers, Sequences, FiniteSets

CONSTANTS
  MaxBlock,      \* bytes in the largest block
  UploadSlots,   \* upload sequences accepted from uploadNext on
  ReceiptCount,  \* digests kept of the blocks already taken in
  ReplayLimit,   \* bytes retained for replay
  ReplaySlots,   \* blocks retained for replay
  MaxSeq,        \* math.MaxUint64: the sequence number never used
  Bodies,        \* the upload bodies a client may send: [size, tag]
  WriteSizes,    \* the lengths of the writes TLS may issue
  MaxCork,       \* bytes of the TLS records of the largest cell
  Deadlines,     \* the values SetDeadline is called with
  Downloads,     \* the concurrent download responses
  Generations,   \* the generations the client may attach with
  PostHandshake  \* TRUE: TLS itself writes after the cell writer started

ASSUME MaxBlockAssumption == MaxBlock \in Nat \ {0}
ASSUME UploadSlotsAssumption == UploadSlots \in Nat \ {0}
ASSUME ReceiptCountAssumption == ReceiptCount \in Nat /\ ReceiptCount >= UploadSlots
ASSUME ReplayAssumption == /\ ReplayLimit \in Nat /\ ReplayLimit >= MaxBlock
                           /\ ReplaySlots \in Nat \ {0}
ASSUME MaxSeqAssumption == MaxSeq \in Nat
ASSUME BodiesAssumption == Bodies \subseteq [size : Nat, tag : Nat]
ASSUME WriteSizesAssumption == WriteSizes \subseteq Nat \ {0}
ASSUME MaxCorkAssumption == MaxCork \in Nat
ASSUME DeadlinesAssumption == Deadlines \subseteq {"none", "armed"}
ASSUME GenerationsAssumption == Generations \subseteq Nat
ASSUME PostHandshakeAssumption == PostHandshake \in BOOLEAN
\* The reader, the two writers and the flight waiter are not responses.
ASSUME DownloadsAssumption ==
  Downloads \cap {"reader", "cell", "tls", "flight", "free"} = {}

\* Defective variant: the limit leaves no room for the block that is missing.
UploadLimitShort == (UploadSlots - 1) * MaxBlock

UploadLimit == UploadSlots * MaxBlock

(***************************************************************************)
(* The goroutines that call into a connection: the TLS read loop of        *)
(* runPacket, the cell writer of downloadPacket (it alone corks), TLS      *)
(* writing on its own account (the HELLO cell, post-handshake replies),    *)
(* the waiter of a handshake flight and the download responses.            *)
(***************************************************************************)
Writers == {"cell", "tls"}
Procs == {"reader", "flight"} \cup Writers \cup Downloads

VARIABLES
  closed,        \* BOOLEAN
  deadline,      \* "none" | "armed" | "passed": the read and write deadline
  input,         \* blocks in sequence order, not yet read
  inputOffset,   \* bytes of Head(input) already read
  inputBytes,    \* bytes held for the reader, pending blocks included
  uploadNext,    \* first sequence not yet taken in
  pending,       \* sequence -> body, accepted out of order
  receipts,      \* sequence -> digest of the latest blocks taken in
  output,        \* blocks retained for replay
  outputBytes, outputNext, outputFloor,
  generation, attached,
  readWaiting,   \* Read found no input and waits
  corked, cork,  \* Cork/Uncork and the bytes collected in between
  mutex,         \* "free" or the writer inside writeLocked's loop
  waiting,       \* goroutines asleep in waitLocked
  failed,        \* goroutines whose last call returned an error
  job,           \* writer -> what is left of its writeLocked call
  flight,        \* -1, or the cursor a Flight call waits with
  response,      \* download -> generation and cursor of its Next loop
  consumed,      \* history: blocks the reader finished
  emitted,       \* history: bytes ever put into output
  produced       \* history: bytes TLS handed to Write, in its order

uvars == <<input, inputOffset, inputBytes, uploadNext, pending, receipts, consumed>>
ovars == <<output, outputBytes, outputNext, outputFloor, emitted>>
wvars == <<corked, cork, mutex, job, produced>>
dvars == <<generation, attached, response, flight>>
vars == <<closed, deadline, readWaiting, waiting, failed, uvars, ovars, wvars, dvars>>

\* A block's bytes are named by their place in the order TLS produced them
\* (From), and End is the byte total of the output up to and including it.
Block == [Sequence : Nat, From : Nat, Size : Nat, End : Nat]
NoJob == [From |-> 0, Left |-> 0, Size |-> 0]
NoResponse == [live |-> FALSE, generation |-> 0, cursor |-> 0]

Init ==
  /\ closed = FALSE /\ deadline = "none"
  /\ input = <<>> /\ inputOffset = 0 /\ inputBytes = 0 /\ uploadNext = 0
  /\ pending = <<>> /\ receipts = <<>>
  /\ output = <<>> /\ outputBytes = 0 /\ outputNext = 0 /\ outputFloor = 0
  /\ generation = 0 /\ attached = FALSE /\ readWaiting = FALSE
  /\ corked = FALSE /\ cork = NoJob /\ mutex = "free"
  /\ waiting = {} /\ failed = {}
  /\ job = [w \in Writers |-> NoJob]
  /\ flight = -1 /\ response = [d \in Downloads |-> NoResponse]
  /\ consumed = 0 /\ emitted = 0 /\ produced = 0

Free == mutex = "free"
Awake(p) == p \notin waiting \cup failed
\* Defective variant: a signal wakes one sleeper instead of all.
SignalOne ==
  IF waiting = {} THEN UNCHANGED waiting ELSE \E p \in waiting : waiting' = waiting \ {p}
Signal == waiting' = {}

-----------------------------------------------------------------------------
(* Upload side. The digest of a body identifies it, so receipts and pending
   compare bodies directly (SHA-256 is taken to be collision free). *)

\* Defective variant: the last slot of the window is refused.
OutOfWindowShort(sequence) ==
  sequence = MaxSeq \/ sequence - uploadNext >= UploadSlots - 1

\* Beyond the window, or the number that is never used.
OutOfWindow(sequence) == sequence = MaxSeq \/ sequence - uploadNext >= UploadSlots

\* What Put answers; "new" is the only answer that changes the connection.
PutResult(sequence, body) ==
  IF body.size = 0 \/ body.size > MaxBlock THEN "sequence"
  ELSE IF closed THEN "closed"
  ELSE IF sequence < uploadNext
    THEN IF sequence \notin DOMAIN receipts THEN "gone"
         ELSE IF receipts[sequence] # body THEN "conflict" ELSE "duplicate"
  ELSE IF OutOfWindow(sequence) THEN "sequence"
  ELSE IF sequence \in DOMAIN pending
    THEN IF pending[sequence] # body THEN "conflict" ELSE "duplicate"
  ELSE IF body.size > UploadLimit - inputBytes THEN "full"
  ELSE "new"

\* Defective variant: one block is moved, not the whole contiguous run.
FirstMissingOnce(pend, m) ==
  m = IF uploadNext \in DOMAIN pend THEN uploadNext + 1 ELSE uploadNext

\* m is the first sequence the drain loop does not find in pend.
FirstMissing(pend, m) ==
  /\ m \in uploadNext..(uploadNext + UploadSlots)
  /\ m \notin DOMAIN pend
  /\ \A s \in uploadNext..(m - 1) : s \in DOMAIN pend

\* Store the block, then move the contiguous run into input, keeping a
\* receipt of each and dropping receipts older than ReceiptCount.
Put(sequence, body) ==
  /\ Free
  /\ PutResult(sequence, body) = "new"
  /\ LET pend == [s \in DOMAIN pending \cup {sequence} |->
                    IF s = sequence THEN body ELSE pending[s]]
     IN \E m \in uploadNext..(uploadNext + UploadSlots) :
          /\ FirstMissing(pend, m)
          /\ input' = input \o [i \in 1..(m - uploadNext) |-> pend[uploadNext + i - 1]]
          /\ receipts' =
               [s \in {t \in DOMAIN receipts \cup uploadNext..(m - 1) :
                         t + ReceiptCount >= m} |->
                  IF s < uploadNext THEN receipts[s] ELSE pend[s]]
          /\ pending' = [s \in {t \in DOMAIN pend : t >= m} |-> pend[s]]
          /\ uploadNext' = m
  /\ inputBytes' = inputBytes + body.size
  /\ Signal
  /\ UNCHANGED <<closed, deadline, readWaiting, failed, inputOffset, consumed,
                 ovars, wvars, dvars>>

\* Defective variant: the rest of a block the buffer cannot hold is dropped.
ReadDataDrop(n) ==
  /\ Free /\ Awake("reader") /\ ~closed /\ deadline # "passed"
  /\ input # <<>>
  /\ inputOffset + n <= Head(input).size
  /\ inputBytes' = inputBytes - n
  /\ input' = Tail(input) /\ inputOffset' = 0
  /\ consumed' = IF n = Head(input).size THEN consumed + 1 ELSE consumed
  /\ readWaiting' = FALSE
  /\ Signal
  /\ UNCHANGED <<closed, deadline, failed, uploadNext, pending, receipts,
                 ovars, wvars, dvars>>

\* One pass of Read's loop. The caller's buffer may be shorter than what the
\* head holds.
ReadData(n) ==
  /\ Free /\ Awake("reader") /\ ~closed /\ deadline # "passed"
  /\ input # <<>>
  /\ inputOffset + n <= Head(input).size
  /\ inputBytes' = inputBytes - n
  /\ IF inputOffset + n = Head(input).size
       THEN input' = Tail(input) /\ inputOffset' = 0 /\ consumed' = consumed + 1
       ELSE input' = input /\ inputOffset' = inputOffset + n /\ consumed' = consumed
  /\ readWaiting' = FALSE
  /\ Signal
  /\ UNCHANGED <<closed, deadline, failed, uploadNext, pending, receipts,
                 ovars, wvars, dvars>>

ReadWait ==
  /\ Free /\ Awake("reader") /\ ~closed /\ deadline # "passed"
  /\ input = <<>>
  /\ readWaiting' = TRUE
  /\ waiting' = {"reader"}
  /\ UNCHANGED <<closed, deadline, failed, uvars, ovars, wvars, dvars>>

\* Closed, past the deadline on entry, or the timer of waitLocked fired.
ReadFail ==
  /\ Free /\ "reader" \notin failed
  /\ deadline = "passed" \/ (closed /\ Awake("reader"))
  /\ failed' = failed \cup {"reader"}
  /\ waiting' = waiting \ {"reader"}
  /\ readWaiting' = FALSE
  /\ UNCHANGED <<closed, deadline, uvars, ovars, wvars, dvars>>

-----------------------------------------------------------------------------
(* Download side: writers. *)

\* Without PostHandshake TLS writes only before the cell writer starts.
CellWriterStarted == corked \/ cork # NoJob \/ job["cell"] # NoJob

\* Both writers write through tls.Conn, whose output lock one Write holds to
\* its end; Uncork is called outside it.
TLSOutFree == job["tls"].Left = 0

\* The cell writer starts with the first download and corks before each
\* cell; the client holds the auth reply by then, so the HELLO write is over.
Cork ==
  /\ Free /\ attached /\ ~corked /\ Awake("cell") /\ job["cell"].Left = 0
  /\ PostHandshake \/ TLSOutFree
  /\ corked' = TRUE
  /\ UNCHANGED <<closed, deadline, readWaiting, waiting, failed, cork, mutex,
                 job, produced, uvars, ovars, dvars>>

\* Write while corked appends to the cork or reports the closed connection.
WriteCorked(w, n) ==
  /\ Free /\ corked /\ Awake(w) /\ TLSOutFree
  /\ w = "cell" \/ PostHandshake
  /\ IF closed
       THEN /\ failed' = failed \cup {w}
            /\ UNCHANGED <<cork, produced>>
       ELSE /\ cork.Left + n <= MaxCork
            /\ cork' = [From |-> IF cork.Left = 0 THEN produced ELSE cork.From,
                        Left |-> cork.Left + n, Size |-> 0]
            /\ produced' = produced + n
            /\ UNCHANGED failed
  /\ UNCHANGED <<closed, deadline, readWaiting, waiting, corked, mutex, job,
                 uvars, ovars, dvars>>

\* Write without a cork enters writeLocked. Only TLS writes uncorked: the
\* HELLO before the first cork, anything later only if PostHandshake.
Write(n) ==
  /\ Free /\ ~corked /\ Awake("tls") /\ TLSOutFree
  /\ PostHandshake \/ ~CellWriterStarted
  /\ job' = [job EXCEPT !["tls"] = [From |-> produced, Left |-> n, Size |-> MaxBlock]]
  /\ produced' = produced + n
  /\ mutex' = "tls"
  /\ UNCHANGED <<closed, deadline, readWaiting, waiting, failed, corked, cork,
                 uvars, ovars, dvars>>

CeilDiv(a, b) == (a + b - 1) \div b

\* Defective variant: the cork keeps its bytes after they were written.
UncorkKeep ==
  /\ Free /\ corked /\ job["cell"].Left = 0
  /\ corked' = FALSE
  /\ IF cork.Left = 0
       THEN UNCHANGED <<job, mutex>>
       ELSE /\ job' = [job EXCEPT !["cell"] =
                         [From |-> cork.From, Left |-> cork.Left,
                          Size |-> CeilDiv(cork.Left, CeilDiv(cork.Left, MaxBlock))]]
            /\ mutex' = "cell"
  /\ UNCHANGED <<closed, deadline, readWaiting, waiting, failed, cork, produced,
                 uvars, ovars, dvars>>

\* Uncork cuts the collected bytes into equal blocks and enters writeLocked.
Uncork ==
  /\ Free /\ corked /\ job["cell"].Left = 0
  /\ corked' = FALSE
  /\ cork' = [cork EXCEPT !.Left = 0]
  /\ IF cork.Left = 0
       THEN UNCHANGED <<job, mutex>>
       ELSE /\ job' = [job EXCEPT !["cell"] =
                         [From |-> cork.From, Left |-> cork.Left,
                          Size |-> CeilDiv(cork.Left, CeilDiv(cork.Left, MaxBlock))]]
            /\ mutex' = "cell"
  /\ UNCHANGED <<closed, deadline, readWaiting, waiting, failed, produced,
                 uvars, ovars, dvars>>

\* Defective variant: the last block is cut as long as the others.
NextSizeFull(w) == job[w].Size
NextSize(w) == IF job[w].Left <= job[w].Size THEN job[w].Left ELSE job[w].Size
\* Defective variant: the next block starts with the same bytes again.
RestSame(j, n) == [From |-> j.From, Left |-> j.Left - n, Size |-> j.Size]
\* What is left of a write once its next block of n bytes is stored.
Rest(j, n) == [From |-> j.From + n, Left |-> j.Left - n, Size |-> j.Size]
\* Defective variant: the limit is compared before the block is added.
RoomBefore(n) == outputBytes < ReplayLimit /\ Len(output) < ReplaySlots
Room(n) == n <= ReplayLimit - outputBytes /\ Len(output) < ReplaySlots

\* One iteration that appends a block; the mutex is kept unless it was the last.
WriteBlock(w) ==
  LET n == NextSize(w) IN
  /\ mutex = w /\ ~closed /\ deadline # "passed"
  /\ Room(n) /\ outputNext # MaxSeq
  /\ output' = Append(output, [Sequence |-> outputNext, From |-> job[w].From,
                               Size |-> n, End |-> emitted + n])
  /\ outputNext' = outputNext + 1
  /\ outputBytes' = outputBytes + n
  /\ emitted' = emitted + n
  /\ job' = [job EXCEPT ![w] = Rest(@, n)]
  /\ mutex' = IF job[w].Left = n THEN "free" ELSE w
  /\ Signal
  /\ UNCHANGED <<closed, deadline, readWaiting, failed, outputFloor, corked, cork,
                 produced, uvars, dvars>>

\* No room: waitLocked releases the mutex in the middle of the write.
WriteWait(w) ==
  /\ mutex = w /\ ~closed /\ deadline # "passed" /\ ~Room(NextSize(w))
  /\ mutex' = "free"
  /\ waiting' = waiting \cup {w}
  /\ UNCHANGED <<closed, deadline, readWaiting, failed, corked, cork, job, produced,
                 uvars, ovars, dvars>>

\* A woken writer takes the mutex again and continues its loop.
WriteResume(w) ==
  /\ Free /\ Awake(w) /\ job[w].Left > 0
  /\ mutex' = w
  /\ UNCHANGED <<closed, deadline, readWaiting, waiting, failed, corked, cork, job,
                 produced, uvars, ovars, dvars>>

\* Closed, past the deadline or out of sequence numbers: the rest is dropped.
WriteFail(w) ==
  /\ \/ mutex = w /\ (closed \/ deadline = "passed"
                        \/ (Room(NextSize(w)) /\ outputNext = MaxSeq))
     \/ Free /\ w \in waiting /\ deadline = "passed"
  /\ failed' = failed \cup {w}
  /\ waiting' = waiting \ {w}
  /\ job' = [job EXCEPT ![w].Left = 0]
  /\ mutex' = "free"
  /\ UNCHANGED <<closed, deadline, readWaiting, corked, cork, produced,
                 uvars, ovars, dvars>>

-----------------------------------------------------------------------------
(* Download side: acknowledgements and responses. *)

\* Defective variant: acknowledging the floor once more is refused.
AckResultOnce(next) ==
  IF closed THEN "closed"
  ELSE IF next > outputNext THEN "sequence"
  ELSE IF next <= outputFloor THEN "gone" ELSE "ok"

AckResult(next) ==
  IF closed THEN "closed"
  ELSE IF next > outputNext THEN "sequence"
  ELSE IF next < outputFloor THEN "gone" ELSE "ok"

\* Defective variant: the first block not acknowledged is dropped too.
ReleaseThrough(next) ==
  /\ \E k \in 0..Len(output) :
       /\ \A i \in 1..k : output[i].Sequence <= next
       /\ k < Len(output) => output[k + 1].Sequence > next
       /\ output' = SubSeq(output, k + 1, Len(output))
       /\ outputBytes' = IF k = 0 THEN outputBytes
                         ELSE outputBytes - (output[k].End - (output[1].End - output[1].Size))
  /\ outputFloor' = next
  /\ Signal

\* ackLocked: drop the blocks before next and move the floor.
ReleaseBefore(next) ==
  /\ \E k \in 0..Len(output) :
       /\ \A i \in 1..k : output[i].Sequence < next
       /\ k < Len(output) => output[k + 1].Sequence >= next
       /\ output' = SubSeq(output, k + 1, Len(output))
       /\ outputBytes' = IF k = 0 THEN outputBytes
                         ELSE outputBytes - (output[k].End - (output[1].End - output[1].Size))
  /\ outputFloor' = next
  /\ Signal

Ack(next) ==
  /\ Free /\ AckResult(next) = "ok"
  /\ ReleaseBefore(next)
  /\ UNCHANGED <<closed, deadline, readWaiting, failed, outputNext, emitted,
                 uvars, wvars, dvars>>

\* Defective variant: only the attached generation itself is stale.
StaleSame(g) == g = 0 \/ (attached /\ g = generation)
Stale(g) == g = 0 \/ (attached /\ g <= generation)

\* The client asks for a download once it has the auth reply: the flight that
\* carried it has returned, and runPacket cleared the deadline before that.
SetupOver == deadline = "none" /\ flight = -1

\* A download request: Attach, then its response starts the Next loop.
Attach(d, g, next) ==
  /\ Free /\ ~response[d].live /\ SetupOver
  /\ ~Stale(g) /\ AckResult(next) = "ok"
  /\ ReleaseBefore(next)
  /\ generation' = g /\ attached' = TRUE
  /\ response' = [response EXCEPT ![d] = [live |-> TRUE, generation |-> g, cursor |-> next]]
  /\ UNCHANGED <<closed, deadline, readWaiting, failed, outputNext, emitted, flight,
                 uvars, wvars>>

\* Next answers with an error: closed, superseded, or out of the window.
NextError(d) ==
  LET r == response[d] IN
  closed \/ ~attached \/ r.generation # generation
    \/ r.cursor < outputFloor \/ r.cursor > outputNext

\* The block Next hands to the response, by its index in the slice.
NextBlock(d) == output[response[d].cursor - outputFloor + 1]

NextServe(d) ==
  /\ Free /\ response[d].live /\ d \notin waiting
  /\ ~NextError(d) /\ response[d].cursor < outputNext
  /\ response' = [response EXCEPT ![d].cursor = @ + 1]
  /\ UNCHANGED <<closed, deadline, readWaiting, waiting, failed, generation, attached,
                 flight, uvars, ovars, wvars>>

NextWait(d) ==
  /\ Free /\ response[d].live /\ d \notin waiting
  /\ ~NextError(d) /\ response[d].cursor = outputNext
  /\ waiting' = waiting \cup {d}
  /\ UNCHANGED <<closed, deadline, readWaiting, failed, uvars, ovars, wvars, dvars>>

EndResponse(d) ==
  /\ response' = [response EXCEPT ![d] = NoResponse]
  /\ waiting' = waiting \ {d}
  /\ UNCHANGED <<closed, deadline, readWaiting, failed, generation, attached, flight,
                 uvars, ovars, wvars>>

NextFail(d) == Free /\ response[d].live /\ d \notin waiting /\ NextError(d) /\ EndResponse(d)

\* The request's context is cancelled, or writing the response failed.
NextCancel(d) == Free /\ response[d].live /\ EndResponse(d)

\* Flight: wait until output beyond the cursor exists and Read waits.
FlightCall(next) ==
  /\ flight = -1 /\ ~attached
  /\ flight' = next
  /\ UNCHANGED <<closed, deadline, readWaiting, waiting, failed, generation, attached,
                 response, uvars, ovars, wvars>>

FlightReady == readWaiting /\ flight < outputNext

FlightWait ==
  /\ Free /\ flight >= 0 /\ "flight" \notin waiting
  /\ ~closed /\ flight >= outputFloor /\ flight <= outputNext /\ ~FlightReady
  /\ waiting' = waiting \cup {"flight"}
  /\ UNCHANGED <<closed, deadline, readWaiting, failed, uvars, ovars, wvars, dvars>>

EndFlight ==
  /\ flight' = -1
  /\ waiting' = waiting \ {"flight"}
  /\ UNCHANGED <<closed, deadline, readWaiting, failed, generation, attached, response,
                 uvars, ovars, wvars>>

\* Returns the retained blocks from the cursor on, or an error.
FlightReturn ==
  /\ Free /\ flight >= 0 /\ "flight" \notin waiting
  /\ closed \/ flight < outputFloor \/ flight > outputNext \/ FlightReady
  /\ EndFlight

FlightCancel == Free /\ flight >= 0 /\ EndFlight

-----------------------------------------------------------------------------
(* Lifetime. *)

\* Armed when the session is created, cleared once HELLO is written.
SetDeadline(value) ==
  /\ Free /\ deadline # value /\ ~attached
  /\ deadline' = value
  /\ Signal
  /\ UNCHANGED <<closed, readWaiting, failed, uvars, ovars, wvars, dvars>>

\* Time passes, whoever holds the mutex.
DeadlinePasses ==
  /\ deadline = "armed"
  /\ deadline' = "passed"
  /\ UNCHANGED <<closed, readWaiting, waiting, failed, uvars, ovars, wvars, dvars>>

Close ==
  /\ Free /\ ~closed
  /\ closed' = TRUE
  /\ input' = <<>> /\ pending' = <<>> /\ receipts' = <<>> /\ output' = <<>>
  /\ inputBytes' = 0 /\ outputBytes' = 0
  /\ Signal
  /\ UNCHANGED <<deadline, readWaiting, failed, inputOffset, uploadNext, consumed,
                 outputNext, outputFloor, emitted, wvars, dvars>>

-----------------------------------------------------------------------------
Upload == \E s \in 0..MaxSeq, b \in Bodies : Put(s, b)
Read == (\E n \in 1..MaxBlock : ReadData(n)) \/ ReadWait \/ ReadFail
WriteLoop(w) == WriteBlock(w) \/ WriteWait(w) \/ WriteFail(w)
Writing == \/ \E n \in WriteSizes : Write(n) \/ WriteCorked("cell", n) \/ WriteCorked("tls", n)
           \/ Cork \/ Uncork
           \/ \E w \in Writers : WriteLoop(w) \/ WriteResume(w)
Download == \/ \E n \in 0..MaxSeq : Ack(n)
            \/ \E d \in Downloads, g \in Generations, n \in 0..MaxSeq : Attach(d, g, n)
            \/ \E d \in Downloads : 
                  NextServe(d) \/ NextWait(d) \/ NextFail(d) \/ NextCancel(d)
Flight == \/ \E n \in 0..outputNext : FlightCall(n)
          \/ FlightWait \/ FlightReturn \/ FlightCancel
Lifetime == (\E v \in Deadlines : SetDeadline(v)) \/ DeadlinePasses \/ Close

Next == Upload \/ Read \/ Writing \/ Download \/ Flight \/ Lifetime

Spec == Init /\ [][Next]_vars

(* A goroutine that can proceed inside a call eventually gets the mutex and
   proceeds: Go schedules every runnable goroutine and sync.Mutex does not
   starve its waiters. Nothing is assumed of the client, of Close or of time. *)
Fairness ==
  /\ WF_vars(Read)
  /\ \A w \in Writers : WF_vars(WriteLoop(w)) /\ WF_vars(WriteResume(w))
  /\ \A d \in Downloads : WF_vars(NextServe(d) \/ NextWait(d) \/ NextFail(d))
  /\ WF_vars(FlightWait \/ FlightReturn)

FairSpec == Spec /\ Fairness

-----------------------------------------------------------------------------
(* Properties. *)

Sequenced(f) == DOMAIN f \subseteq Nat /\ \A s \in DOMAIN f : f[s] \in Bodies

\* Every field of the connection and of the calls in progress has its type.
TypeOK ==
  /\ closed \in BOOLEAN /\ deadline \in {"none", "armed", "passed"}
  /\ input \in Seq(Bodies) /\ inputOffset \in Nat /\ inputBytes \in Int
  /\ uploadNext \in Nat /\ Sequenced(pending) /\ Sequenced(receipts)
  /\ output \in Seq(Block) /\ outputBytes \in Int
  /\ outputNext \in Nat /\ outputFloor \in Nat
  /\ generation \in Nat /\ attached \in BOOLEAN /\ readWaiting \in BOOLEAN
  /\ corked \in BOOLEAN /\ cork \in [From : Nat, Left : Nat, Size : Nat]
  /\ mutex \in Writers \cup {"free"}
  /\ waiting \subseteq Procs /\ failed \subseteq Procs
  /\ job \in [Writers -> [From : Nat, Left : Nat, Size : Nat]]
  /\ flight \in Nat \cup {-1}
  /\ response \in [Downloads -> [live : BOOLEAN, generation : Nat, cursor : Nat]]
  /\ consumed \in Nat /\ emitted \in Nat /\ produced \in Nat

\* Put's bookkeeping: while the connection is open the receipts are exactly
\* those of the last ReceiptCount blocks taken in, and what is pending lies
\* strictly inside the window, so a gap is never skipped and a retry of any
\* sequence a client may still have outstanding is recognised.
UploadWindow ==
  ~closed =>
    /\ DOMAIN receipts = {s \in 0..(uploadNext - 1) : s + ReceiptCount >= uploadNext}
    /\ DOMAIN pending \subseteq (uploadNext + 1)..(uploadNext + UploadSlots - 1)

\* The reader gets every upload block once and in sequence: the unread blocks
\* are those numbered consumed, consumed+1, ... uploadNext-1, each the body
\* its receipt names, whatever order, duplicates and conflicting retries Put
\* was called with.
UploadExactlyOnce ==
  ~closed =>
    /\ consumed + Len(input) = uploadNext
    /\ \A i \in 1..Len(input) :
         consumed + i - 1 \in DOMAIN receipts => input[i] = receipts[consumed + i - 1]

\* The upload limit cannot wedge a session: once the reader has drained its
\* input, the block everything waits for (the first missing one) is never
\* refused for lack of room, however much is pending beyond it.
HeadBlockFits ==
  ~closed /\ input = <<>> /\ uploadNext < MaxSeq =>
    \A b \in Bodies : PutResult(uploadNext, b) # "full"

\* Retained output is the contiguous run outputFloor..outputNext-1, so the
\* slice expressions output[next-outputFloor] of Next and Flight are in range
\* and yield the block with the number asked for.
ReplayWindow ==
  /\ ~closed => Len(output) = outputNext - outputFloor
  /\ \A i \in 1..Len(output) : output[i].Sequence = outputNext - Len(output) + i - 1

\* The retained blocks lie back to back in the output, the last at its end.
ReplayOffsets ==
  /\ \A i \in 1..Len(output) : output[i].End <= emitted
  /\ \A i, j \in 1..Len(output) : i < j => output[i].End <= output[j].End - output[j].Size
  /\ \A i, j \in 1..Len(output) : j = i + 1 => output[i].End = output[j].End - output[j].Size
  /\ \A i \in 1..Len(output) : i = Len(output) => output[i].End = emitted

\* outputBytes is what the retained blocks hold, and stays within the limits
\* whatever sequence of writes, acknowledgements and reattachments happens.
ReplayBound ==
  /\ outputBytes <= ReplayLimit /\ Len(output) <= ReplaySlots
  /\ output = <<>> => outputBytes = 0
  /\ output # <<>> => outputBytes = emitted - (output[1].End - output[1].Size)
  /\ ReplayOffsets

\* A goroutine sleeps in waitLocked only while what it waits for is false:
\* no writer forgets to signal the condition it makes true.
NoLostWakeup ==
  /\ closed => waiting = {}
  /\ "reader" \in waiting => input = <<>> /\ readWaiting
  /\ \A w \in Writers \cap waiting : job[w].Left > 0 /\ ~Room(NextSize(w))
  /\ \A d \in Downloads \cap waiting :
       response[d].live /\ ~NextError(d) /\ response[d].cursor = outputNext
  /\ "flight" \in waiting => flight >= 0 /\ ~FlightReady

\* TLS reads its records back in the order it wrote them: as long as no write
\* failed, each retained block holds the bytes that follow those of the block
\* before it.
OutputInOrder ==
  failed \cap Writers = {} =>
    \A i \in 1..Len(output) : output[i].End = output[i].From + output[i].Size

\* Nothing the client sends moves a cursor backwards: the upload cursor, the
\* acknowledged floor and the attached generation only grow.
CursorsMonotone ==
  [][/\ uploadNext' >= uploadNext /\ outputFloor' >= outputFloor
     /\ outputNext' >= outputNext
     /\ generation' >= generation]_vars

\* Close ends every call: no reader, writer, response or flight stays blocked.
CloseReleases ==
  closed ~> /\ waiting = {} /\ Free /\ flight = -1 /\ "reader" \in failed
            /\ \A w \in Writers : job[w].Left = 0
            /\ \A d \in Downloads : ~response[d].live
=============================================================================
