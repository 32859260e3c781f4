-------------------------- MODULE PacketConnProofs --------------------------
(***************************************************************************)
(* Safety of packet.Conn for every block size, window, replay limit and    *)
(* set of requests a client may send.                                      *)
(***************************************************************************)
EXTENDS PacketConn, WellFoundedInduction, TLAPS

\* Rounded-up division, as Uncork computes block counts and sizes.
LEMMA CeilDivPositive ==
  ASSUME NEW a \in Nat \ {0}, NEW b \in Nat \ {0}
  PROVE  CeilDiv(a, b) \in Nat \ {0}
  BY DEF CeilDiv

\* An initial segment of a function on the naturals is a sequence.
LEMMA SegmentIsSeq ==
  ASSUME NEW S, NEW n \in Nat, NEW f, f = [i \in 1..n |-> f[i]],
         \A i \in 1..n : f[i] \in S
  PROVE  f \in Seq(S) /\ Len(f) = n
  OBVIOUS

-----------------------------------------------------------------------------
(* Type correctness. *)

LEMMA TypeInit == ASSUME Init PROVE TypeOK
<1>1. Sequenced(pending) /\ Sequenced(receipts)
  BY DEF Init, Sequenced
<1>2. input \in Seq(Bodies) /\ output \in Seq(Block)
  BY DEF Init
<1>3. /\ job \in [Writers -> [From : Nat, Left : Nat, Size : Nat]]
      /\ response \in [Downloads -> [live : BOOLEAN, generation : Nat, cursor : Nat]]
      /\ cork \in [From : Nat, Left : Nat, Size : Nat]
  BY DEF Init, NoJob, NoResponse
<1>4. flight \in Nat \cup {-1} /\ mutex \in Writers \cup {"free"}
  BY DEF Init
<1>5. waiting \subseteq Procs /\ failed \subseteq Procs
  BY DEF Init
<1>6. /\ closed \in BOOLEAN /\ attached \in BOOLEAN /\ readWaiting \in BOOLEAN
      /\ corked \in BOOLEAN /\ deadline \in {"none", "armed", "passed"}
  BY DEF Init
<1>7. /\ inputOffset \in Nat /\ inputBytes \in Int /\ uploadNext \in Nat
      /\ outputBytes \in Int /\ outputNext \in Nat /\ outputFloor \in Nat
      /\ generation \in Nat /\ consumed \in Nat /\ emitted \in Nat /\ produced \in Nat
  BY DEF Init
<1> QED BY <1>1, <1>2, <1>3, <1>4, <1>5, <1>6, <1>7 DEF TypeOK

LEMMA TypePut ==
  ASSUME TypeOK, UploadWindow, NEW s \in 0..MaxSeq, NEW b \in Bodies, Put(s, b)
  PROVE  TypeOK'
<1> DEFINE pend == [t \in DOMAIN pending \cup {s} |-> IF t = s THEN b ELSE pending[t]]
<1>1. PICK m \in uploadNext..(uploadNext + UploadSlots) :
        /\ FirstMissing(pend, m)
        /\ input' = input \o [i \in 1..(m - uploadNext) |-> pend[uploadNext + i - 1]]
        /\ receipts' = [t \in {u \in DOMAIN receipts \cup uploadNext..(m - 1) :
                                 u + ReceiptCount >= m} |->
                          IF t < uploadNext THEN receipts[t] ELSE pend[t]]
        /\ pending' = [t \in {u \in DOMAIN pend : u >= m} |-> pend[t]]
        /\ uploadNext' = m
  BY DEF Put
<1>2. /\ uploadNext \in Nat /\ Sequenced(pending) /\ Sequenced(receipts)
      /\ input \in Seq(Bodies) /\ m \in Nat
  BY UploadSlotsAssumption, <1>1 DEF TypeOK
<1>3. Sequenced(pend)
  BY <1>2, MaxSeqAssumption DEF Sequenced
<1>4. \A i \in 1..(m - uploadNext) : pend[uploadNext + i - 1] \in Bodies
  <2> SUFFICES ASSUME NEW i \in 1..(m - uploadNext) PROVE pend[uploadNext + i - 1] \in Bodies
    OBVIOUS
  <2>1. uploadNext + i - 1 \in uploadNext..(m - 1)
    BY <1>2
  <2> QED BY <2>1, <1>1, <1>3 DEF FirstMissing, Sequenced
<1>5. input' \in Seq(Bodies)
  <2> DEFINE g == [i \in 1..(m - uploadNext) |-> pend[uploadNext + i - 1]]
  <2> HIDE DEF pend
  <2>1. m - uploadNext \in Nat BY <1>1, <1>2
  <2>2. g \in Seq(Bodies) BY <2>1, <1>4, SegmentIsSeq
  <2>3. input' = input \o g BY <1>1
  <2> HIDE DEF g
  <2> QED BY <2>2, <2>3, <1>2
<1>6. Sequenced(pending')
  BY <1>1, <1>3 DEF Sequenced
<1>7. Sequenced(receipts')
  <2> HIDE DEF pend
  <2>1. \A t \in uploadNext..(m - 1) : t \in DOMAIN pend BY <1>1 DEF FirstMissing
  <2>2. \A t \in DOMAIN receipts' :
          /\ t \in Nat
          /\ IF t < uploadNext THEN receipts'[t] = receipts[t] /\ t \in DOMAIN receipts
                               ELSE receipts'[t] = pend[t]
    BY <1>1, <1>2 DEF Sequenced
  <2>3. ~closed BY DEF Put, PutResult, OutOfWindow
  <2>4. \A t \in DOMAIN receipts : t < uploadNext BY <2>3, <1>2 DEF UploadWindow
  <2>5. \A t \in DOMAIN receipts' : t >= uploadNext => t \in uploadNext..(m - 1)
    <3>1. DOMAIN receipts' \subseteq DOMAIN receipts \cup uploadNext..(m - 1)
      BY <1>1
    <3> QED BY <3>1, <2>4, <1>2 DEF Sequenced
  <2> QED BY <2>1, <2>2, <2>5, <1>2, <1>3 DEF Sequenced
<1>8. inputBytes' \in Int
  BY BodiesAssumption DEF Put, TypeOK
<1>9. uploadNext' \in Nat /\ waiting' = {}
  BY <1>1, <1>2 DEF Put, Signal
<1>10. UNCHANGED <<closed, deadline, readWaiting, failed, inputOffset, consumed,
                   ovars, wvars, dvars>>
  BY DEF Put
<1> HIDE DEF pend
<1> QED
  BY <1>5, <1>6, <1>7, <1>8, <1>9, <1>10 DEF TypeOK, ovars, wvars, dvars

LEMMA TypeRead == ASSUME TypeOK, Read PROVE TypeOK'
<1>1. ASSUME NEW n \in 1..MaxBlock, ReadData(n) PROVE TypeOK'
  <2>1. Head(input) \in Bodies /\ Tail(input) \in Seq(Bodies)
    BY <1>1 DEF ReadData, TypeOK
  <2>2. /\ input' \in Seq(Bodies) /\ inputOffset' \in Nat
        /\ consumed' \in Nat /\ inputBytes' \in Int
    <3>1. n \in Nat /\ inputOffset \in Nat /\ consumed \in Nat /\ inputBytes \in Int
      BY MaxBlockAssumption DEF TypeOK
    <3>2. CASE inputOffset + n = Head(input).size
      BY <1>1, <2>1, <3>1, <3>2 DEF ReadData
    <3>3. CASE inputOffset + n # Head(input).size
      BY <1>1, <3>1, <3>3 DEF ReadData, TypeOK
    <3> QED BY <3>2, <3>3
  <2> QED
    BY <1>1, <2>2 DEF ReadData, TypeOK, Signal, ovars, wvars, dvars
<1>2. ASSUME ReadWait PROVE TypeOK'
  BY <1>2 DEF ReadWait, TypeOK, Procs, uvars, ovars, wvars, dvars
<1>3. ASSUME ReadFail PROVE TypeOK'
  BY <1>3 DEF ReadFail, TypeOK, Procs, uvars, ovars, wvars, dvars
<1> QED BY <1>1, <1>2, <1>3 DEF Read

LEMMA TypeWriting == ASSUME TypeOK, Writing PROVE TypeOK'
<1> USE DEF TypeOK, Writers, Procs
<1>1. ASSUME NEW n \in WriteSizes, Write(n) PROVE TypeOK'
  BY <1>1, WriteSizesAssumption, MaxBlockAssumption DEF Write, uvars, ovars, dvars
<1>2. ASSUME NEW w \in Writers, NEW n \in WriteSizes, WriteCorked(w, n) PROVE TypeOK'
  <2>1. cork' \in [From : Nat, Left : Nat, Size : Nat] /\ produced' \in Nat
    <3>1. /\ n \in Nat /\ produced \in Nat /\ cork \in [From : Nat, Left : Nat, Size : Nat]
          /\ cork.From \in Nat /\ cork.Left \in Nat
      BY WriteSizesAssumption
    <3> HIDE DEF TypeOK
    <3>2. \/ cork' = cork /\ produced' = produced
          \/ /\ cork' = [From |-> IF cork.Left = 0 THEN produced ELSE cork.From,
                           Left |-> cork.Left + n, Size |-> 0]
             /\ produced' = produced + n
      BY <1>2 DEF WriteCorked
    <3> QED BY <3>1, <3>2
  <2>2. failed' \subseteq Procs
    BY <1>2 DEF WriteCorked
  <2> QED BY <1>2, <2>1, <2>2 DEF WriteCorked, uvars, ovars, dvars
<1>3. ASSUME Cork PROVE TypeOK'
  BY <1>3 DEF Cork, uvars, ovars, dvars
<1>4. ASSUME Uncork PROVE TypeOK'
  <2>1. CASE cork.Left = 0
    BY <1>4, <2>1 DEF Uncork, uvars, ovars, dvars
  <2>2. CASE cork.Left # 0
    <3> DEFINE size == CeilDiv(cork.Left, CeilDiv(cork.Left, MaxBlock))
    <3>1. size \in Nat
      BY <2>2, CeilDivPositive, MaxBlockAssumption
    <3>2. job' = [job EXCEPT !["cell"] = [From |-> cork.From, Left |-> cork.Left, Size |-> size]]
      BY <1>4, <2>2 DEF Uncork
    <3> HIDE DEF size
    <3> QED BY <1>4, <2>2, <3>1, <3>2 DEF Uncork, uvars, ovars, dvars
  <2> QED BY <2>1, <2>2
<1>5. ASSUME NEW w \in Writers, WriteBlock(w) PROVE TypeOK'
  <2> DEFINE n == NextSize(w)
  <2>1. /\ job[w].From \in Nat /\ job[w].Left \in Nat /\ job[w].Size \in Nat
        /\ job \in [Writers -> [From : Nat, Left : Nat, Size : Nat]]
        /\ output \in Seq(Block) /\ outputNext \in Nat /\ outputBytes \in Int
        /\ emitted \in Nat
    OBVIOUS
  <2> HIDE DEF TypeOK
  <2>2. n \in Nat /\ n <= job[w].Left
    BY <2>1 DEF NextSize
  <2>3. /\ output' = Append(output, [Sequence |-> outputNext, From |-> job[w].From,
                                      Size |-> n, End |-> emitted + n])
        /\ outputNext' = outputNext + 1 /\ outputBytes' = outputBytes + n
        /\ emitted' = emitted + n
        /\ job' = [job EXCEPT ![w] = [From |-> job[w].From + n,
                                       Left |-> job[w].Left - n, Size |-> job[w].Size]]
    BY <1>5 DEF WriteBlock, Rest
  <2> HIDE DEF n
  <2>4. output' \in Seq(Block)
    <3>1. [Sequence |-> outputNext, From |-> job[w].From, Size |-> n, End |-> emitted + n]
            \in Block
      BY <2>1, <2>2 DEF Block
    <3> QED BY <3>1, <2>1, <2>3
  <2>5. job' \in [Writers -> [From : Nat, Left : Nat, Size : Nat]]
    <3>1. job[w].From + n \in Nat /\ job[w].Left - n \in Nat
      BY <2>1, <2>2
    <3> QED BY <3>1, <2>1, <2>3
  <2>6. outputNext' \in Nat /\ outputBytes' \in Int /\ emitted' \in Nat
    BY <2>1, <2>2, <2>3
  <2>7. mutex' \in Writers \cup {"free"}
    BY <1>5 DEF WriteBlock
  <2> QED BY <1>5, <2>4, <2>5, <2>6, <2>7 DEF WriteBlock, Signal, TypeOK, uvars, dvars
<1>6. ASSUME NEW w \in Writers, WriteWait(w) PROVE TypeOK'
  BY <1>6 DEF WriteWait, uvars, ovars, dvars
<1>7. ASSUME NEW w \in Writers, WriteFail(w) PROVE TypeOK'
  BY <1>7 DEF WriteFail, uvars, ovars, dvars
<1>8. ASSUME NEW w \in Writers, WriteResume(w) PROVE TypeOK'
  BY <1>8 DEF WriteResume, uvars, ovars, dvars
<1> QED BY <1>1, <1>2, <1>3, <1>4, <1>5, <1>6, <1>7, <1>8 DEF Writing, WriteLoop

\* Dropping acknowledged blocks keeps a sequence of blocks.
LEMMA TypeRelease ==
  ASSUME TypeOK, NEW next \in Nat, ReleaseBefore(next)
  PROVE  /\ output' \in Seq(Block) /\ outputBytes' \in Int
         /\ outputFloor' \in Nat /\ waiting' = {}
<1>1. PICK k \in 0..Len(output) :
        /\ output' = SubSeq(output, k + 1, Len(output))
        /\ outputBytes' = IF k = 0 THEN outputBytes
                          ELSE outputBytes - (output[k].End - (output[1].End - output[1].Size))
  BY DEF ReleaseBefore
<1>2. output' \in Seq(Block)
  BY <1>1 DEF TypeOK
<1>3. outputBytes' \in Int
  BY <1>1 DEF TypeOK, Block
<1> QED BY <1>2, <1>3 DEF ReleaseBefore, Signal

LEMMA TypeDownload == ASSUME TypeOK, Download PROVE TypeOK'
<1> USE DEF TypeOK, Procs
<1>1. ASSUME NEW n \in 0..MaxSeq, Ack(n) PROVE TypeOK'
  <2>1. n \in Nat /\ ReleaseBefore(n) BY <1>1, MaxSeqAssumption DEF Ack
  <2> QED BY <1>1, <2>1, TypeRelease DEF Ack, uvars, wvars, dvars
<1>2. ASSUME NEW d \in Downloads, NEW g \in Generations, NEW n \in 0..MaxSeq, Attach(d, g, n)
      PROVE  TypeOK'
  <2>1. n \in Nat /\ ReleaseBefore(n) /\ g \in Nat
    BY <1>2, MaxSeqAssumption, GenerationsAssumption DEF Attach
  <2> QED BY <1>2, <2>1, TypeRelease DEF Attach, uvars, wvars
<1>3. ASSUME NEW d \in Downloads, NextServe(d) PROVE TypeOK'
  <2>1. [response[d] EXCEPT !.cursor = @ + 1]
          \in [live : BOOLEAN, generation : Nat, cursor : Nat]
    <3>1. response[d] \in [live : BOOLEAN, generation : Nat, cursor : Nat]
      OBVIOUS
    <3>2. response[d].cursor + 1 \in Nat
      BY <3>1
    <3> HIDE DEF TypeOK
    <3> QED BY <3>1, <3>2
  <2>2. response' \in [Downloads -> [live : BOOLEAN, generation : Nat, cursor : Nat]]
    BY <1>3, <2>1 DEF NextServe
  <2> QED BY <1>3, <2>2 DEF NextServe, uvars, ovars, wvars
<1>4. ASSUME NEW d \in Downloads, NextWait(d) PROVE TypeOK'
  BY <1>4 DEF NextWait, uvars, ovars, wvars, dvars
<1>5. ASSUME NEW d \in Downloads, EndResponse(d) PROVE TypeOK'
  BY <1>5 DEF EndResponse, NoResponse, uvars, ovars, wvars
<1> QED BY <1>1, <1>2, <1>3, <1>4, <1>5 DEF Download, NextFail, NextCancel

LEMMA TypeFlight == ASSUME TypeOK, Flight PROVE TypeOK'
<1> USE DEF TypeOK, Procs
<1>1. ASSUME NEW n \in 0..outputNext, FlightCall(n) PROVE TypeOK'
  BY <1>1 DEF FlightCall, uvars, ovars, wvars
<1>2. ASSUME FlightWait PROVE TypeOK'
  BY <1>2 DEF FlightWait, uvars, ovars, wvars, dvars
<1>3. ASSUME EndFlight PROVE TypeOK'
  BY <1>3 DEF EndFlight, uvars, ovars, wvars
<1> QED BY <1>1, <1>2, <1>3 DEF Flight, FlightReturn, FlightCancel

LEMMA TypeLifetime == ASSUME TypeOK, Lifetime PROVE TypeOK'
<1> USE DEF TypeOK, Procs
<1>1. ASSUME NEW v \in Deadlines, SetDeadline(v) PROVE TypeOK'
  BY <1>1, DeadlinesAssumption DEF SetDeadline, Signal, uvars, ovars, wvars, dvars
<1>2. ASSUME DeadlinePasses PROVE TypeOK'
  BY <1>2 DEF DeadlinePasses, uvars, ovars, wvars, dvars
<1>3. ASSUME Close PROVE TypeOK'
  BY <1>3 DEF Close, Signal, Sequenced, wvars, dvars
<1> QED BY <1>1, <1>2, <1>3 DEF Lifetime

LEMMA TypeNext == ASSUME TypeOK, UploadWindow, [Next]_vars PROVE TypeOK'
<1>1. CASE UNCHANGED vars
  BY <1>1 DEF TypeOK, vars, uvars, ovars, wvars, dvars
<1>2. CASE Upload
  BY <1>2, TypePut DEF Upload
<1> QED
  BY <1>1, <1>2, TypeRead, TypeWriting, TypeDownload, TypeFlight, TypeLifetime DEF Next

-----------------------------------------------------------------------------
(* Upload side. *)

LEMMA UploadFrame ==
  ASSUME UploadWindow, UploadExactlyOnce, UNCHANGED <<closed, uvars>>
  PROVE  UploadWindow' /\ UploadExactlyOnce'
  BY DEF UploadWindow, UploadExactlyOnce, uvars

LEMMA UploadAfterPut ==
  ASSUME TypeOK, UploadWindow, UploadExactlyOnce,
         NEW s \in 0..MaxSeq, NEW b \in Bodies, Put(s, b)
  PROVE  UploadWindow' /\ UploadExactlyOnce'
<1> DEFINE pend == [t \in DOMAIN pending \cup {s} |-> IF t = s THEN b ELSE pending[t]]
<1>1. PICK m \in uploadNext..(uploadNext + UploadSlots) :
        /\ FirstMissing(pend, m)
        /\ input' = input \o [i \in 1..(m - uploadNext) |-> pend[uploadNext + i - 1]]
        /\ receipts' = [t \in {u \in DOMAIN receipts \cup uploadNext..(m - 1) :
                                 u + ReceiptCount >= m} |->
                          IF t < uploadNext THEN receipts[t] ELSE pend[t]]
        /\ pending' = [t \in {u \in DOMAIN pend : u >= m} |-> pend[t]]
        /\ uploadNext' = m
  BY DEF Put
<1>2. /\ uploadNext \in Nat /\ consumed \in Nat /\ input \in Seq(Bodies)
      /\ m \in Nat /\ ReceiptCount \in Nat /\ UploadSlots \in Nat \ {0}
  BY <1>1, UploadSlotsAssumption, ReceiptCountAssumption DEF TypeOK
<1>3. ~closed /\ s >= uploadNext /\ s - uploadNext < UploadSlots /\ s \in Nat
  BY <1>2, MaxSeqAssumption DEF Put, PutResult, OutOfWindow
<1>4. /\ DOMAIN receipts = {t \in 0..(uploadNext - 1) : t + ReceiptCount >= uploadNext}
      /\ DOMAIN pending \subseteq (uploadNext + 1)..(uploadNext + UploadSlots - 1)
      /\ consumed + Len(input) = uploadNext
      /\ \A i \in 1..Len(input) : consumed + i - 1 \in DOMAIN receipts =>
            input[i] = receipts[consumed + i - 1]
  BY <1>3 DEF UploadWindow, UploadExactlyOnce
<1>5. DOMAIN receipts' = {t \in 0..(m - 1) : t + ReceiptCount >= m}
  BY <1>1, <1>2, <1>4
<1>6. DOMAIN pending' \subseteq (m + 1)..(m + UploadSlots - 1)
  <2>1. DOMAIN pend \subseteq uploadNext..(uploadNext + UploadSlots - 1)
    BY <1>2, <1>3, <1>4
  <2>2. m \notin DOMAIN pend BY <1>1 DEF FirstMissing
  <2> HIDE DEF pend
  <2>3. DOMAIN pending' = {u \in DOMAIN pend : u >= m} BY <1>1
  <2> QED BY <2>1, <2>2, <2>3, <1>1, <1>2
<1>7. consumed' = consumed /\ closed' = closed
  BY DEF Put
<1> HIDE DEF pend
<1>8. /\ Len(input') = Len(input) + (m - uploadNext)
      /\ \A i \in 1..Len(input) : input'[i] = input[i]
      /\ \A i \in (Len(input) + 1)..Len(input') :
           input'[i] = pend[uploadNext + (i - Len(input)) - 1]
  <2> DEFINE g == [i \in 1..(m - uploadNext) |-> pend[uploadNext + i - 1]]
  <2> DEFINE R == {g[i] : i \in 1..(m - uploadNext)} \cup Bodies
  <2>1. m - uploadNext \in Nat BY <1>1, <1>2
  <2>2. g \in Seq(R) /\ Len(g) = m - uploadNext BY <2>1
  <2>3. \A i \in 1..(m - uploadNext) : g[i] = pend[uploadNext + i - 1] OBVIOUS
  <2>4. input' = input \o g BY <1>1
  <2>5. input \in Seq(R) BY <1>2
  <2> HIDE DEF g, R
  <2>6. Len(input') = Len(input) + (m - uploadNext)
    <3>1. Len(input \o g) = Len(input) + Len(g) BY <2>2, <2>5
    <3> QED BY <3>1, <2>2, <2>4
  <2>7. \A i \in 1..Len(input) : input'[i] = input[i] BY <2>1, <2>2, <2>4, <2>5
  <2>8. \A i \in (Len(input) + 1)..Len(input') : input'[i] = g[i - Len(input)]
    BY <2>1, <2>2, <2>4, <2>5, <2>6
  <2>9. \A i \in (Len(input) + 1)..Len(input') : i - Len(input) \in 1..(m - uploadNext)
    BY <2>1, <2>5, <2>6
  <2> QED BY <2>3, <2>6, <2>7, <2>8, <2>9
<1>9. consumed' + Len(input') = uploadNext'
  <2>1. uploadNext' = m BY <1>1
  <2>2. Len(input) \in Nat /\ consumed + Len(input) = uploadNext BY <1>2, <1>4
  <2>3. Len(input') = Len(input) + (m - uploadNext) BY <1>8
  <2> QED BY <2>1, <2>2, <2>3, <1>2, <1>7
<1>10. ASSUME NEW i \in 1..Len(input'), consumed + i - 1 \in DOMAIN receipts'
       PROVE  input'[i] = receipts'[consumed + i - 1]
  <2>1. i \in Nat /\ Len(input) \in Nat BY <1>2, <1>8, <1>1
  <2>2. CASE i <= Len(input)
    <3>1. consumed + i - 1 < uploadNext BY <2>1, <2>2, <1>2, <1>4
    <3>2. consumed + i - 1 \in DOMAIN receipts BY <3>1, <1>10, <1>1, <1>2
    <3>3. receipts'[consumed + i - 1] = receipts[consumed + i - 1]
      BY <3>1, <1>10, <1>1
    <3> QED BY <3>2, <3>3, <2>1, <2>2, <1>4, <1>8
  <2>3. CASE i > Len(input)
    <3>1. ~(consumed + i - 1 < uploadNext) BY <2>1, <2>3, <1>2, <1>4
    <3>2. receipts'[consumed + i - 1] = pend[consumed + i - 1]
      BY <3>1, <1>10, <1>1
    <3>3. uploadNext + (i - Len(input)) - 1 = consumed + i - 1
      BY <2>1, <1>2, <1>4
    <3> QED BY <3>2, <3>3, <2>1, <2>3, <1>8
  <2> QED BY <2>1, <2>2, <2>3
<1> QED BY <1>1, <1>5, <1>6, <1>7, <1>9, <1>10 DEF UploadWindow, UploadExactlyOnce

LEMMA UploadRead ==
  ASSUME TypeOK, UploadWindow, UploadExactlyOnce, NEW n \in 1..MaxBlock, ReadData(n)
  PROVE  UploadWindow' /\ UploadExactlyOnce'
<1>1. UploadWindow'
  BY DEF UploadWindow, ReadData
<1>2. /\ input \in Seq(Bodies) /\ input # <<>> /\ consumed \in Nat /\ ~closed
      /\ closed' = closed /\ receipts' = receipts /\ uploadNext' = uploadNext
  BY DEF ReadData, TypeOK
<1> DEFINE Matches == \A i \in 1..Len(input) : consumed + i - 1 \in DOMAIN receipts =>
                         input[i] = receipts[consumed + i - 1]
<1>a. consumed + Len(input) = uploadNext /\ Matches
  BY <1>2 DEF UploadExactlyOnce
<1>b. ASSUME consumed' + Len(input') = uploadNext', Matches' PROVE UploadExactlyOnce'
  BY <1>b DEF UploadExactlyOnce
<1>3. CASE input' = input /\ consumed' = consumed
  BY <1>1, <1>2, <1>3, <1>a, <1>b
<1>4. CASE input' = Tail(input) /\ consumed' = consumed + 1
  <2>1. /\ Len(input') = Len(input) - 1
        /\ \A i \in 1..Len(input') : input'[i] = input[i + 1] /\ i + 1 \in 1..Len(input)
    BY <1>2, <1>4
  <2>2. \A i \in 1..Len(input') : consumed' + i - 1 = consumed + (i + 1) - 1
    BY <1>2, <1>4, <2>1
  <2>3. consumed' + Len(input') = uploadNext'
    BY <1>2, <1>4, <1>a, <2>1
  <2>4. Matches'
    <3> SUFFICES ASSUME NEW i \in 1..Len(input'), consumed' + i - 1 \in DOMAIN receipts'
                 PROVE  input'[i] = receipts'[consumed' + i - 1]
      OBVIOUS
    <3> QED BY <1>2, <1>a, <2>1, <2>2
  <2> HIDE DEF Matches
  <2> QED BY <1>1, <2>3, <2>4, <1>b
<1> QED BY <1>1, <1>3, <1>4 DEF ReadData

LEMMA UploadNext ==
  ASSUME TypeOK, UploadWindow, UploadExactlyOnce, [Next]_vars
  PROVE  UploadWindow' /\ UploadExactlyOnce'
<1> USE DEF uvars
<1>1. CASE Upload
  BY <1>1, UploadAfterPut DEF Upload
<1>2. CASE Read
  BY <1>2, UploadRead, UploadFrame DEF Read, ReadWait, ReadFail
<1>3. CASE Writing
  BY <1>3, UploadFrame
  DEF Writing, WriteLoop, Write, WriteCorked, Cork, Uncork, WriteBlock, WriteWait,
      WriteFail, WriteResume
<1>4. CASE Download
  BY <1>4, UploadFrame
  DEF Download, Ack, Attach, NextServe, NextWait, NextFail, NextCancel, EndResponse
<1>5. CASE Flight
  BY <1>5, UploadFrame
  DEF Flight, FlightCall, FlightWait, FlightReturn, FlightCancel, EndFlight
<1>6. CASE \E v \in Deadlines : SetDeadline(v)
  BY <1>6, UploadFrame DEF SetDeadline
<1>7. CASE DeadlinePasses
  BY <1>7, UploadFrame DEF DeadlinePasses
<1>8. CASE Close
  BY <1>8 DEF Close, UploadWindow, UploadExactlyOnce
<1>9. CASE UNCHANGED vars
  BY <1>9, UploadFrame DEF vars
<1> QED BY <1>1, <1>2, <1>3, <1>4, <1>5, <1>6, <1>7, <1>8, <1>9 DEF Next, Lifetime

-----------------------------------------------------------------------------
(* Replay buffer. *)

LEMMA ReplayFrame ==
  ASSUME ReplayWindow, ReplayBound, UNCHANGED <<closed, ovars>>
  PROVE  ReplayWindow' /\ ReplayBound'
  BY DEF ReplayWindow, ReplayBound, ReplayOffsets, ovars

LEMMA ReplayWrite ==
  ASSUME TypeOK, ReplayWindow, ReplayBound, NEW w \in Writers, WriteBlock(w)
  PROVE  ReplayWindow' /\ ReplayBound'
<1> DEFINE n == NextSize(w)
<1> DEFINE b == [Sequence |-> outputNext, From |-> job[w].From, Size |-> n, End |-> emitted + n]
<1>1. /\ n \in Nat /\ b \in Block /\ output \in Seq(Block)
      /\ emitted \in Nat /\ outputNext \in Nat /\ outputFloor \in Nat /\ outputBytes \in Int
  BY DEF TypeOK, NextSize, Block
<1>2. /\ output' = Append(output, b) /\ outputNext' = outputNext + 1
      /\ outputBytes' = outputBytes + n /\ emitted' = emitted + n
      /\ outputFloor' = outputFloor /\ closed' = closed /\ ~closed /\ Room(n)
  BY DEF WriteBlock
<1> DEFINE L == Len(output)
<1> HIDE DEF n
<1>3. /\ L \in Nat /\ Len(output') = L + 1 /\ output'[L + 1] = b
      /\ \A i \in 1..L : output'[i] = output[i] /\ output[i] \in Block
      /\ output' # <<>>
  BY <1>1, <1>2
<1>4. b.Sequence = outputNext /\ b.Size = n /\ b.End = emitted + n
  OBVIOUS
<1> HIDE DEF b
<1>5. ReplayWindow'
  BY <1>1, <1>2, <1>3, <1>4 DEF ReplayWindow
<1>6. ReplayOffsets'
  <2>1. \A i \in 1..L : output[i].End \in Nat /\ output[i].Size \in Nat BY <1>3 DEF Block
  <2>2. \A i \in 1..Len(output') : output'[i].End <= emitted'
    BY <1>1, <1>2, <1>3, <1>4, <2>1 DEF ReplayBound, ReplayOffsets
  <2>3. \A i, j \in 1..Len(output') : i < j => output'[i].End <= output'[j].End - output'[j].Size
    <3> SUFFICES ASSUME NEW i \in 1..(L + 1), NEW j \in 1..(L + 1), i < j
                 PROVE  output'[i].End <= output'[j].End - output'[j].Size
      BY <1>3
    <3>1. i \in 1..L /\ output'[i] = output[i] BY <1>3
    <3>2. CASE j = L + 1
      <4>1. output'[j] = b BY <3>2, <1>3
      <4>2. output[i].End <= emitted BY <3>1 DEF ReplayBound, ReplayOffsets
      <4> QED BY <3>1, <4>1, <4>2, <1>1, <1>4, <2>1
    <3>3. CASE j # L + 1
      <4>1. j \in 1..L /\ output'[j] = output[j] BY <3>3, <1>3
      <4> QED BY <3>1, <4>1 DEF ReplayBound, ReplayOffsets
    <3> QED BY <3>2, <3>3
  <2>4. \A i, j \in 1..Len(output') : j = i + 1 => output'[i].End = output'[j].End - output'[j].Size
    <3> SUFFICES ASSUME NEW i \in 1..(L + 1), NEW j \in 1..(L + 1), j = i + 1
                 PROVE  output'[i].End = output'[j].End - output'[j].Size
      BY <1>3
    <3>1. i \in 1..L /\ output'[i] = output[i] BY <1>3
    <3>2. CASE j = L + 1
      <4>1. output'[j] = b /\ i = L BY <3>1, <3>2, <1>3
      <4>2. output[i].End = emitted BY <3>1, <4>1 DEF ReplayBound, ReplayOffsets
      <4> QED BY <3>1, <4>1, <4>2, <1>1, <1>4
    <3>3. CASE j # L + 1
      <4>1. j \in 1..L /\ output'[j] = output[j] BY <3>3, <1>3
      <4> QED BY <3>1, <4>1 DEF ReplayBound, ReplayOffsets
    <3> QED BY <3>2, <3>3
  <2>5. \A i \in 1..Len(output') : i = Len(output') => output'[i].End = emitted'
    BY <1>1, <1>2, <1>3, <1>4
  <2> QED BY <2>2, <2>3, <2>4, <2>5 DEF ReplayOffsets
<1>7. outputBytes' <= ReplayLimit /\ Len(output') <= ReplaySlots
  BY <1>1, <1>2, <1>3, ReplayAssumption DEF Room
<1>8. outputBytes' = emitted' - (output'[1].End - output'[1].Size)
  <2>1. CASE output = <<>>
    <3>1. output'[1] = b BY <2>1, <1>1, <1>2
    <3> QED BY <2>1, <3>1, <1>1, <1>2, <1>4 DEF ReplayBound
  <2>2. CASE output # <<>>
    <3>1. output'[1] = output[1] /\ output[1] \in Block BY <2>2, <1>1, <1>3
    <3>2. output[1].End \in Nat /\ output[1].Size \in Nat BY <3>1 DEF Block
    <3>3. outputBytes = emitted - (output[1].End - output[1].Size) BY <2>2 DEF ReplayBound
    <3>4. outputBytes' = outputBytes + n /\ emitted' = emitted + n BY <1>2
    <3>5. n \in Nat /\ emitted \in Nat /\ outputBytes \in Int BY <1>1
    <3> QED BY <3>1, <3>2, <3>3, <3>4, <3>5
  <2> QED BY <2>1, <2>2
<1> QED BY <1>3, <1>5, <1>6, <1>7, <1>8 DEF ReplayBound

LEMMA ReplayRelease ==
  ASSUME TypeOK, ReplayWindow, ReplayBound, NEW next \in Nat, AckResult(next) = "ok",
         ReleaseBefore(next), UNCHANGED <<closed, outputNext, emitted>>
  PROVE  ReplayWindow' /\ ReplayBound'
<1> DEFINE L == Len(output)
<1>1. PICK k \in 0..Len(output) :
        /\ \A i \in 1..k : output[i].Sequence < next
        /\ k < Len(output) => output[k + 1].Sequence >= next
        /\ output' = SubSeq(output, k + 1, Len(output))
        /\ outputBytes' = IF k = 0 THEN outputBytes
                          ELSE outputBytes - (output[k].End - (output[1].End - output[1].Size))
  BY DEF ReleaseBefore
<1>2. /\ output \in Seq(Block) /\ outputNext \in Nat /\ outputFloor \in Nat
      /\ emitted \in Nat /\ outputBytes \in Int /\ L \in Nat /\ k \in Nat
      /\ \A i \in 1..L : output[i] \in Block
  BY <1>1 DEF TypeOK
<1>3. /\ ~closed /\ next <= outputNext /\ next >= outputFloor
      /\ outputFloor' = next
  BY <1>2 DEF AckResult, ReleaseBefore
<1>4. /\ L = outputNext - outputFloor
      /\ \A i \in 1..L : output[i].Sequence = outputNext - L + i - 1
  BY <1>3 DEF ReplayWindow
<1>5. k = next - outputFloor
  <2>1. k > 0 => k \in 1..L /\ output[k].Sequence < next BY <1>1, <1>2
  <2>2. k < L => k + 1 \in 1..L /\ output[k + 1].Sequence >= next BY <1>1, <1>2
  <2>3. k > 0 => outputNext - L + k - 1 < next BY <2>1, <1>4
  <2>4. k < L => outputNext - L + (k + 1) - 1 >= next BY <2>2, <1>4
  <2>5. L = outputNext - outputFloor BY <1>4
  <2>6. k <= L BY <1>1, <1>2
  <2> QED BY <2>3, <2>4, <2>5, <2>6, <1>2, <1>3
<1>6. /\ Len(output') = L - k
      /\ \A i \in 1..(L - k) : output'[i] = output[i + k] /\ i + k \in 1..L
  BY <1>1, <1>2
<1>7. ReplayWindow'
  <2>1. Len(output') = outputNext' - outputFloor'
    BY <1>2, <1>3, <1>4, <1>5, <1>6
  <2>2. ASSUME NEW i \in 1..Len(output')
        PROVE  output'[i].Sequence = outputNext' - Len(output') + i - 1
    <3>1. i \in 1..(L - k) /\ i + k \in 1..L /\ output'[i] = output[i + k] BY <1>6, <2>2
    <3>2. output[i + k].Sequence = outputNext - L + (i + k) - 1 BY <3>1, <1>4
    <3> QED BY <3>1, <3>2, <1>2, <1>6
  <2> QED BY <2>1, <2>2 DEF ReplayWindow
<1>8. \A i \in 1..L : output[i].End \in Nat /\ output[i].Size \in Nat
  BY <1>2 DEF Block
<1>9. ReplayOffsets'
  <2>1. \A i \in 1..Len(output') : output'[i].End <= emitted'
    BY <1>2, <1>6 DEF ReplayBound, ReplayOffsets
  <2>2. \A i, j \in 1..Len(output') : i < j => output'[i].End <= output'[j].End - output'[j].Size
    <3> SUFFICES ASSUME NEW i \in 1..Len(output'), NEW j \in 1..Len(output'), i < j
                 PROVE  output'[i].End <= output'[j].End - output'[j].Size
      OBVIOUS
    <3>1. i \in 1..(L - k) /\ j \in 1..(L - k) BY <1>6
    <3>2. output'[i] = output[i + k] /\ output'[j] = output[j + k] BY <1>6, <3>1
    <3>3. i + k \in 1..L /\ j + k \in 1..L BY <1>6, <3>1
    <3>4. i + k < j + k BY <1>2, <3>1
    <3>5. output[i + k].End <= output[j + k].End - output[j + k].Size
      BY <3>3, <3>4 DEF ReplayBound, ReplayOffsets
    <3> QED BY <3>2, <3>5
  <2>3. \A i, j \in 1..Len(output') : j = i + 1 => output'[i].End = output'[j].End - output'[j].Size
    <3> SUFFICES ASSUME NEW i \in 1..Len(output'), NEW j \in 1..Len(output'), j = i + 1
                 PROVE  output'[i].End = output'[j].End - output'[j].Size
      OBVIOUS
    <3>1. i \in 1..(L - k) /\ j \in 1..(L - k) BY <1>6
    <3>2. output'[i] = output[i + k] /\ output'[j] = output[j + k] BY <1>6, <3>1
    <3>3. i + k \in 1..L /\ j + k \in 1..L BY <1>6, <3>1
    <3>4. j + k = (i + k) + 1 BY <1>2, <3>1
    <3>5. output[i + k].End = output[j + k].End - output[j + k].Size
      BY <3>3, <3>4 DEF ReplayBound, ReplayOffsets
    <3> QED BY <3>2, <3>5
  <2>4. \A i \in 1..Len(output') : i = Len(output') => output'[i].End = emitted'
    <3> SUFFICES ASSUME NEW i \in 1..(L - k), i = L - k PROVE output[i + k].End = emitted
      BY <1>6
    <3>1. i + k \in 1..L /\ i + k = L BY <1>2, <1>6
    <3> QED BY <3>1 DEF ReplayBound, ReplayOffsets
  <2> QED BY <2>1, <2>2, <2>3, <2>4 DEF ReplayOffsets
<1>10. Len(output') <= ReplaySlots
  BY <1>2, <1>6, ReplayAssumption DEF ReplayBound
<1>11. CASE k = 0
  <2>1. output' = output BY <1>1, <1>2, <1>11
  <2> QED BY <2>1, <1>1, <1>7, <1>9, <1>10, <1>11 DEF ReplayBound
<1>12. CASE k > 0
  <2>1. /\ 1 \in 1..L /\ k \in 1..L /\ output # <<>>
        /\ outputBytes = emitted - (output[1].End - output[1].Size)
        /\ outputBytes' = outputBytes - (output[k].End - (output[1].End - output[1].Size))
    BY <1>1, <1>2, <1>12 DEF ReplayBound
  <2>2. outputBytes' = emitted - output[k].End
    BY <2>1, <1>2, <1>8
  <2>3. output[k].End >= output[1].End - output[1].Size
    <3>1. k > 1 => output[1].End <= output[k].End - output[k].Size
      BY <2>1, <1>2 DEF ReplayBound, ReplayOffsets
    <3>2. /\ output[1].End \in Nat /\ output[1].Size \in Nat
          /\ output[k].End \in Nat /\ output[k].Size \in Nat
      BY <2>1, <1>8
    <3>3. CASE k = 1
      BY <3>2, <3>3
    <3>4. CASE k > 1
      BY <3>1, <3>2, <3>4
    <3> QED BY <3>3, <3>4, <1>2, <1>12
  <2>4. outputBytes' <= ReplayLimit
    <3>1. outputBytes <= ReplayLimit /\ ReplayLimit \in Nat
      BY ReplayAssumption DEF ReplayBound
    <3>2. output[1].End \in Nat /\ output[1].Size \in Nat /\ output[k].End \in Nat
      BY <2>1, <1>8
    <3>3. outputBytes' <= outputBytes
      BY <2>1, <2>2, <2>3, <3>2, <1>2
    <3> QED BY <3>1, <3>2, <3>3, <2>2, <1>2
  <2>5. CASE k = L
    <3>1. output' = <<>> BY <2>5, <1>1, <1>2, <1>6
    <3>2. output[k].End = emitted BY <2>1, <2>5 DEF ReplayBound, ReplayOffsets
    <3>3. outputBytes' = 0 BY <3>2, <2>2, <1>2
    <3> QED BY <3>1, <3>3, <2>4, <1>7, <1>9, <1>10 DEF ReplayBound
  <2>6. CASE k < L
    <3>1. output' # <<>> /\ output'[1] = output[k + 1] /\ k + 1 \in 1..L
      BY <2>6, <1>2, <1>6
    <3>2. output[k].End = output[k + 1].End - output[k + 1].Size
      BY <2>1, <3>1 DEF ReplayBound, ReplayOffsets
    <3>3. outputBytes' = emitted' - (output'[1].End - output'[1].Size)
      BY <3>1, <3>2, <2>2
    <3> QED BY <3>1, <3>3, <2>4, <1>7, <1>9, <1>10 DEF ReplayBound
  <2> QED BY <2>5, <2>6, <1>2
<1> QED BY <1>11, <1>12, <1>2

LEMMA ReplayNext ==
  ASSUME TypeOK, ReplayWindow, ReplayBound, [Next]_vars
  PROVE  ReplayWindow' /\ ReplayBound'
<1>1. CASE Upload
  BY <1>1, ReplayFrame DEF Upload, Put
<1>2. CASE Read
  BY <1>2, ReplayFrame DEF Read, ReadData, ReadWait, ReadFail
<1>3. CASE Writing
  BY <1>3, ReplayWrite, ReplayFrame
  DEF Writing, WriteLoop, Write, WriteCorked, Cork, Uncork, WriteWait, WriteFail, WriteResume
<1>4. CASE \E n \in 0..MaxSeq : Ack(n)
  BY <1>4, ReplayRelease, MaxSeqAssumption DEF Ack
<1>5. CASE \E d \in Downloads, g \in Generations, n \in 0..MaxSeq : Attach(d, g, n)
  BY <1>5, ReplayRelease, MaxSeqAssumption DEF Attach
<1>6. CASE \E d \in Downloads : NextServe(d) \/ NextWait(d) \/ NextFail(d) \/ NextCancel(d)
  BY <1>6, ReplayFrame DEF NextServe, NextWait, NextFail, NextCancel, EndResponse
<1>7. CASE Flight
  BY <1>7, ReplayFrame
  DEF Flight, FlightCall, FlightWait, FlightReturn, FlightCancel, EndFlight
<1>8. CASE \E v \in Deadlines : SetDeadline(v)
  BY <1>8, ReplayFrame DEF SetDeadline
<1>9. CASE DeadlinePasses
  BY <1>9, ReplayFrame DEF DeadlinePasses
<1>10. CASE Close
  <2>1. output' = <<>> /\ outputBytes' = 0 /\ closed'
    BY <1>10 DEF Close
  <2>2. Len(output') = 0 BY <2>1
  <2> QED BY <2>1, <2>2, ReplayAssumption DEF ReplayWindow, ReplayBound, ReplayOffsets
<1>11. CASE UNCHANGED vars
  BY <1>11, ReplayFrame DEF vars
<1> QED
  BY <1>1, <1>2, <1>3, <1>4, <1>5, <1>6, <1>7, <1>8, <1>9, <1>10, <1>11
  DEF Next, Download, Lifetime

-----------------------------------------------------------------------------
(* Waiting goroutines. *)

\* The writer inside writeLocked has bytes left and is not asleep.
HolderWorks ==
  mutex \in Writers => job[mutex].Left > 0 /\ mutex \notin waiting

LEMMA Distinct ==
  /\ "reader" \notin Writers \cup Downloads \cup {"flight"}
  /\ "flight" \notin Writers \cup Downloads
  /\ Writers \cap Downloads = {}
  /\ "free" \notin Writers
  BY DownloadsAssumption DEF Writers

\* Everyone is awake: nothing to show but that the holder has work.
LEMMA WakeupNone ==
  ASSUME waiting' = {}, mutex' \in Writers => job'[mutex'].Left > 0
  PROVE  NoLostWakeup' /\ HolderWorks'
  BY DEF NoLostWakeup, HolderWorks

\* What a sleeper's condition reads.
condition == <<closed, input, readWaiting, output, outputBytes, outputNext, outputFloor,
               job, generation, attached, response, flight>>

\* A step that touches none of that may wake sleepers, not more.
LEMMA WakeupFrame ==
  ASSUME NoLostWakeup, HolderWorks, waiting' \subseteq waiting,
         UNCHANGED <<condition, mutex>>
  PROVE  NoLostWakeup' /\ HolderWorks'
  BY DEF NoLostWakeup, HolderWorks, condition, NextError, FlightReady, Room, NextSize

LEMMA WakeupRead ==
  ASSUME TypeOK, NoLostWakeup, HolderWorks, Read PROVE NoLostWakeup' /\ HolderWorks'
<1>1. ASSUME NEW n \in 1..MaxBlock, ReadData(n) PROVE NoLostWakeup' /\ HolderWorks'
  BY <1>1, WakeupNone, Distinct DEF ReadData, Signal, Free, wvars
<1>2. ASSUME ReadWait PROVE NoLostWakeup' /\ HolderWorks'
  BY <1>2, Distinct DEF ReadWait, NoLostWakeup, HolderWorks, Free, wvars, uvars
<1>3. ASSUME ReadFail PROVE NoLostWakeup' /\ HolderWorks'
  BY <1>3, Distinct
  DEF ReadFail, NoLostWakeup, HolderWorks, Free, NextError, FlightReady, Room, NextSize,
      uvars, ovars, wvars, dvars
<1> QED BY <1>1, <1>2, <1>3 DEF Read

LEMMA WakeupWriting ==
  ASSUME TypeOK, NoLostWakeup, HolderWorks, Writing PROVE NoLostWakeup' /\ HolderWorks'
<1> USE DEF uvars, ovars, wvars, dvars
<1>1. ASSUME NEW n \in WriteSizes, Write(n) PROVE NoLostWakeup' /\ HolderWorks'
  <2>1. /\ "tls" \notin waiting /\ waiting' = waiting /\ mutex' = "tls"
        /\ job'["tls"].Left = n /\ job'["cell"] = job["cell"] /\ n > 0
    <3>1. n \in Nat /\ n > 0 BY WriteSizesAssumption
    <3>2. job \in [Writers -> [From : Nat, Left : Nat, Size : Nat]] BY DEF TypeOK
    <3>3. /\ "tls" \notin waiting /\ waiting' = waiting /\ mutex' = "tls"
          /\ job' = [job EXCEPT !["tls"] =
                       [From |-> produced, Left |-> n, Size |-> MaxBlock]]
      BY <1>1 DEF Write, Awake
    <3> QED BY <3>1, <3>2, <3>3 DEF Writers
  <2>2. HolderWorks' BY <2>1 DEF HolderWorks
  <2>3. NoLostWakeup'
    BY <1>1, <2>1 DEF Write, NoLostWakeup, NextError, FlightReady, Room, NextSize, Writers
  <2> QED BY <2>2, <2>3
<1>2. ASSUME NEW w \in Writers, NEW n \in WriteSizes, WriteCorked(w, n)
      PROVE  NoLostWakeup' /\ HolderWorks'
  BY <1>2, WakeupFrame DEF WriteCorked, condition
<1>3. ASSUME Cork PROVE NoLostWakeup' /\ HolderWorks'
  BY <1>3, WakeupFrame DEF Cork, condition
<1>4. ASSUME Uncork PROVE NoLostWakeup' /\ HolderWorks'
  <2>1. CASE cork.Left = 0
    BY <1>4, <2>1, WakeupFrame DEF Uncork, condition
  <2>2. CASE cork.Left # 0
    <3>1. "cell" \notin waiting
      BY <1>4 DEF Uncork, NoLostWakeup, Writers
    <3>a. cork.Left > 0 BY <2>2 DEF TypeOK
    <3>b. PICK size : job' = [job EXCEPT !["cell"] =
                                [From |-> cork.From, Left |-> cork.Left, Size |-> size]]
      BY <1>4, <2>2 DEF Uncork
    <3>c. job'["tls"] = job["tls"] /\ job'["cell"].Left = cork.Left
      BY <3>b DEF TypeOK, Writers
    <3>2. /\ waiting' = waiting /\ mutex' = "cell" /\ job'["tls"] = job["tls"]
          /\ job'["cell"].Left = cork.Left /\ cork.Left > 0
      BY <1>4, <2>2, <3>a, <3>c DEF Uncork
    <3>3. HolderWorks' BY <3>1, <3>2 DEF HolderWorks
    <3>4. NoLostWakeup'
      BY <1>4, <3>1, <3>2
      DEF Uncork, NoLostWakeup, NextError, FlightReady, Room, NextSize, Writers
    <3> QED BY <3>3, <3>4
  <2> QED BY <2>1, <2>2
<1>5. ASSUME NEW w \in Writers, WriteBlock(w) PROVE NoLostWakeup' /\ HolderWorks'
  <2>1. /\ job[w].Left \in Nat /\ job[w].Size \in Nat /\ job[w].From \in Nat
        /\ NextSize(w) \in Nat /\ NextSize(w) <= job[w].Left
    BY DEF TypeOK, NextSize
  <2>2. job'[w].Left = job[w].Left - NextSize(w)
    BY <1>5 DEF WriteBlock, Rest, TypeOK
  <2>3. mutex' \in Writers => job'[mutex'].Left > 0
    BY <1>5, <2>1, <2>2, Distinct DEF WriteBlock
  <2> QED BY <1>5, <2>3, WakeupNone DEF WriteBlock, Signal
<1>6. ASSUME NEW w \in Writers, WriteWait(w) PROVE NoLostWakeup' /\ HolderWorks'
  <2>1. job[w].Left > 0 BY <1>6 DEF WriteWait, HolderWorks
  <2> QED
    BY <1>6, <2>1, Distinct
    DEF WriteWait, NoLostWakeup, HolderWorks, NextError, FlightReady, Room, NextSize
<1>7. ASSUME NEW w \in Writers, WriteFail(w) PROVE NoLostWakeup' /\ HolderWorks'
  <2>1. /\ waiting' = waiting \ {w} /\ mutex' = "free"
        /\ \A v \in Writers \ {w} : job'[v] = job[v]
    BY <1>7 DEF WriteFail, TypeOK
  <2> QED
    BY <1>7, <2>1, Distinct
    DEF WriteFail, NoLostWakeup, HolderWorks, NextError, FlightReady, Room, NextSize
<1>8. ASSUME NEW w \in Writers, WriteResume(w) PROVE NoLostWakeup' /\ HolderWorks'
  BY <1>8
  DEF WriteResume, Awake, NoLostWakeup, HolderWorks, NextError, FlightReady, Room, NextSize
<1> QED
  BY <1>1, <1>2, <1>3, <1>4, <1>5, <1>6, <1>7, <1>8 DEF Writing, WriteLoop, Writers

LEMMA WakeupDownload ==
  ASSUME TypeOK, NoLostWakeup, HolderWorks, Download PROVE NoLostWakeup' /\ HolderWorks'
<1> USE DEF uvars, ovars, wvars, dvars
<1>1. ASSUME NEW n \in 0..MaxSeq, Ack(n) PROVE NoLostWakeup' /\ HolderWorks'
  BY <1>1, WakeupNone, Distinct DEF Ack, ReleaseBefore, Signal, Free
<1>2. ASSUME NEW d \in Downloads, NEW g \in Generations, NEW n \in 0..MaxSeq, Attach(d, g, n)
      PROVE  NoLostWakeup' /\ HolderWorks'
  BY <1>2, WakeupNone, Distinct DEF Attach, ReleaseBefore, Signal, Free
<1>3. ASSUME NEW d \in Downloads, NextServe(d) PROVE NoLostWakeup' /\ HolderWorks'
  <2>1. \A e \in Downloads \ {d} : response'[e] = response[e]
    BY <1>3 DEF NextServe, TypeOK
  <2>2. d \notin waiting /\ waiting' = waiting BY <1>3 DEF NextServe
  <2> QED
    BY <1>3, <2>1, <2>2, Distinct
    DEF NextServe, NoLostWakeup, HolderWorks, Free, NextError, FlightReady, Room, NextSize
<1>4. ASSUME NEW d \in Downloads, NextWait(d) PROVE NoLostWakeup' /\ HolderWorks'
  BY <1>4, Distinct
  DEF NextWait, NoLostWakeup, HolderWorks, Free, NextError, FlightReady, Room, NextSize
<1>5. ASSUME NEW d \in Downloads, Free, EndResponse(d) PROVE NoLostWakeup' /\ HolderWorks'
  <2>1. /\ \A e \in Downloads \ {d} : response'[e] = response[e]
        /\ waiting' = waiting \ {d}
    BY <1>5 DEF EndResponse, TypeOK
  <2> QED
    BY <1>5, <2>1, Distinct
    DEF EndResponse, NoLostWakeup, HolderWorks, Free, NextError, FlightReady, Room, NextSize
<1> QED BY <1>1, <1>2, <1>3, <1>4, <1>5 DEF Download, NextFail, NextCancel

LEMMA WakeupFlight ==
  ASSUME TypeOK, NoLostWakeup, HolderWorks, Flight PROVE NoLostWakeup' /\ HolderWorks'
<1> USE DEF uvars, ovars, wvars, dvars
<1>1. ASSUME NEW n \in 0..outputNext, FlightCall(n) PROVE NoLostWakeup' /\ HolderWorks'
  BY <1>1
  DEF FlightCall, NoLostWakeup, HolderWorks, NextError, FlightReady, Room, NextSize
<1>2. ASSUME FlightWait PROVE NoLostWakeup' /\ HolderWorks'
  BY <1>2, Distinct
  DEF FlightWait, NoLostWakeup, HolderWorks, Free, NextError, FlightReady, Room, NextSize
<1>3. ASSUME Free, EndFlight PROVE NoLostWakeup' /\ HolderWorks'
  BY <1>3, Distinct
  DEF EndFlight, NoLostWakeup, HolderWorks, Free, NextError, FlightReady, Room, NextSize
<1> QED BY <1>1, <1>2, <1>3 DEF Flight, FlightReturn, FlightCancel

LEMMA WakeupNext ==
  ASSUME TypeOK, NoLostWakeup, HolderWorks, [Next]_vars PROVE NoLostWakeup' /\ HolderWorks'
<1>1. CASE Upload
  BY <1>1, WakeupNone, Distinct DEF Upload, Put, Signal, Free, wvars
<1>2. CASE \E v \in Deadlines : SetDeadline(v)
  BY <1>2, WakeupNone, Distinct DEF SetDeadline, Signal, Free, wvars
<1>3. CASE DeadlinePasses
  BY <1>3, WakeupFrame DEF DeadlinePasses, condition, uvars, ovars, wvars, dvars
<1>4. CASE Close
  BY <1>4, WakeupNone, Distinct DEF Close, Signal, Free, wvars
<1>5. CASE UNCHANGED vars
  BY <1>5, WakeupFrame DEF vars, condition, uvars, ovars, wvars, dvars
<1> QED
  BY <1>1, <1>2, <1>3, <1>4, <1>5, WakeupRead, WakeupWriting, WakeupDownload, WakeupFlight
  DEF Next, Lifetime

-----------------------------------------------------------------------------
(* Cursors. *)

\* Attach compares generations only once something is attached.
FirstGeneration == ~attached => generation = 0

LEMMA CursorsStep ==
  ASSUME TypeOK, FirstGeneration, [Next]_vars
  PROVE  /\ uploadNext' >= uploadNext /\ outputFloor' >= outputFloor
         /\ outputNext' >= outputNext /\ generation' >= generation
         /\ FirstGeneration'
<1> USE DEF uvars, ovars, wvars, dvars, FirstGeneration
<1>0. uploadNext \in Nat /\ outputFloor \in Nat /\ outputNext \in Nat /\ generation \in Nat
  BY DEF TypeOK
<1>1. CASE Upload
  <2>1. PICK s \in 0..MaxSeq, b \in Bodies : Put(s, b) BY <1>1 DEF Upload
  <2>2. uploadNext' >= uploadNext BY <1>0, <2>1, UploadSlotsAssumption DEF Put
  <2> QED BY <1>0, <2>1, <2>2 DEF Put
<1>2. CASE Read
  BY <1>0, <1>2 DEF Read, ReadData, ReadWait, ReadFail
<1>3. CASE Writing
  <2>1. CASE \E w \in Writers : WriteBlock(w)
    BY <1>0, <2>1 DEF WriteBlock
  <2>2. CASE \E w \in Writers : WriteWait(w) \/ WriteFail(w) \/ WriteResume(w)
    BY <1>0, <2>2 DEF WriteWait, WriteFail, WriteResume
  <2>3. CASE \E n \in WriteSizes : Write(n) \/ WriteCorked("cell", n) \/ WriteCorked("tls", n)
    BY <1>0, <2>3 DEF Write, WriteCorked
  <2>4. CASE Cork \/ Uncork
    BY <1>0, <2>4 DEF Cork, Uncork
  <2> QED BY <1>3, <2>1, <2>2, <2>3, <2>4 DEF Writing, WriteLoop
<1>4. CASE \E n \in 0..MaxSeq : Ack(n)
  <2>1. PICK n \in 0..MaxSeq : Ack(n) BY <1>4
  <2>2. n >= outputFloor /\ outputFloor' = n
    BY <1>0, <2>1, MaxSeqAssumption DEF Ack, AckResult, ReleaseBefore
  <2> QED BY <1>0, <2>1, <2>2 DEF Ack
<1>5. CASE \E d \in Downloads, g \in Generations, n \in 0..MaxSeq : Attach(d, g, n)
  <2>1. PICK d \in Downloads, g \in Generations, n \in 0..MaxSeq : Attach(d, g, n) BY <1>5
  <2>2. n >= outputFloor /\ outputFloor' = n
    BY <1>0, <2>1, MaxSeqAssumption DEF Attach, AckResult, ReleaseBefore
  <2>3. generation' = g /\ attached' /\ generation' >= generation
    BY <1>0, <2>1, GenerationsAssumption DEF Attach, Stale, TypeOK
  <2> QED BY <1>0, <2>1, <2>2, <2>3 DEF Attach
<1>6. CASE \E d \in Downloads : NextServe(d) \/ NextWait(d) \/ NextFail(d) \/ NextCancel(d)
  BY <1>0, <1>6 DEF NextServe, NextWait, NextFail, NextCancel, EndResponse
<1>7. CASE Flight
  BY <1>0, <1>7 DEF Flight, FlightCall, FlightWait, FlightReturn, FlightCancel, EndFlight
<1>8. CASE Lifetime
  BY <1>0, <1>8 DEF Lifetime, SetDeadline, DeadlinePasses, Close
<1>9. CASE UNCHANGED vars
  BY <1>0, <1>9 DEF vars
<1> QED
  BY <1>1, <1>2, <1>3, <1>4, <1>5, <1>6, <1>7, <1>8, <1>9 DEF Next, Download

-----------------------------------------------------------------------------
(* The inductive invariant and what follows from it. *)

Inv ==
  /\ TypeOK
  /\ UploadWindow /\ UploadExactlyOnce
  /\ ReplayWindow /\ ReplayBound
  /\ NoLostWakeup /\ HolderWorks
  /\ FirstGeneration

LEMMA InvInit == ASSUME Init PROVE Inv
<1>1. UploadWindow /\ UploadExactlyOnce
  BY DEF Init, UploadWindow, UploadExactlyOnce
<1>2. ReplayWindow /\ ReplayBound
  BY ReplayAssumption DEF Init, ReplayWindow, ReplayBound, ReplayOffsets
<1>3. NoLostWakeup /\ HolderWorks
  BY Distinct DEF Init, NoLostWakeup, HolderWorks
<1>4. FirstGeneration BY DEF Init, FirstGeneration
<1> QED BY <1>1, <1>2, <1>3, <1>4, TypeInit DEF Inv

LEMMA InvNext == ASSUME Inv, [Next]_vars PROVE Inv'
  BY TypeNext, UploadNext, ReplayNext, WakeupNext, CursorsStep DEF Inv

\* packet.Conn keeps the inductive invariant.
THEOREM Invariance == Spec => []Inv
  BY InvInit, InvNext, PTL DEF Spec

\* Every variable keeps its type.
THEOREM TypeCorrect == Spec => []TypeOK
  BY Invariance, PTL DEF Inv

\* Receipts and pending blocks always describe the upload window, so a retry
\* is recognised and a gap is never skipped.
THEOREM UploadWindowHolds == Spec => []UploadWindow
  BY Invariance, PTL DEF Inv

\* The reader gets each accepted block once, in sequence.
THEOREM UploadDelivery == Spec => []UploadExactlyOnce
  BY Invariance, PTL DEF Inv

\* The replay buffer is the contiguous run between floor and next: Next and
\* Flight never index outside it.
THEOREM ReplaySafe == Spec => []ReplayWindow
  BY Invariance, PTL DEF Inv

\* The replay buffer never holds more than its limits, and outputBytes is
\* exactly what it holds.
THEOREM ReplayStaysBounded == Spec => []ReplayBound
  BY Invariance, PTL DEF Inv

\* No goroutine sleeps through the condition it waits for.
THEOREM NoSleeperForgotten == Spec => []NoLostWakeup
  BY Invariance, PTL DEF Inv

\* No request, however late, moves the upload cursor, the acknowledged floor
\* or the attached generation backwards.
THEOREM CursorsNeverReturn == Spec => CursorsMonotone
<1>1. Inv /\ [Next]_vars =>
        [/\ uploadNext' >= uploadNext /\ outputFloor' >= outputFloor
         /\ outputNext' >= outputNext
         /\ generation' >= generation]_vars
  BY CursorsStep DEF Inv
<1> QED BY <1>1, Invariance, PTL DEF Spec, CursorsMonotone

-----------------------------------------------------------------------------
(* The order of the output, when TLS writes nothing once the cell writer has
   started.  The bytes on their way are then in one place at a time: in TLS's
   own write, in the cork, or in the cell writer's write. *)

OnePlace ==
  LET t == job["tls"] c == job["cell"] IN
  /\ corked => t.Left = 0 /\ c.Left = 0
  /\ t.Left > 0 => c.Left = 0 /\ cork.Left = 0 /\ t.From = emitted /\ t.From + t.Left = produced
  /\ c.Left > 0 => t.Left = 0 /\ cork.Left = 0 /\ c.From = emitted /\ c.From + c.Left = produced
  /\ cork.Left > 0 => corked /\ cork.From = emitted /\ cork.From + cork.Left = produced
  /\ t.Left = 0 /\ c.Left = 0 /\ cork.Left = 0 => emitted = produced

BackToBack == \A i \in 1..Len(output) : output[i].End = output[i].From + output[i].Size

Order == failed \cap Writers = {} => OnePlace /\ BackToBack

Jobs == [From : Nat, Left : Nat, Size : Nat]

LEMMA OrderFrame ==
  ASSUME Order, failed \subseteq failed', UNCHANGED <<ovars, corked, cork, job, produced>>
  PROVE  Order'
<1> SUFFICES ASSUME failed' \cap Writers = {} PROVE OnePlace' /\ BackToBack'
  BY DEF Order
<1>1. OnePlace /\ BackToBack
  BY DEF Order
<1> QED BY <1>1 DEF OnePlace, BackToBack, ovars

\* Acknowledgements drop blocks from the front.
LEMMA OrderRelease ==
  ASSUME TypeOK, Order, NEW next \in Nat, ReleaseBefore(next),
         UNCHANGED <<failed, emitted, corked, cork, job, produced>>
  PROVE  Order'
<1> SUFFICES ASSUME failed' \cap Writers = {} PROVE OnePlace' /\ BackToBack'
  BY DEF Order
<1>1. OnePlace /\ BackToBack
  BY DEF Order
<1>2. OnePlace'
  BY <1>1 DEF OnePlace
<1>3. PICK k \in 0..Len(output) : output' = SubSeq(output, k + 1, Len(output))
  BY DEF ReleaseBefore
<1>4. output \in Seq(Block) /\ Len(output) \in Nat
  BY DEF TypeOK
<1>5. Len(output') = Len(output) - k /\ \A i \in 1..(Len(output) - k) : output'[i] = output[k + i] /\ k + i \in 1..Len(output)
  BY <1>3, <1>4
<1>6. BackToBack'
  BY <1>1, <1>5 DEF BackToBack
<1> QED BY <1>2, <1>6

LEMMA OrderBlock ==
  ASSUME Inv, Order, NEW w \in Writers, WriteBlock(w)
  PROVE  Order'
<1> SUFFICES ASSUME failed' \cap Writers = {} PROVE OnePlace' /\ BackToBack'
  BY DEF Order
<1> DEFINE n == NextSize(w)
           b == [Sequence |-> outputNext, From |-> job[w].From, Size |-> n, End |-> emitted + n]
<1>1. OnePlace /\ BackToBack
  BY DEF Order, WriteBlock
<1>2. /\ output \in Seq(Block) /\ emitted \in Nat /\ produced \in Nat /\ job \in [Writers -> Jobs]
      /\ cork \in Jobs /\ job[w] \in Jobs
  BY DEF Inv, TypeOK, Jobs
<1>3. job[w].Left > 0
  BY DEF Inv, HolderWorks, WriteBlock
<1>4. n \in Nat /\ n <= job[w].Left
  BY <1>2 DEF NextSize, Jobs
<1>5. /\ output' = Append(output, b) /\ emitted' = emitted + n /\ UNCHANGED <<corked, cork, produced>>
      /\ job' = [job EXCEPT ![w] = [From |-> job[w].From + n, Left |-> job[w].Left - n, Size |-> job[w].Size]]
  BY DEF WriteBlock, Rest
<1>6. /\ b.From = job[w].From /\ b.Size = n /\ b.End = emitted + n
  OBVIOUS
<1> HIDE DEF n, b
<1>7. /\ job'[w].From = job[w].From + n /\ job'[w].Left = job[w].Left - n
      /\ \A o \in Writers \ {w} : job'[o] = job[o]
  BY <1>2, <1>5
<1>8. job[w].From = emitted /\ job[w].From + job[w].Left = produced /\ cork.Left = 0
  BY <1>1, <1>3 DEF OnePlace, Writers
<1>9. BackToBack'
  <2>1. Len(output') = Len(output) + 1 /\ output'[Len(output) + 1] = b /\ Len(output) \in Nat
        /\ \A i \in 1..Len(output) : output'[i] = output[i]
    BY <1>2, <1>5
  <2>2. b.End = b.From + b.Size
    BY <1>2, <1>4, <1>6, <1>8
  <2> QED BY <2>1, <2>2, <1>1 DEF BackToBack
<1>10. OnePlace'
  <2>1. job["tls"] \in Jobs /\ job["cell"] \in Jobs /\ w \in {"tls", "cell"}
    BY <1>2 DEF Writers
  <2>2. CASE w = "tls"
    <3>1. job'["cell"] = job["cell"] /\ job["cell"].Left = 0
      BY <2>2, <1>1, <1>3, <1>7 DEF OnePlace, Writers
    <3> QED BY <2>1, <2>2, <3>1, <1>1, <1>2, <1>3, <1>4, <1>5, <1>7, <1>8 DEF OnePlace, Jobs
  <2>3. CASE w = "cell"
    <3>1. job'["tls"] = job["tls"] /\ job["tls"].Left = 0
      BY <2>3, <1>1, <1>3, <1>7 DEF OnePlace, Writers
    <3> QED BY <2>1, <2>3, <3>1, <1>1, <1>2, <1>3, <1>4, <1>5, <1>7, <1>8 DEF OnePlace, Jobs
  <2> QED BY <2>1, <2>2, <2>3
<1> QED BY <1>9, <1>10

LEMMA OrderWriting == ASSUME Inv, Order, ~PostHandshake, Writing PROVE Order'
<1> SUFFICES ASSUME failed' \cap Writers = {}, failed \subseteq failed' PROVE Order'
  <2>1. failed \subseteq failed'
    BY DEF Writing, Write, WriteCorked, Cork, Uncork, WriteLoop, WriteBlock, WriteWait, WriteFail, WriteResume
  <2> QED BY <2>1 DEF Order
<1>1. OnePlace /\ BackToBack
  BY DEF Order
<1>2. /\ emitted \in Nat /\ produced \in Nat /\ job \in [Writers -> Jobs] /\ cork \in Jobs
      /\ job["tls"] \in Jobs /\ job["cell"] \in Jobs
  BY DEF Inv, TypeOK, Jobs, Writers
<1>3. ASSUME NEW n \in WriteSizes, Write(n) PROVE Order'
  <2>1. /\ ~corked /\ corked' = corked /\ cork' = cork /\ emitted' = emitted /\ output' = output
        /\ cork = NoJob /\ job["cell"] = NoJob /\ job["tls"].Left = 0 /\ n \in Nat /\ n > 0
    BY <1>3, WriteSizesAssumption DEF Write, CellWriterStarted, TLSOutFree, ovars
  <2>2. /\ job'["tls"].From = produced /\ job'["tls"].Left = n /\ job'["cell"] = job["cell"]
        /\ produced' = produced + n
    BY <1>2, <1>3 DEF Write, Writers
  <2>3. cork.Left = 0 /\ job["cell"].Left = 0
    BY <2>1 DEF NoJob
  <2>4. OnePlace'
    BY <2>1, <2>2, <2>3, <1>1, <1>2 DEF OnePlace
  <2> QED BY <2>1, <2>4, <1>1 DEF Order, BackToBack
<1>4. ASSUME NEW w \in Writers, NEW n \in WriteSizes, WriteCorked(w, n) PROVE Order'
  <2>1. w \notin failed'
    OBVIOUS
  <2>2. ~closed
    BY <1>4, <2>1 DEF WriteCorked
  <2>3. /\ corked /\ corked' = corked /\ job' = job /\ emitted' = emitted /\ output' = output
        /\ cork' = [From |-> IF cork.Left = 0 THEN produced ELSE cork.From, Left |-> cork.Left + n, Size |-> 0]
        /\ produced' = produced + n /\ n \in Nat /\ n > 0
    BY <1>4, <2>2, WriteSizesAssumption DEF WriteCorked, ovars
  <2>4. /\ cork'.From = (IF cork.Left = 0 THEN produced ELSE cork.From) /\ cork'.Left = cork.Left + n
    BY <2>3
  <2>5. OnePlace'
    BY <2>3, <2>4, <1>1, <1>2 DEF OnePlace, Jobs
  <2> QED BY <2>3, <2>5, <1>1 DEF Order, BackToBack
<1>5. ASSUME Cork PROVE Order'
  <2>1. /\ corked' = TRUE /\ UNCHANGED <<cork, job, produced, emitted, output>>
        /\ job["tls"].Left = 0 /\ job["cell"].Left = 0
    BY <1>5 DEF Cork, TLSOutFree, ovars
  <2>2. OnePlace'
    BY <2>1, <1>1, <1>2 DEF OnePlace
  <2> QED BY <2>1, <2>2, <1>1 DEF Order, BackToBack
<1>6. ASSUME Uncork PROVE Order'
  <2>1. /\ corked /\ corked' = FALSE /\ UNCHANGED <<produced, emitted, output>> /\ cork' = [cork EXCEPT !.Left = 0]
        /\ job["cell"].Left = 0 /\ job["tls"].Left = 0
    BY <1>1, <1>6 DEF Uncork, OnePlace, ovars
  <2>2. cork'.Left = 0
    BY <2>1, <1>2 DEF Jobs
  <2>3. CASE cork.Left = 0
    <3>1. job' = job
      BY <1>6, <2>3 DEF Uncork
    <3>2. OnePlace'
      BY <2>1, <2>2, <2>3, <3>1, <1>1, <1>2 DEF OnePlace
    <3> QED BY <2>1, <3>2, <1>1 DEF Order, BackToBack
  <2>4. CASE cork.Left # 0
    <3>1. job'["cell"].From = cork.From /\ job'["cell"].Left = cork.Left /\ job'["tls"] = job["tls"]
      BY <1>2, <1>6, <2>4 DEF Uncork, Writers
    <3>2. OnePlace'
      BY <2>1, <2>2, <2>4, <3>1, <1>1, <1>2 DEF OnePlace, Jobs
    <3> QED BY <2>1, <3>2, <1>1 DEF Order, BackToBack
  <2> QED BY <2>3, <2>4
<1>7. ASSUME NEW w \in Writers, WriteWait(w) \/ WriteResume(w) PROVE Order'
  BY <1>7, OrderFrame DEF WriteWait, WriteResume
<1>8. ASSUME NEW w \in Writers, WriteFail(w) PROVE FALSE
  BY <1>8 DEF WriteFail
<1> QED BY <1>3, <1>4, <1>5, <1>6, <1>7, <1>8, OrderBlock DEF Writing, WriteLoop, Writers

LEMMA OrderNext == ASSUME Inv, Order, ~PostHandshake, [Next]_vars PROVE Order'
<1> USE DEF wvars
<1>1. CASE Upload \/ Read \/ Flight \/ UNCHANGED vars
  <2>1. failed \subseteq failed' /\ UNCHANGED <<ovars, wvars>>
    BY <1>1 DEF Upload, Put, Read, ReadData, ReadWait, ReadFail, Flight, FlightCall, FlightWait,
                FlightReturn, FlightCancel, EndFlight, vars
  <2> QED BY <2>1, OrderFrame
<1>2. CASE Download
  <2>1. ASSUME NEW n \in 0..MaxSeq, Ack(n) PROVE Order'
    <3>1. n \in Nat BY MaxSeqAssumption
    <3> QED BY <2>1, <3>1, OrderRelease DEF Ack, Inv
  <2>2. ASSUME NEW d \in Downloads, NEW g \in Generations, NEW n \in 0..MaxSeq, Attach(d, g, n) PROVE Order'
    <3>1. n \in Nat BY MaxSeqAssumption
    <3> QED BY <2>2, <3>1, OrderRelease DEF Attach, Inv
  <2>3. ASSUME NEW d \in Downloads, NextServe(d) \/ NextWait(d) \/ NextFail(d) \/ NextCancel(d) PROVE Order'
    BY <2>3, OrderFrame DEF NextServe, NextWait, NextFail, NextCancel, EndResponse
  <2> QED BY <1>2, <2>1, <2>2, <2>3 DEF Download
<1>3. CASE Lifetime
  <2>1. CASE (\E v \in Deadlines : SetDeadline(v)) \/ DeadlinePasses
    BY <2>1, OrderFrame DEF SetDeadline, DeadlinePasses
  <2>2. CASE Close
    <3>1. output' = <<>> /\ UNCHANGED <<failed, emitted, corked, cork, job, produced>>
      BY <2>2 DEF Close
    <3>2. BackToBack'
      BY <3>1 DEF BackToBack
    <3>3. OnePlace => OnePlace'
      BY <3>1 DEF OnePlace
    <3> QED BY <3>1, <3>2, <3>3 DEF Order
  <2> QED BY <1>3, <2>1, <2>2 DEF Lifetime
<1> QED BY <1>1, <1>2, <1>3, OrderWriting DEF Next

\* If TLS does not write once the cell writer has started, the blocks hold
\* the bytes in the order TLS wrote them, as long as no write failed: Cork
\* and writeLocked never interleave two writes.
THEOREM OutputKeepsOrder == ASSUME ~PostHandshake PROVE Spec => []OutputInOrder
<1>1. Init => Order
  <2> SUFFICES ASSUME Init PROVE OnePlace /\ BackToBack
    BY DEF Order
  <2>1. job["tls"] = NoJob /\ job["cell"] = NoJob /\ cork = NoJob
    BY DEF Init, Writers
  <2>2. NoJob.Left = 0
    BY DEF NoJob
  <2>3. OnePlace
    BY <2>1, <2>2 DEF Init, OnePlace
  <2>4. BackToBack
    BY DEF Init, BackToBack
  <2> QED BY <2>3, <2>4
<1>2. Inv /\ Order /\ [Next]_vars => Order'
  BY OrderNext
<1>3. Order => OutputInOrder
  BY DEF Order, BackToBack, OutputInOrder
<1> QED BY <1>1, <1>2, <1>3, Invariance, PTL DEF Spec
-----------------------------------------------------------------------------
(* The account of the upload: inputBytes is what the unread part of input and
   the pending blocks hold, so blocks within the window always fit. *)

\* Bytes of the block with sequence s that the connection holds or is reading.
BlockSize(s) ==
  IF s < uploadNext THEN input[s - consumed + 1].size
  ELSE IF s \in DOMAIN pending THEN pending[s].size ELSE 0

\* f[s] is the size of the blocks before s, from the one being read on.
Account(f) ==
  /\ f[consumed] = 0
  /\ \A s \in Nat : s >= consumed => f[s + 1] = f[s] + BlockSize(s)
  /\ \A s \in Nat : s >= uploadNext + UploadSlots => f[s] = inputBytes + inputOffset
Accounted == ~closed => \E f \in [Nat -> Int] : Account(f)

\* No block is longer than MaxBlock, and the offset is one of a block.
BlocksFit ==
  ~closed => /\ \A i \in 1..Len(input) : input[i].size <= MaxBlock
             /\ \A s \in DOMAIN pending : pending[s].size <= MaxBlock
             /\ input = <<>> => inputOffset = 0

LEMMA AccountFrame ==
  ASSUME Accounted, BlocksFit, UNCHANGED <<closed, uvars>>
  PROVE  Accounted' /\ BlocksFit'
  BY DEF Accounted, Account, BlockSize, BlocksFit, uvars

LEMMA SizeIsNat == ASSUME NEW b \in Bodies PROVE b.size \in Nat
  BY BodiesAssumption

LEMMA BlockSizeIsNat ==
  ASSUME TypeOK, UploadExactlyOnce, ~closed, NEW s \in Nat, s >= consumed
  PROVE  BlockSize(s) \in Nat
<1>1. consumed \in Nat /\ input \in Seq(Bodies) /\ uploadNext \in Nat /\ Sequenced(pending)
      /\ consumed + Len(input) = uploadNext
  BY DEF TypeOK, UploadExactlyOnce
<1>2. CASE s < uploadNext
  <2>1. s - consumed + 1 \in 1..Len(input)
    BY <1>1, <1>2
  <2>2. input[s - consumed + 1] \in Bodies
    BY <1>1, <2>1
  <2> QED BY <1>2, <2>2, SizeIsNat DEF BlockSize
<1>3. CASE s >= uploadNext
  <2>1. s \in DOMAIN pending => pending[s] \in Bodies
    BY <1>1 DEF Sequenced
  <2> QED BY <1>1, <1>3, <2>1, SizeIsNat DEF BlockSize
<1> QED BY <1>1, <1>2, <1>3

\* Put moves blocks between pending and input but adds only its own.
LEMMA PutSizes ==
  ASSUME TypeOK, UploadWindow, UploadExactlyOnce, NEW s \in 0..MaxSeq, NEW b \in Bodies, Put(s, b)
  PROVE  /\ ~closed /\ closed' = closed /\ s \in Nat /\ s >= uploadNext /\ s < uploadNext + UploadSlots
         /\ uploadNext' \in Nat /\ uploadNext <= uploadNext' /\ consumed' = consumed
         /\ b.size <= MaxBlock
         /\ \A t \in Nat : t >= consumed =>
              BlockSize(t)' = IF t = s THEN b.size ELSE BlockSize(t)
         /\ BlockSize(s) = 0
         /\ Len(input') >= Len(input)
         /\ \A i \in 1..Len(input') : input'[i] = b \/ (\E j \in 1..Len(input) : input'[i] = input[j])
                                        \/ (\E t \in DOMAIN pending : input'[i] = pending[t])
         /\ \A t \in DOMAIN pending' : pending'[t] = b \/ (t \in DOMAIN pending /\ pending'[t] = pending[t])
<1> DEFINE pend == [t \in DOMAIN pending \cup {s} |-> IF t = s THEN b ELSE pending[t]]
<1>1. PICK m \in uploadNext..(uploadNext + UploadSlots) :
        /\ FirstMissing(pend, m)
        /\ input' = input \o [i \in 1..(m - uploadNext) |-> pend[uploadNext + i - 1]]
        /\ pending' = [t \in {u \in DOMAIN pend : u >= m} |-> pend[t]]
        /\ uploadNext' = m
  BY DEF Put
<1>2. /\ uploadNext \in Nat /\ consumed \in Nat /\ input \in Seq(Bodies)
      /\ m \in Nat /\ UploadSlots \in Nat \ {0}
  BY <1>1, UploadSlotsAssumption DEF TypeOK
<1>3. /\ ~closed /\ s >= uploadNext /\ s - uploadNext < UploadSlots /\ s \in Nat
      /\ s \notin DOMAIN pending /\ b.size <= MaxBlock
  BY <1>2, MaxSeqAssumption, MaxBlockAssumption, SizeIsNat DEF Put, PutResult, OutOfWindow
<1>4. /\ DOMAIN pending \subseteq (uploadNext + 1)..(uploadNext + UploadSlots - 1)
      /\ consumed + Len(input) = uploadNext
  BY <1>3 DEF UploadWindow, UploadExactlyOnce
<1>5. \A t \in uploadNext..(m - 1) : t \in DOMAIN pending \cup {s}
  BY <1>1 DEF FirstMissing
<1>6. consumed' = consumed /\ closed' = closed
  BY DEF Put
<1>7. /\ DOMAIN pend = DOMAIN pending \cup {s} /\ pend[s] = b
      /\ \A t \in DOMAIN pending : pend[t] = pending[t]
  BY <1>3
<1> HIDE DEF pend
<1>8. /\ Len(input') = Len(input) + (m - uploadNext)
      /\ \A i \in 1..Len(input) : input'[i] = input[i]
      /\ \A i \in (Len(input) + 1)..Len(input') : input'[i] = pend[uploadNext + (i - Len(input)) - 1]
  <2> DEFINE g == [i \in 1..(m - uploadNext) |-> pend[uploadNext + i - 1]]
             R == {g[i] : i \in 1..(m - uploadNext)} \cup Bodies
  <2>1. m - uploadNext \in Nat BY <1>1, <1>2
  <2>2. g \in Seq(R) /\ Len(g) = m - uploadNext BY <2>1
  <2>3. \A i \in 1..(m - uploadNext) : g[i] = pend[uploadNext + i - 1] OBVIOUS
  <2>4. input' = input \o g BY <1>1
  <2>5. input \in Seq(R) BY <1>2
  <2> HIDE DEF g, R
  <2>6. Len(input') = Len(input) + (m - uploadNext)
    <3>1. Len(input \o g) = Len(input) + Len(g) BY <2>2, <2>5
    <3> QED BY <3>1, <2>2, <2>4
  <2>7. \A i \in 1..Len(input) : input'[i] = input[i] BY <2>1, <2>2, <2>4, <2>5
  <2>8. \A i \in (Len(input) + 1)..Len(input') : input'[i] = g[i - Len(input)]
    BY <2>1, <2>2, <2>4, <2>5, <2>6
  <2>9. \A i \in (Len(input) + 1)..Len(input') : i - Len(input) \in 1..(m - uploadNext)
    BY <2>1, <2>5, <2>6
  <2> QED BY <2>3, <2>6, <2>7, <2>8, <2>9
<1>9. Len(input) \in Nat /\ Len(input') \in Nat /\ Len(input') >= Len(input)
  BY <1>1, <1>2, <1>8
<1>10. \A t \in uploadNext..(m - 1) : input'[t - consumed + 1] = pend[t]
  <2> TAKE t \in uploadNext..(m - 1)
  <2>1. /\ t - consumed + 1 \in (Len(input) + 1)..Len(input')
        /\ uploadNext + ((t - consumed + 1) - Len(input)) - 1 = t
    <3>1. /\ Len(input') = Len(input) + (m - uploadNext) /\ consumed + Len(input) = uploadNext
          /\ Len(input) \in Nat
      BY <1>4, <1>8, <1>9
    <3> QED BY <1>2, <3>1
  <2> QED BY <1>8, <2>1
<1>11. BlockSize(s) = 0
  BY <1>2, <1>3 DEF BlockSize
<1>12. ASSUME NEW t \in Nat, t >= consumed PROVE BlockSize(t)' = IF t = s THEN b.size ELSE BlockSize(t)
  <2>1. CASE t < uploadNext
    <3>1. t < m /\ t # s /\ t - consumed + 1 \in 1..Len(input)
      BY <1>1, <1>2, <1>3, <1>4, <1>9, <1>12, <2>1
    <3> QED BY <1>1, <1>6, <1>8, <2>1, <3>1 DEF BlockSize
  <2>2. CASE t >= uploadNext /\ t < m
    <3>1. t \in uploadNext..(m - 1) /\ ~(t < uploadNext)
      BY <1>1, <1>2, <2>2
    <3>2. input'[t - consumed + 1] = pend[t] /\ t \in DOMAIN pending \cup {s}
      BY <1>5, <1>10, <3>1
    <3>3. BlockSize(t)' = pend[t].size
      BY <1>1, <1>6, <2>2, <3>2 DEF BlockSize
    <3> QED BY <1>7, <3>1, <3>2, <3>3 DEF BlockSize
  <2>3. CASE t >= m
    <3>1. ~(t < uploadNext) /\ ~(t < m)
      BY <1>1, <1>2, <2>3
    <3>2. t \in DOMAIN pending' <=> t \in DOMAIN pending \cup {s}
      BY <1>1, <1>7, <2>3
    <3>3. t \in DOMAIN pending' => pending'[t] = pend[t]
      BY <1>1
    <3> QED BY <1>1, <1>7, <3>1, <3>2, <3>3 DEF BlockSize
  <2> QED BY <1>2, <2>1, <2>2, <2>3
<1>13. ASSUME NEW i \in 1..Len(input')
       PROVE  input'[i] = b \/ (\E j \in 1..Len(input) : input'[i] = input[j])
                \/ (\E t \in DOMAIN pending : input'[i] = pending[t])
  <2>1. CASE i \in 1..Len(input)
    BY <1>8, <2>1
  <2>2. CASE i \in (Len(input) + 1)..Len(input')
    <3> DEFINE t == uploadNext + (i - Len(input)) - 1
    <3>1. t \in uploadNext..(m - 1)
      BY <1>1, <1>2, <1>8, <1>9, <2>2
    <3>2. input'[i] = pend[t]
      BY <1>8, <2>2
    <3>3. t \in DOMAIN pending \cup {s}
      BY <1>5, <3>1
    <3> HIDE DEF t
    <3> QED BY <1>7, <3>2, <3>3
  <2> QED BY <1>9, <2>1, <2>2
<1>14. \A t \in DOMAIN pending' : pending'[t] = b \/ (t \in DOMAIN pending /\ pending'[t] = pending[t])
  BY <1>1, <1>7
<1>15. s < uploadNext + UploadSlots /\ uploadNext <= uploadNext' /\ uploadNext' \in Nat
  BY <1>1, <1>2, <1>3
<1> QED BY <1>3, <1>6, <1>9, <1>11, <1>12, <1>13, <1>14, <1>15

\* The end of the window never moves back.
LEMMA WindowEnd ==
  ASSUME NEW p \in Nat, NEW q \in Nat, NEW w \in Nat, NEW t \in Nat, p <= q, t >= q + w
  PROVE  t >= p + w
  OBVIOUS

LEMMA AccountPut ==
  ASSUME TypeOK, UploadWindow, UploadExactlyOnce, Accounted, BlocksFit,
         NEW s \in 0..MaxSeq, NEW b \in Bodies, Put(s, b)
  PROVE  Accounted' /\ BlocksFit'
<1>1. /\ ~closed /\ closed' = closed /\ s \in Nat /\ s >= uploadNext /\ s < uploadNext + UploadSlots
      /\ uploadNext' \in Nat /\ uploadNext <= uploadNext' /\ consumed' = consumed /\ b.size <= MaxBlock
      /\ BlockSize(s) = 0 /\ Len(input') >= Len(input)
  BY PutSizes
<1>2. \A t \in Nat : t >= consumed => BlockSize(t)' = IF t = s THEN b.size ELSE BlockSize(t)
  BY PutSizes
<1>3. /\ inputBytes' = inputBytes + b.size /\ inputOffset' = inputOffset
  BY DEF Put
<1>4. /\ uploadNext \in Nat /\ consumed \in Nat /\ UploadSlots \in Nat /\ b.size \in Nat
      /\ inputBytes \in Int /\ inputOffset \in Nat /\ input \in Seq(Bodies)
  BY UploadSlotsAssumption, SizeIsNat DEF TypeOK
<1>5. consumed <= uploadNext
  BY <1>1, <1>4 DEF UploadExactlyOnce
<1>6. PICK f \in [Nat -> Int] : Account(f)
  BY <1>1 DEF Accounted
<1>7. /\ f[consumed] = 0
      /\ \A t \in Nat : t >= consumed => f[t + 1] = f[t] + BlockSize(t)
      /\ \A t \in Nat : t >= uploadNext + UploadSlots => f[t] = inputBytes + inputOffset
  BY <1>6 DEF Account
<1> DEFINE g == [t \in Nat |-> IF t > s THEN f[t] + b.size ELSE f[t]]
<1>8. g \in [Nat -> Int]
  BY <1>4, <1>6
<1>9. \A t \in Nat : g[t] = IF t > s THEN f[t] + b.size ELSE f[t]
  OBVIOUS
<1> HIDE DEF g
<1>a. /\ s \in Nat /\ s >= uploadNext /\ s < uploadNext + UploadSlots /\ uploadNext \in Nat
      /\ uploadNext' \in Nat /\ uploadNext <= uploadNext' /\ consumed \in Nat /\ UploadSlots \in Nat
  BY <1>1, <1>4
<1>10. g[consumed'] = 0
  <2>1. ~(consumed > s)
    BY <1>5, <1>a
  <2> QED BY <1>1, <1>7, <1>9, <1>a, <2>1
<1>11. ASSUME NEW t \in Nat, t >= consumed' PROVE g[t + 1] = g[t] + BlockSize(t)'
  <2>0. t + 1 \in Nat /\ f[t] \in Int /\ f[t + 1] \in Int /\ t >= consumed
    BY <1>1, <1>6, <1>11
  <2>1. f[t + 1] = f[t] + BlockSize(t) /\ BlockSize(t)' = IF t = s THEN b.size ELSE BlockSize(t)
    BY <1>2, <1>7, <2>0
  <2>2. BlockSize(t) \in Nat
    BY <1>1, <2>0, BlockSizeIsNat
  <2>3. CASE t = s
    <3>1. g[t] = f[t] /\ g[t + 1] = f[t + 1] + b.size /\ f[t + 1] = f[t] + 0 /\ BlockSize(t)' = b.size
      BY <1>1, <1>9, <2>0, <2>1, <2>3
    <3> QED BY <1>4, <2>0, <3>1
  <2>4. CASE t > s
    <3>1. g[t] = f[t] + b.size /\ g[t + 1] = f[t + 1] + b.size /\ BlockSize(t)' = BlockSize(t)
      BY <1>1, <1>9, <2>0, <2>1, <2>4
    <3>2. PICK x \in Int, y \in Nat, z \in Nat : x = f[t] /\ y = BlockSize(t) /\ z = b.size
      BY <1>4, <2>0, <2>2
    <3>3. g[t] = x + z /\ g[t + 1] = (x + y) + z /\ BlockSize(t)' = y
      BY <2>1, <3>1, <3>2
    <3> QED BY <3>2, <3>3
  <2>5. CASE t < s
    <3>1. g[t] = f[t] /\ g[t + 1] = f[t + 1] /\ BlockSize(t)' = BlockSize(t)
      BY <1>1, <1>9, <2>0, <2>1, <2>5
    <3> QED BY <2>1, <3>1
  <2> QED BY <1>1, <2>3, <2>4, <2>5
<1>12. ASSUME NEW t \in Nat, t >= uploadNext' + UploadSlots PROVE g[t] = inputBytes' + inputOffset'
  <2>0. t >= uploadNext' + UploadSlots
    BY <1>12
  <2>1. t >= uploadNext + UploadSlots
    <3>1. uploadNext \in Nat /\ uploadNext' \in Nat /\ UploadSlots \in Nat /\ uploadNext <= uploadNext'
      BY <1>a
    <3> QED BY <2>0, <3>1, WindowEnd
  <2>a. t > s
    BY <1>a, <2>1
  <2>2. g[t] = f[t] + b.size /\ f[t] = inputBytes + inputOffset
    BY <1>7, <1>9, <2>1, <2>a
  <2> QED BY <1>3, <1>4, <2>2
<1>13. Account(g)'
  BY <1>10, <1>11, <1>12 DEF Account
<1>14. Accounted'
  BY <1>8, <1>13 DEF Accounted
<1>15. BlocksFit'
  <2>1. /\ \A i \in 1..Len(input) : input[i].size <= MaxBlock
        /\ \A t \in DOMAIN pending : pending[t].size <= MaxBlock
        /\ input = <<>> => inputOffset = 0
    BY <1>1 DEF BlocksFit
  <2>2. \A i \in 1..Len(input') : input'[i] = b \/ (\E j \in 1..Len(input) : input'[i] = input[j])
                                    \/ (\E t \in DOMAIN pending : input'[i] = pending[t])
    BY PutSizes
  <2>3. \A t \in DOMAIN pending' : pending'[t] = b \/ (t \in DOMAIN pending /\ pending'[t] = pending[t])
    BY PutSizes
  <2>4. \A i \in 1..Len(input') : input'[i].size <= MaxBlock
    BY <1>1, <2>1, <2>2
  <2>5. \A t \in DOMAIN pending' : pending'[t].size <= MaxBlock
    BY <1>1, <2>1, <2>3
  <2>6. input' = <<>> => inputOffset' = 0
    <3>1. input' = <<>> => Len(input) = 0
      BY <1>1, <1>4
    <3>2. Len(input) = 0 => input = <<>>
      BY <1>4
    <3> QED BY <1>3, <2>1, <3>1, <3>2
  <2> QED BY <2>4, <2>5, <2>6 DEF BlocksFit
<1> QED BY <1>14, <1>15

LEMMA AccountRead ==
  ASSUME TypeOK, UploadWindow, UploadExactlyOnce, Accounted, BlocksFit, NEW n \in 1..MaxBlock, ReadData(n)
  PROVE  Accounted' /\ BlocksFit'
<1>1. /\ ~closed /\ input # <<>> /\ inputBytes' = inputBytes - n
      /\ UNCHANGED <<closed, uploadNext, pending>>
      /\ \/ /\ inputOffset + n = Head(input).size
            /\ input' = Tail(input) /\ inputOffset' = 0 /\ consumed' = consumed + 1
         \/ input' = input /\ inputOffset' = inputOffset + n /\ consumed' = consumed
  BY DEF ReadData
<1>2. /\ uploadNext \in Nat /\ consumed \in Nat /\ UploadSlots \in Nat \ {0} /\ n \in Nat
      /\ inputBytes \in Int /\ inputOffset \in Nat /\ input \in Seq(Bodies)
      /\ consumed + Len(input) = uploadNext
  BY <1>1, UploadSlotsAssumption, MaxBlockAssumption DEF TypeOK, UploadExactlyOnce
<1>3. PICK f \in [Nat -> Int] : Account(f)
  BY <1>1 DEF Accounted
<1>4. /\ f[consumed] = 0
      /\ \A t \in Nat : t >= consumed => f[t + 1] = f[t] + BlockSize(t)
      /\ \A t \in Nat : t >= uploadNext + UploadSlots => f[t] = inputBytes + inputOffset
  BY <1>3 DEF Account
<1>5. /\ \A i \in 1..Len(input) : input[i].size <= MaxBlock
      /\ \A t \in DOMAIN pending : pending[t].size <= MaxBlock
  BY <1>1 DEF BlocksFit
<1>6. CASE input' = input /\ inputOffset' = inputOffset + n /\ consumed' = consumed
  <2>1. \A t \in Nat : BlockSize(t)' = BlockSize(t)
    BY <1>1, <1>6 DEF BlockSize
  <2>2. inputBytes' + inputOffset' = inputBytes + inputOffset
    BY <1>1, <1>2, <1>6
  <2>3. Account(f)'
    BY <1>1, <1>4, <1>6, <2>1, <2>2 DEF Account
  <2>4. Accounted'
    BY <1>3, <2>3 DEF Accounted
  <2> QED BY <1>1, <1>5, <1>6, <2>4 DEF BlocksFit
<1>7. CASE /\ inputOffset + n = Head(input).size
           /\ input' = Tail(input) /\ inputOffset' = 0 /\ consumed' = consumed + 1
  <2>1. /\ Head(input) = input[1] /\ Len(input) \in Nat \ {0} /\ input[1] \in Bodies
        /\ Len(input') = Len(input) - 1 /\ \A i \in 1..Len(input) - 1 : input'[i] = input[i + 1]
    BY <1>1, <1>2, <1>7
  <2>2. PICK z \in Nat : z = input[1].size
    BY <2>1, SizeIsNat
  <2> DEFINE g == [t \in Nat |-> f[t] - z]
  <2>3. BlockSize(consumed) = z
    <3>1. consumed < uploadNext /\ consumed - consumed + 1 = 1
      BY <1>2, <2>1
    <3> QED BY <2>2, <3>1 DEF BlockSize
  <2>4. ASSUME NEW t \in Nat, t >= consumed + 1 PROVE BlockSize(t)' = BlockSize(t)
    <3>1. CASE t < uploadNext
      <4>1. t - (consumed + 1) + 1 \in 1..Len(input) - 1 /\ (t - (consumed + 1) + 1) + 1 = t - consumed + 1
        BY <1>2, <2>1, <2>4, <3>1
      <4>2. input'[t - (consumed + 1) + 1] = input[t - consumed + 1]
        BY <2>1, <4>1
      <4> QED BY <1>1, <1>7, <3>1, <4>2 DEF BlockSize
    <3>2. CASE ~(t < uploadNext)
      BY <1>1, <3>2 DEF BlockSize
    <3> QED BY <3>1, <3>2
  <2>5. g \in [Nat -> Int] /\ \A t \in Nat : g[t] = f[t] - z
    BY <1>3, <2>2
  <2> HIDE DEF g
  <2>6. g[consumed'] = 0
    <3>1. consumed + 1 \in Nat /\ f[consumed + 1] = f[consumed] + z
      BY <1>2, <1>4, <2>3
    <3>2. f[consumed + 1] = z
      BY <1>4, <2>2, <3>1
    <3>3. g[consumed + 1] = z - z
      BY <2>5, <3>1, <3>2
    <3> QED BY <1>7, <2>2, <3>3
  <2>7. ASSUME NEW t \in Nat, t >= consumed' PROVE g[t + 1] = g[t] + BlockSize(t)'
    <3>1. t + 1 \in Nat /\ t >= consumed + 1 /\ t >= consumed /\ f[t] \in Int
      BY <1>2, <1>3, <1>7, <2>7
    <3>2. f[t + 1] = f[t] + BlockSize(t) /\ BlockSize(t)' = BlockSize(t) /\ BlockSize(t) \in Nat
      BY <1>1, <1>4, <2>4, <3>1, BlockSizeIsNat
    <3>3. g[t + 1] = f[t + 1] - z /\ g[t] = f[t] - z
      BY <2>5, <3>1
    <3> QED BY <2>2, <3>1, <3>2, <3>3
  <2>8. ASSUME NEW t \in Nat, t >= uploadNext' + UploadSlots PROVE g[t] = inputBytes' + inputOffset'
    <3>1. g[t] = f[t] - z /\ f[t] = inputBytes + inputOffset
      BY <1>1, <1>4, <2>5, <2>8
    <3>2. inputOffset + n = z
      BY <1>7, <2>1, <2>2
    <3> QED BY <1>1, <1>2, <1>7, <2>2, <3>1, <3>2
  <2>9. Account(g)'
    BY <2>6, <2>7, <2>8 DEF Account
  <2>10. Accounted'
    BY <2>5, <2>9 DEF Accounted
  <2>11. \A i \in 1..Len(input') : input'[i].size <= MaxBlock
    <3> TAKE i \in 1..Len(input')
    <3>1. i \in 1..Len(input) - 1 /\ i + 1 \in 1..Len(input)
      BY <2>1
    <3> QED BY <1>5, <2>1, <3>1
  <2> QED BY <1>1, <1>5, <1>7, <2>10, <2>11 DEF BlocksFit
<1> QED BY <1>1, <1>6, <1>7

LEMMA AccountNext ==
  ASSUME TypeOK, UploadWindow, UploadExactlyOnce, Accounted, BlocksFit, [Next]_vars
  PROVE  Accounted' /\ BlocksFit'
<1> USE DEF uvars
<1>1. CASE Upload
  BY <1>1, AccountPut DEF Upload
<1>2. CASE Read
  BY <1>2, AccountRead, AccountFrame DEF Read, ReadWait, ReadFail
<1>3. CASE Writing
  BY <1>3, AccountFrame
  DEF Writing, WriteLoop, Write, WriteCorked, Cork, Uncork, WriteBlock, WriteWait,
      WriteFail, WriteResume
<1>4. CASE Download
  BY <1>4, AccountFrame
  DEF Download, Ack, Attach, NextServe, NextWait, NextFail, NextCancel, EndResponse
<1>5. CASE Flight
  BY <1>5, AccountFrame
  DEF Flight, FlightCall, FlightWait, FlightReturn, FlightCancel, EndFlight
<1>6. CASE \E v \in Deadlines : SetDeadline(v)
  BY <1>6, AccountFrame DEF SetDeadline
<1>7. CASE DeadlinePasses
  BY <1>7, AccountFrame DEF DeadlinePasses
<1>8. CASE Close
  BY <1>8 DEF Close, Accounted, BlocksFit
<1>9. CASE UNCHANGED vars
  BY <1>9, AccountFrame DEF vars
<1> QED BY <1>1, <1>2, <1>3, <1>4, <1>5, <1>6, <1>7, <1>8, <1>9 DEF Next, Lifetime

LEMMA AccountInit == ASSUME Init PROVE Accounted /\ BlocksFit
<1>1. BlocksFit
  BY DEF Init, BlocksFit
<1> DEFINE f == [t \in Nat |-> 0]
<1>2. f \in [Nat -> Int] /\ \A t \in Nat : f[t] = 0
  OBVIOUS
<1>3. \A t \in Nat : BlockSize(t) = 0
  BY DEF Init, BlockSize
<1>4. consumed = 0 /\ inputBytes = 0 /\ inputOffset = 0
  BY DEF Init
<1> HIDE DEF f
<1>5. Account(f)
  BY <1>2, <1>3, <1>4 DEF Account
<1> QED BY <1>1, <1>2, <1>5 DEF Accounted
\* Every set of natural numbers has a least one ...
LEMMA LeastNat ==
  ASSUME NEW S \in SUBSET Nat, S # {}
  PROVE  \E n \in S : \A m \in S : n <= m
<1> DEFINE R == OpToRel(<, Nat)
<1>1. IsWellFoundedOn(R, Nat)
  BY NatLessThanWellFounded
<1>2. \A x, y \in Nat : x < y => <<x, y>> \in R
  BY DEF OpToRel
<1> HIDE DEF R
<1>3. \E x \in S : \A y \in S : ~(<<y, x>> \in R)
  BY <1>1, WFMin, Zenon
<1>4. PICK n \in S : \A y \in S : ~(<<y, n>> \in R)
  BY <1>3
<1>5. \A m \in S : n <= m
  <2> TAKE m \in S
  <2>1. m \in Nat /\ n \in Nat
    BY <1>4
  <2>2. ~(m < n)
    BY <1>2, <1>4, <2>1
  <2> QED BY <2>1, <2>2
<1> QED
  BY <1>4, <1>5

\* ... which is induction over the natural numbers, for sets.
LEMMA Induction ==
  ASSUME NEW S, 0 \in S, \A n \in Nat : n \in S => n + 1 \in S
  PROVE  \A n \in Nat : n \in S
<1> DEFINE T == Nat \ S
<1>1. SUFFICES ASSUME T # {} PROVE FALSE
  OBVIOUS
<1>2. PICK n \in T : \A m \in T : n <= m
  BY <1>1, LeastNat
<1>3. n # 0 /\ n - 1 \in Nat /\ n - 1 \notin T
  BY <1>2
<1> QED
  BY <1>2, <1>3

\* A running total of sizes of at most z each grows by at most z a block.
LEMMA TotalBound ==
  ASSUME NEW f \in [Nat -> Int], NEW a \in Nat, NEW z \in Nat, f[a] = 0,
         \A t \in Nat : t >= a => f[t + 1] <= f[t] + z
  PROVE  \A k \in Nat : f[a + k] <= k * z
<1> DEFINE S == {k \in Nat : f[a + k] <= k * z}
<1>1. 0 \in S
  <2>1. a + 0 = a /\ 0 * z = 0
    OBVIOUS
  <2> QED BY <2>1
<1>2. ASSUME NEW k \in Nat, k \in S PROVE k + 1 \in S
  <2>1. a + k \in Nat /\ a + k >= a /\ a + (k + 1) = (a + k) + 1 /\ f[a + k] \in Int
        /\ f[(a + k) + 1] \in Int /\ k + 1 \in Nat
    OBVIOUS
  <2>2. f[(a + k) + 1] <= f[a + k] + z
    BY <2>1
  <2>3. PICK w \in Nat : w = k * z
    OBVIOUS
  <2>4. f[a + k] <= w
    BY <1>2, <2>3
  <2>5. (k + 1) * z = w + z
    BY <2>3
  <2>6. f[(a + k) + 1] <= w + z
    BY <2>1, <2>2, <2>3, <2>4
  <2> QED BY <2>1, <2>5, <2>6
<1> HIDE DEF S
<1>3. \A k \in Nat : k \in S
  BY <1>1, <1>2, Induction
<1> QED BY <1>3 DEF S

\* With the input drained, what is pending lies strictly behind the missing
\* block, so a full block of room is left.
LEMMA DrainedLeavesRoom ==
  ASSUME TypeOK, UploadWindow, UploadExactlyOnce, Accounted, BlocksFit, ~closed, input = <<>>
  PROVE  inputBytes + MaxBlock <= UploadLimit
<1>1. /\ uploadNext \in Nat /\ consumed \in Nat /\ UploadSlots \in Nat \ {0} /\ MaxBlock \in Nat
      /\ inputBytes \in Int /\ Sequenced(pending)
  BY UploadSlotsAssumption, MaxBlockAssumption DEF TypeOK
<1>2. consumed = uploadNext /\ inputOffset = 0
  BY <1>1 DEF UploadExactlyOnce, BlocksFit
<1>3. DOMAIN pending \subseteq (uploadNext + 1)..(uploadNext + UploadSlots - 1)
  BY DEF UploadWindow
<1>4. PICK f \in [Nat -> Int] : Account(f)
  BY DEF Accounted
<1>5. /\ f[uploadNext] = 0
      /\ \A t \in Nat : t >= uploadNext => f[t + 1] = f[t] + BlockSize(t)
      /\ f[uploadNext + UploadSlots] = inputBytes
  BY <1>1, <1>2, <1>4 DEF Account
<1>6. f[uploadNext + 1] = 0
  <2>1. BlockSize(uploadNext) = 0
    BY <1>1, <1>3 DEF BlockSize
  <2> QED BY <1>1, <1>5, <2>1
<1>7. ASSUME NEW t \in Nat, t >= uploadNext + 1 PROVE f[t + 1] <= f[t] + MaxBlock
  <2>1. t >= uploadNext /\ ~(t < uploadNext) /\ t >= consumed
    BY <1>1, <1>2, <1>7
  <2>2. BlockSize(t) \in Nat
    BY <2>1, BlockSizeIsNat
  <2>3. BlockSize(t) <= MaxBlock
    BY <1>1, <2>1 DEF BlockSize, BlocksFit
  <2>4. f[t + 1] = f[t] + BlockSize(t) /\ f[t] \in Int
    BY <1>4, <1>5, <2>1
  <2> QED BY <1>1, <2>2, <2>3, <2>4
<1>8. \A k \in Nat : f[(uploadNext + 1) + k] <= k * MaxBlock
  <2>1. PICK a \in Nat : a = uploadNext + 1
    BY <1>1
  <2>2. f[a] = 0 /\ \A t \in Nat : t >= a => f[t + 1] <= f[t] + MaxBlock
    BY <1>6, <1>7, <2>1
  <2>3. MaxBlock \in Nat /\ f \in [Nat -> Int]
    BY <1>1, <1>4
  <2>4. \A k \in Nat : f[a + k] <= k * MaxBlock
    BY <2>2, <2>3, TotalBound
  <2> QED BY <2>1, <2>4
<1>9. inputBytes <= (UploadSlots - 1) * MaxBlock
  <2>1. UploadSlots - 1 \in Nat /\ (uploadNext + 1) + (UploadSlots - 1) = uploadNext + UploadSlots
    BY <1>1
  <2> QED BY <1>5, <1>8, <2>1
<1>10. PICK w \in Nat : w = (UploadSlots - 1) * MaxBlock
  BY <1>1
<1>11. UploadLimit = w + MaxBlock
  BY <1>1, <1>10 DEF UploadLimit
<1> QED BY <1>1, <1>9, <1>10, <1>11

\* The upload limit cannot wedge a session: with the input drained, Put never
\* refuses the first missing block for lack of room.
THEOREM MissingBlockFits == Spec => []HeadBlockFits
<1>1. Init => Accounted /\ BlocksFit
  BY AccountInit
<1>2. Inv /\ (Accounted /\ BlocksFit) /\ [Next]_vars => (Accounted /\ BlocksFit)'
  BY AccountNext DEF Inv
<1>3. Inv /\ (Accounted /\ BlocksFit) => HeadBlockFits
  <2> SUFFICES ASSUME Inv, Accounted, BlocksFit, ~closed, input = <<>>, NEW b \in Bodies,
                      PutResult(uploadNext, b) = "full"
               PROVE  FALSE
    BY DEF HeadBlockFits
  <2>1. b.size <= MaxBlock /\ b.size > UploadLimit - inputBytes
    BY MaxBlockAssumption, SizeIsNat DEF PutResult
  <2>2. inputBytes + MaxBlock <= UploadLimit
    BY DrainedLeavesRoom DEF Inv
  <2>3. b.size \in Nat /\ MaxBlock \in Nat /\ inputBytes \in Int /\ UploadLimit \in Int
    BY MaxBlockAssumption, UploadSlotsAssumption, SizeIsNat DEF Inv, TypeOK, UploadLimit
  <2> QED BY <2>1, <2>2, <2>3
<1> QED BY <1>1, <1>2, <1>3, Invariance, PTL DEF Spec
=============================================================================
