------------------------- MODULE MuxDeliveryProofs -------------------------
(***************************************************************************)
(* More proofs about Mux, for any number of streams, any windows and any   *)
(* cell size: the carrier's goroutine never sleeps on a stream that has    *)
(* something to send, a half-close never overtakes data, and no frame that *)
(* one Peer sends is a protocol error at the other, but for three openings *)
(* at the server: an OPEN that finds the table full, an OPEN that take has *)
(* passed over and a RESET that goes before its OPEN.                      *)
(***************************************************************************)
EXTENDS MuxProofs

-----------------------------------------------------------------------------
(* The bytes of a queue of chunks. *)

Lengths(c) == [k \in 1..Len(c) |-> c[k].len]

LEMMA LengthsAreNat ==
  ASSUME NEW c \in Seq(Chunks)
  PROVE  /\ Lengths(c) \in Seq(Nat) /\ Len(Lengths(c)) = Len(c) /\ Bytes(c) = Total(Lengths(c))
         /\ \A k \in 1..Len(c) : Lengths(c)[k] = c[k].len /\ c[k].len \in Nat
<1>1. \A k \in 1..Len(c) : c[k].len \in Nat
  BY ChunkFields
<1>2. Len(c) \in Nat
  OBVIOUS
<1> QED BY <1>1, <1>2 DEF Lengths, Bytes

LEMMA BytesIsNat == ASSUME NEW c \in Seq(Chunks) PROVE Bytes(c) \in Nat
  BY LengthsAreNat, TotalIsNat

LEMMA BytesEmpty == Bytes(<<>>) = 0
<1>1. [k \in 1..Len(<<>>) |-> (<<>>)[k].len] = <<>>
  OBVIOUS
<1> QED BY <1>1, TotalEmpty DEF Bytes

LEMMA BytesItem ==
  ASSUME NEW c \in Seq(Chunks), NEW k \in 1..Len(c)
  PROVE  c[k].len <= Bytes(c)
  BY LengthsAreNat, TotalBounds

LEMMA BytesAppend ==
  ASSUME NEW c \in Seq(Chunks), NEW x \in Chunks
  PROVE  Bytes(Append(c, x)) = Bytes(c) + x.len
<1> DEFINE d == Append(c, x)
<1>1. d \in Seq(Chunks) /\ Len(d) = Len(c) + 1 /\ d[Len(d)] = x /\ Len(d) \in 1..Len(d)
      /\ \A k \in 1..Len(c) : d[k] = c[k] /\ k \in 1..Len(d)
  OBVIOUS
<1> HIDE DEF d
<1>2. Total(Lengths(d)) = Total(Lengths(c)) + Lengths(d)[Len(Lengths(d))]
  <2> DEFINE x1 == Lengths(c)
             x2 == Lengths(d)
  <2>1. x1 \in Seq(Nat) /\ x2 \in Seq(Nat) /\ Len(x2) = Len(x1) + 1
    BY <1>1, LengthsAreNat
  <2>2. \A k \in 1..Len(x1) : x2[k] = x1[k]
    BY <1>1, LengthsAreNat
  <2> HIDE DEF x1, x2
  <2>3. Total(x2) = Total(x1) + x2[Len(x2)]
    BY <2>1, <2>2, TotalAppend
  <2> QED BY <2>3 DEF x1, x2
<1> QED BY <1>1, <1>2, LengthsAreNat DEF d

LEMMA BytesTail ==
  ASSUME NEW c \in Seq(Chunks), c # <<>>
  PROVE  Bytes(c) = c[1].len + Bytes(Tail(c))
<1> DEFINE d == Tail(c)
<1>1. d \in Seq(Chunks) /\ Len(c) = Len(d) + 1 /\ 1 \in 1..Len(c)
      /\ \A k \in 1..Len(d) : d[k] = c[k + 1] /\ k + 1 \in 1..Len(c)
  BY HeadItem
<1> HIDE DEF d
<1>2. Total(Lengths(c)) = Lengths(c)[1] + Total(Lengths(d))
  <2> DEFINE x1 == Lengths(d)
             x2 == Lengths(c)
  <2>1. x1 \in Seq(Nat) /\ x2 \in Seq(Nat) /\ Len(x2) = Len(x1) + 1
    BY <1>1, LengthsAreNat
  <2>2. \A k \in 1..Len(x1) : x1[k] = x2[k + 1]
    BY <1>1, LengthsAreNat, ZenonT(60)
  <2> HIDE DEF x1, x2
  <2>3. Total(x2) = x2[1] + Total(x1)
    BY <2>1, <2>2, TotalTail
  <2> QED BY <2>3 DEF x1, x2
<1> QED BY <1>1, <1>2, LengthsAreNat DEF d

LEMMA BytesOne == ASSUME NEW x \in Chunks PROVE Bytes(<<x>>) = x.len
<1>1. <<>> \in Seq(Chunks) /\ Append(<<>>, x) = <<x>> /\ x.len \in Nat
  BY ChunkFields
<1>2. Bytes(Append(<<>>, x)) = Bytes(<<>>) + x.len
  BY <1>1, BytesAppend
<1> QED BY <1>1, <1>2, BytesEmpty

LEMMA BytesNone == ASSUME NEW c \in Seq(Chunks), Len(c) = 0 PROVE Bytes(c) = 0
<1>1. Lengths(c) \in Seq(Nat) /\ Len(Lengths(c)) = 0 /\ Bytes(c) = Total(Lengths(c))
  BY LengthsAreNat
<1>2. \A k \in 1..Len(Lengths(c)) : Lengths(c)[k] = 0
  BY <1>1
<1> QED BY <1>1, <1>2, TotalZero

LEMMA BytesSingle ==
  ASSUME NEW c \in Seq(Chunks), c # <<>>, Len(c) <= 1
  PROVE  c[1] \in Chunks /\ c[1].len \in Nat /\ c[1].sequence \in Nat /\ Bytes(c) = c[1].len
<1> DEFINE d == Tail(c)
<1>1. c # <<>> /\ c[1] \in Chunks /\ d \in Seq(Chunks) /\ Len(d) = 0
  <2> DEFINE n == Len(c)
  <2>1. n \in Nat \ {0} /\ c[1] \in Chunks /\ d \in Seq(Chunks) /\ Len(d) = n - 1 /\ n <= 1
    BY HeadItem
  <2> HIDE DEF n, d
  <2> QED BY <2>1
<1>2. Bytes(c) = c[1].len + Bytes(d)
  BY <1>1, BytesTail, Zenon
<1>3. c[1].len \in Nat /\ c[1].sequence \in Nat
  BY <1>1, ChunkFields
<1> HIDE DEF d
<1>4. Bytes(d) = 0
  BY <1>1, BytesNone
<1> QED BY <1>1, <1>2, <1>3, <1>4

\* Moving the head of output to pending changes no amount.
LEMMA PulledBytes ==
  ASSUME NEW s \in StreamRecords
  PROVE  LET q == Pulled(s) IN
         /\ QueuedBytes(q) = QueuedBytes(s) /\ QueuedBytes(s) \in Nat
         /\ q.pending = <<>> <=> s.pending = <<>> /\ s.output = <<>>
         /\ q.pending = <<>> => q.output = <<>>
<1> DEFINE q == Pulled(s)
<1>1. /\ s.output \in Seq(Chunks) /\ s.pending \in Seq(Chunks) /\ s.hand \in Nat
      /\ q.output \in Seq(Chunks) /\ q.pending \in Seq(Chunks)
  BY PulledForm, Amounts
<1>2. Bytes(s.output) \in Nat /\ Bytes(s.pending) \in Nat
  BY <1>1, BytesIsNat
<1>3. q.hand = s.hand
  BY PulledForm
<1>4. CASE s.pending = <<>> /\ s.output # <<>>
  <2>1. q.pending = <<Head(s.output)>> /\ q.output = Tail(s.output)
    BY <1>4, PulledForm
  <2> HIDE DEF q
  <2>2. Head(s.output) = s.output[1] /\ s.output[1] \in Chunks /\ Tail(s.output) \in Seq(Chunks)
    BY <1>1, <1>4, HeadItem
  <2>3. Bytes(s.output) = s.output[1].len + Bytes(Tail(s.output)) /\ Bytes(<<s.output[1]>>) = s.output[1].len
    BY <1>1, <1>4, <2>2, BytesTail, BytesOne
  <2>4. Bytes(q.output) \in Nat /\ s.output[1].len \in Nat /\ Bytes(s.pending) = 0
    BY <1>1, <1>4, <2>2, BytesIsNat, BytesEmpty, ChunkFields
  <2>5. Bytes(q.pending) = s.output[1].len /\ Bytes(s.output) = s.output[1].len + Bytes(q.output)
    BY <2>1, <2>2, <2>3
  <2>6. QueuedBytes(q) = QueuedBytes(s) /\ QueuedBytes(s) \in Nat
    BY <1>1, <1>2, <1>3, <2>4, <2>5 DEF QueuedBytes
  <2>7. q.pending # <<>>
    BY <2>1
  <2> QED BY <1>4, <2>6, <2>7 DEF q
<1>5. CASE ~(s.pending = <<>> /\ s.output # <<>>)
  <2>1. q.pending = s.pending /\ q.output = s.output
    BY <1>5, PulledForm
  <2> HIDE DEF q
  <2>2. QueuedBytes(q) = QueuedBytes(s) /\ QueuedBytes(s) \in Nat
    BY <1>1, <1>2, <1>3, <2>1 DEF QueuedBytes
  <2> QED BY <1>5, <2>1, <2>2 DEF q
<1> QED BY <1>4, <1>5
-----------------------------------------------------------------------------
(* The way out: FIN is the last chunk, and follows the end of the reader. *)

Ordered(s) ==
  /\ Len(s.pending) <= 1
  /\ \A k \in 1..Len(s.output) : s.output[k].len = 0 => k = Len(s.output) /\ s.reader = "done"
  /\ s.pending # <<>> /\ s.pending[1].len = 0 => s.output = <<>> /\ s.reader = "done"
  /\ s.reader # "reading" => s.hand = 0
  /\ s.localFinSent => s.reader = "done" /\ s.output = <<>> /\ s.pending = <<>>

\* The way in: the FIN of the other end comes after all its data.
Ending(s) ==
  /\ s.inputFin => s.remoteFin
  /\ s.writer = "fin" => s.remoteFin /\ s.input = 0
  /\ s.remoteFinWritten => s.remoteFin /\ s.writer = "done" /\ s.input = 0 /\ s.writing = 0
Orderly == \A p \in Ends, i \in Ids : Ordered(st[p][i]) /\ Ending(st[p][i])

LEMMA OrderedKept ==
  ASSUME NEW s \in StreamRecords, NEW t \in StreamRecords, Ordered(s), SameOut(s, t),
         t.reader = s.reader \/ (s.reader # "done" /\ s.hand = 0)
  PROVE  Ordered(t)
  BY DEF Ordered, SameOut

LEMMA OrderedQueue ==
  ASSUME NEW s \in StreamRecords, NEW t \in StreamRecords, NEW x \in Chunks, Ordered(s),
         s.reader = "reading", t.pending = s.pending, t.localFinSent = s.localFinSent, t.hand = 0,
         t.output = Append(s.output, x),
         (x.len > 0 /\ t.reader = "reading") \/ t.reader = "done"
  PROVE  Ordered(t)
<1>1. /\ s.output \in Seq(Chunks) /\ s.pending \in Seq(Chunks) /\ Len(s.pending) <= 1
      /\ \A k \in 1..Len(s.output) : s.output[k].len # 0
      /\ s.pending # <<>> => s.pending[1].len # 0
      /\ ~s.localFinSent /\ x.len \in Nat
  BY Amounts, ChunkFields DEF Ordered
<1>2. /\ Len(t.output) = Len(s.output) + 1 /\ t.output[Len(s.output) + 1] = x
      /\ \A k \in 1..Len(s.output) : t.output[k] = s.output[k]
  BY <1>1
<1>3. ASSUME NEW k \in 1..Len(t.output), t.output[k].len = 0
      PROVE  k = Len(t.output) /\ t.reader = "done"
  <2>1. k \in 1..Len(s.output) \/ k = Len(s.output) + 1
    BY <1>1, <1>2
  <2> QED BY <1>1, <1>2, <1>3, <2>1
<1> QED BY <1>1, <1>3 DEF Ordered

LEMMA OrderedPulled ==
  ASSUME NEW s \in StreamRecords, Ordered(s)
  PROVE  Ordered(Pulled(s))
<1> DEFINE q == Pulled(s)
<1>1. /\ s.output \in Seq(Chunks) /\ s.pending \in Seq(Chunks)
      /\ q.hand = s.hand /\ q.localFinSent = s.localFinSent /\ q.reader = s.reader
  BY PulledForm, Amounts DEF SameReader
<1>2. CASE s.pending = <<>> /\ s.output # <<>>
  <2>1. q.pending = <<Head(s.output)>> /\ q.output = Tail(s.output)
    BY <1>2, PulledForm
  <2> HIDE DEF q
  <2>2. /\ Head(s.output) = s.output[1] /\ Len(s.output) \in Nat \ {0}
        /\ Len(q.output) = Len(s.output) - 1
        /\ \A k \in 1..Len(s.output) - 1 : q.output[k] = s.output[k + 1]
        /\ q.output \in Seq(Chunks)
    BY <1>1, <1>2, <2>1, HeadItem
  <2>3. Len(q.pending) = 1 /\ q.pending # <<>> /\ q.pending[1] = s.output[1]
    BY <2>1, <2>2
  <2>4. /\ \A k \in 1..Len(s.output) : s.output[k].len = 0 => k = Len(s.output) /\ s.reader = "done"
        /\ ~s.localFinSent
    BY <1>2 DEF Ordered
  <2>5. ASSUME q.pending[1].len = 0 PROVE q.output = <<>> /\ q.reader = "done"
    <3>0. s.output[1].len = 0 /\ 1 \in 1..Len(s.output)
      BY <2>2, <2>3, <2>5
    <3>1. 1 = Len(s.output) /\ s.reader = "done"
      BY <2>4, <3>0
    <3> QED BY <1>1, <2>2, <3>1
  <2>6. ASSUME NEW k \in 1..Len(q.output), q.output[k].len = 0 PROVE k = Len(q.output) /\ q.reader = "done"
    <3>1. k + 1 \in 1..Len(s.output) /\ q.output[k] = s.output[k + 1]
      BY <2>2
    <3>2. k + 1 = Len(s.output) /\ s.reader = "done"
      BY <2>4, <2>6, <3>1
    <3> QED BY <1>1, <2>2, <3>2
  <2>7. q.reader # "reading" => q.hand = 0
    BY <1>1 DEF Ordered
  <2>8. Ordered(q)
    BY <1>1, <2>3, <2>4, <2>5, <2>6, <2>7 DEF Ordered
  <2> QED BY <2>8 DEF q
<1>3. CASE ~(s.pending = <<>> /\ s.output # <<>>)
  <2>1. q.pending = s.pending /\ q.output = s.output
    BY <1>3, PulledForm
  <2> HIDE DEF q
  <2>2. Ordered(q)
    BY <1>1, <2>1 DEF Ordered
  <2> QED BY <2>2 DEF q
<1> QED BY <1>2, <1>3

LEMMA OrderedTake ==
  ASSUME NEW i, NEW s \in StreamRecords, NEW a, NEW m, NEW space, NEW only,
         Ordered(s), Takes(i, s, a, m, space, only)
  PROVE  Ordered(a)
<1> DEFINE q == Pulled(s)
<1>1. a \in StreamRecords /\ a.reader = s.reader
  BY DEF Takes, SameReader
<1>2. CASE TakesReset(i, s, a, m)
  BY <1>2 DEF TakesReset
<1>3. CASE \/ TakesOpen(i, s, a, m) \/ TakesLate(i, s, a, m, space)
           \/ TakesOpened(i, s, a, m) \/ TakesCredit(i, s, a, m)
  <2>1. SameOut(s, a)
    BY <1>3 DEF TakesOpen, TakesLate, TakesOpened, TakesCredit
  <2> QED BY <1>1, <2>1, OrderedKept
<1>4. CASE TakesQueue(s, q, a) /\ (\/ TakesNone(s, q, a, m, space, only)
                                   \/ TakesFin(i, s, q, a, m) \/ TakesData(i, s, q, a, m))
  <2>1. a.hand = q.hand /\ a.output = q.output /\ a.reader = q.reader /\ Ordered(q)
        /\ q.localFinSent = s.localFinSent
    BY <1>1, <1>4, PulledForm, OrderedPulled DEF TakesQueue, SameReader
  <2>2. q.pending \in Seq(Chunks)
    BY PulledForm, Amounts
  <2> HIDE DEF q
  <2>3. CASE TakesNone(s, q, a, m, space, only)
    BY <2>1, <2>3 DEF TakesNone, Ordered
  <2>4. CASE TakesFin(i, s, q, a, m)
    <3>1. q.output = <<>> /\ q.reader = "done" /\ a.pending = <<>> /\ a.localFinSent
      BY <2>1, <2>4 DEF TakesFin, Ordered
    <3> QED BY <2>1, <3>1 DEF Ordered
  <2>5. CASE TakesData(i, s, q, a, m)
    <3>1. PICK n \in 1..q.pending[1].len :
             a.pending = IF q.pending[1].len = n THEN <<>>
                         ELSE <<[sequence |-> (q.pending[1].sequence + n) % Offsets,
                                 len |-> q.pending[1].len - n]>>
      BY <2>5 DEF TakesData
    <3>2. q.pending # <<>> /\ a.localFinSent = q.localFinSent
      BY <2>1, <2>5 DEF TakesData
    <3>3. q.pending[1].len \in Nat
      BY <2>2, <3>2, HeadItem, ChunkFields
    <3>4. Len(a.pending) <= 1 /\ (a.pending # <<>> => a.pending[1].len # 0)
      <4>1. CASE q.pending[1].len = n
        BY <3>1, <4>1
      <4>2. CASE q.pending[1].len # n
        BY <3>1, <3>3, <4>2
      <4> QED BY <4>1, <4>2
    <3>5. ~q.localFinSent
      BY <2>1, <3>2 DEF Ordered
    <3> QED BY <2>1, <3>2, <3>4, <3>5 DEF Ordered
  <2> QED BY <1>4, <2>3, <2>4, <2>5
<1> QED BY <1>2, <1>3, <1>4 DEF Takes
LEMMA EndingKept ==
  ASSUME NEW s, NEW t, Ending(s), SameAmounts(s, t), SameIn(s, t), SameWriter(s, t)
  PROVE  Ending(t)
  BY DEF Ending, SameAmounts, SameIn, SameWriter

LEMMA LocalOrdered ==
  ASSUME Shapes, Idle, Orderly, NEW p \in Ends, NEW i \in Ids, LocalAction(p, i)
  PROVE  Ordered(st'[p][i]) /\ Ending(st'[p][i])
<1> DEFINE s == st[p][i]
           t == st'[p][i]
           Goal == Ordered(t) /\ Ending(t)
<1>0. /\ s \in StreamRecords /\ Ordered(s) /\ Ending(s)
      /\ s.conn = "dialing" => s.writer = "none" /\ s.reader = "none"
  BY OneStream DEF Orderly, Idle
<1>1. t \in StreamRecords
  BY LocalActionIsLocal DEF LocalStep, Moved, StreamTables
<1>2. ASSUME p = "server", NEW ok \in BOOLEAN, Dialed(i, ok) PROVE Goal
  <2>1. /\ s.conn = "dialing" /\ SameAmounts(s, t) /\ SameOut(s, t) /\ SameIn(s, t)
        /\ (t.reader = "reading" /\ t.writer = "idle") \/ (t.reader = s.reader /\ t.writer = s.writer)
    BY <1>2, DialedStream DEF SameReader, SameWriter
  <2> HIDE DEF s, t
  <2>2. s.reader = "none" /\ s.writer = "none" /\ s.hand = 0 /\ ~s.remoteFinWritten
    BY <1>0, <2>1 DEF Ordered, Ending
  <2>3. Ordered(t)
    BY <1>0, <1>1, <2>1, <2>2, OrderedKept
  <2>4. Ending(t)
    BY <1>0, <2>1, <2>2 DEF Ending, SameAmounts, SameIn
  <2> QED BY <2>3, <2>4
<1>3. ASSUME NEW n \in 1..StreamChunk, ReadData(p, i, n) PROVE Goal
  <2>1. /\ s.reader = "reading" /\ SameAmounts(s, t) /\ SameIn(s, t) /\ SameReader(s, t) /\ SameWriter(s, t)
        /\ t.output = s.output /\ t.pending = s.pending /\ t.localFinSent = s.localFinSent
    BY <1>3, ReadDataStream
  <2> HIDE DEF s, t
  <2> QED BY <1>0, <2>1, EndingKept DEF Ordered, SameReader
<1>4. ASSUME ReadQueue(p, i) PROVE Goal
  <2> DEFINE x == [sequence |-> s.nextOut, len |-> s.hand]
  <2>1. /\ s.reader = "reading" /\ s.hand > 0 /\ SameAmounts(s, t) /\ SameIn(s, t)
        /\ SameReader(s, t) /\ SameWriter(s, t) /\ t.hand = 0 /\ t.output = Append(s.output, x)
        /\ t.pending = s.pending /\ t.localFinSent = s.localFinSent
    BY <1>4, ReadQueueStream
  <2>2. x \in Chunks /\ x.len = s.hand
    BY <1>0, Amounts DEF Chunks
  <2> HIDE DEF s, t, x
  <2>3. Ordered(t)
    BY <1>0, <1>1, <2>1, <2>2, OrderedQueue DEF SameReader
  <2> QED BY <1>0, <2>1, <2>3, EndingKept
<1>5. ASSUME ReadEOF(p, i) PROVE Goal
  <2> DEFINE x == [sequence |-> s.nextOut, len |-> 0]
  <2>1. /\ s.reader = "reading" /\ SameAmounts(s, t) /\ SameIn(s, t)
        /\ t.reader = "done" /\ SameWriter(s, t) /\ t.hand = 0 /\ t.output = Append(s.output, x)
        /\ t.pending = s.pending /\ t.localFinSent = s.localFinSent
    BY <1>5, ReadEOFStream
  <2>2. x \in Chunks
    BY <1>0, Amounts DEF Chunks
  <2> HIDE DEF s, t, x
  <2>3. Ordered(t)
    BY <1>0, <1>1, <2>1, <2>2, OrderedQueue
  <2> QED BY <1>0, <2>1, <2>3, EndingKept
<1>6. ASSUME ReadDrop(p, i) PROVE Goal
  <2>1. /\ s.reader = "reading" /\ SameAmounts(s, t) /\ SameIn(s, t) /\ t.reader = "done"
        /\ SameWriter(s, t) /\ t.hand = 0 /\ t.output = s.output /\ t.pending = s.pending
        /\ t.localFinSent = s.localFinSent
    BY <1>6, ReadDropStream
  <2> HIDE DEF s, t
  <2> QED BY <1>0, <2>1, EndingKept DEF Ordered
<1>7. ASSUME ReadError(p, i) PROVE Goal
  <2>1. /\ s.reader = "reading" /\ s.hand = 0 /\ SameAmounts(s, t) /\ SameIn(s, t) /\ SameOut(s, t)
        /\ SameWriter(s, t)
    BY <1>7, ReadErrorStream
  <2> HIDE DEF s, t
  <2> QED BY <1>0, <1>1, <2>1, EndingKept, OrderedKept
<1>8. ASSUME WritePop(p, i) PROVE Goal
  <2>1. /\ s.writer \in {"idle", "wait"} /\ SameOut(s, t) /\ SameReader(s, t)
        /\ t.remoteFin = s.remoteFin /\ t.remoteFinWritten = s.remoteFinWritten
        /\ \/ t.writer # "fin" /\ t.inputFin = s.inputFin
           \/ t.writer = "fin" /\ s.inputFin /\ t.inputFin = FALSE /\ t.input = 0
    BY <1>8, WritePopStream
  <2> HIDE DEF s, t
  <2>2. Ending(t)
    BY <1>0, <2>1 DEF Ending
  <2> QED BY <1>0, <1>1, <2>1, <2>2, OrderedKept DEF SameReader
<1>9. ASSUME WriteDone(p, i) PROVE Goal
  <2>1. s.writer = "data" /\ SameOut(s, t) /\ SameIn(s, t) /\ SameReader(s, t) /\ t.writer = "idle"
    BY <1>9, WriteDoneStream
  <2> HIDE DEF s, t
  <2>2. Ending(t)
    BY <1>0, <2>1 DEF Ending, SameIn
  <2> QED BY <1>0, <1>1, <2>1, <2>2, OrderedKept DEF SameReader
<1>10. ASSUME WriteError(p, i) PROVE Goal
  <2>1. /\ s.writer \in {"data", "fin"} /\ SameOut(s, t) /\ SameIn(s, t) /\ SameReader(s, t)
        /\ t.writer = "done"
    BY <1>10, WriteErrorStream
  <2> HIDE DEF s, t
  <2>2. Ending(t)
    BY <1>0, <2>1 DEF Ending, SameIn
  <2> QED BY <1>0, <1>1, <2>1, <2>2, OrderedKept DEF SameReader
<1> QED BY <1>2, <1>3, <1>4, <1>5, <1>6, <1>7, <1>8, <1>9, <1>10 DEF LocalAction

LEMMA OrderlyStep ==
  ASSUME Shapes, Scheduling, Idle, Orderly, [Next]_vars
  PROVE  Orderly'
<1>0. \A e \in Ends, j \in Ids : Ordered(st[e][j]) /\ Ending(st[e][j]) /\ st[e][j] \in StreamRecords
  BY OneStream DEF Orderly
<1>1. ASSUME NEW e \in Ends, NEW j \in Ids, Moved(e, j), Ordered(st'[e][j]), Ending(st'[e][j])
      PROVE  Orderly'
  BY <1>0, <1>1 DEF Moved, Orderly
<1>2. ASSUME NEW s \in StreamRecords, Ordered(s), Ending(s)
      PROVE  Ordered(ClosedStream(s)) /\ Ending(ClosedStream(s))
  BY <1>2, ClosedStreamKeeps, OrderedKept, EndingKept DEF SameReader
<1>3. ASSUME NEW t, SameOut(NoStream, t), SameIn(NoStream, t), t.writer # "fin"
      PROVE  Ordered(t) /\ Ending(t)
  BY <1>3 DEF NoStream, SameOut, SameIn, Ordered, Ending
<1>4. ASSUME NEW i \in Ids, Open(i) PROVE Orderly'
  <2>1. /\ Moved("client", i) /\ SameOut(NoStream, st'["client"][i]) /\ SameIn(NoStream, st'["client"][i])
        /\ st'["client"][i].writer = "idle" /\ "client" \in Ends
    BY <1>4, OpenStream DEF Ends
  <2>2. Ordered(st'["client"][i]) /\ Ending(st'["client"][i])
    BY <1>3, <2>1
  <2> QED BY <1>1, <2>1, <2>2
<1>5. ASSUME NEW p \in Ends, NEW i \in Ids, LocalAction(p, i) PROVE Orderly'
  <2>1. Moved(p, i)
    BY <1>5, LocalActionIsLocal DEF LocalStep
  <2> QED BY <1>1, <1>5, <2>1, LocalOrdered
<1>6. ASSUME NEW p \in Ends, NEW i \in Ids, WriteFin(p, i) PROVE Orderly'
  <2> DEFINE s == st[p][i]
             t == st'[p][i]
  <2>1. /\ Moved(p, i) /\ s.writer = "fin" /\ SameAmounts(s, t) /\ SameOut(s, t) /\ SameReader(s, t)
        /\ t.inputFin = s.inputFin /\ t.remoteFin = s.remoteFin /\ t.writer = "done"
    BY <1>6, WriteFinStream
  <2>2. s.writing = 0 /\ Ordered(s) /\ Ending(s) /\ s \in StreamRecords
    BY <1>0, <2>1 DEF Idle
  <2>3. t \in StreamRecords
    BY <2>1 DEF Moved, StreamTables
  <2> HIDE DEF s, t
  <2>4. Ordered(t)
    BY <2>1, <2>2, <2>3, OrderedKept DEF SameReader
  <2>5. Ending(t)
    BY <2>1, <2>2 DEF Ending, SameAmounts
  <2> QED BY <1>1, <2>1, <2>4, <2>5 DEF t
<1>7. ASSUME NEW p \in Ends, ReceiveOpen(p) PROVE Orderly'
  <2>1. PICK i \in Ids : i = Head(wire["client"]).stream
    BY <1>7, ReceiveOpenStream
  <2>2. /\ Moved("server", i) /\ SameOut(NoStream, st'["server"][i]) /\ SameIn(NoStream, st'["server"][i])
        /\ st'["server"][i].writer = "none" /\ "server" \in Ends
    BY <1>7, <2>1, ReceiveOpenStream DEF Ends
  <2>3. Ordered(st'["server"][i]) /\ Ending(st'["server"][i])
    BY <1>3, <2>2
  <2> QED BY <1>1, <2>2, <2>3
<1>8. ASSUME NEW p \in Ends, ReceiveFrame(p) PROVE Orderly'
  <2> DEFINE f == Head(wire[Other(p)])
  <2>1. PICK i \in Ids : i = f.stream
    BY <1>8, ReceiveFrameStream
  <2>2. Moved(p, i) /\ Gets(p, st[p][i], st'[p][i], f)
    BY <1>8, <2>1, ReceiveFrameStream
  <2> DEFINE s == st[p][i]
             t == st'[p][i]
  <2>3. t \in StreamRecords /\ s \in StreamRecords /\ Ordered(s) /\ Ending(s)
    BY <1>0, <2>2 DEF Moved, StreamTables
  <2> HIDE DEF f, s, t
  <2>4. SameOut(s, t) /\ SameReader(s, t) /\ SameWriter(s, t)
    BY <2>2 DEF Gets, s, t
  <2>5. Ordered(t)
    BY <2>3, <2>4, OrderedKept DEF SameReader
  <2>6. \/ ~s.remoteFin /\ t.remoteFinWritten = s.remoteFinWritten
           /\ (t.inputFin = s.inputFin \/ t.remoteFin = TRUE)
        \/ SameIn(s, t) /\ t.input = s.input /\ t.writing = s.writing
    BY <2>2 DEF Gets, GetsData, GetsFin, GetsCredit, GetsOpened, GetsReset, SameAmounts, SameIn, s, t
  <2>7. Ending(t)
    BY <2>3, <2>4, <2>6 DEF Ending, SameIn, SameWriter
  <2> QED BY <1>1, <2>2, <2>5, <2>7 DEF t
<1>9. ASSUME NEW p \in Ends, Take(p) PROVE Orderly'
  <2>1. PICK c \in Nat, i \in Ids : \E a, m : Turn(p, c, i, a, m)
    BY <1>9, TakeForm
  <2>2. PICK a, m : Turn(p, c, i, a, m)
    BY <2>1
  <2>3. Takes(i, st[p][i], a, m, room[p] - FrameHeader, carrier[p] = "controls") /\ Moved(p, i)
    BY <2>2 DEF Turn
  <2>4. a \in StreamRecords /\ SameIn(st[p][i], a) /\ SameWriter(st[p][i], a)
    BY <2>3 DEF Takes
  <2>5. a.input = st[p][i].input /\ a.writing = st[p][i].writing
    <3>1. TurnFlows(p, i, st[p][i], a)
      BY <2>2, TurnFlow
    <3> QED BY <3>1 DEF TurnFlows
  <2>6. Ordered(a)
    BY <1>0, <2>3, OrderedTake
  <2>7. Ending(a)
    BY <1>0, <2>4, <2>5 DEF Ending, SameIn, SameWriter
  <2>8. st'[p][i] = a \/ st'[p][i] = ClosedStream(a)
    BY <2>2 DEF Turn
  <2> QED BY <1>1, <1>2, <2>3, <2>4, <2>6, <2>7, <2>8
<1>10. ASSUME NEW p \in Ends, Close(p) PROVE Orderly'
  <2> SUFFICES ASSUME NEW e \in Ends, NEW j \in Ids PROVE Ordered(st'[e][j]) /\ Ending(st'[e][j])
    BY DEF Orderly
  <2>1. st'[e][j] = st[e][j] \/ st'[e][j] = ClosedStream(st[e][j])
    BY <1>10, CloseStreams
  <2> QED BY <1>0, <1>2, <2>1
<1>11. ASSUME st' = st PROVE Orderly'
  BY <1>11 DEF Orderly
<1>12. ASSUME NEW p \in Ends, ReceiveRetired(p) \/ CarrierCheck(p) \/ TakeEnd(p) PROVE Orderly'
  <2>1. CASE ReceiveRetired(p)
    BY <1>11, <2>1 DEF ReceiveRetired
  <2>2. CASE CarrierCheck(p)
    BY <1>11, <2>2 DEF CarrierCheck
  <2>3. CASE TakeEnd(p)
    BY <1>11, <2>3 DEF TakeEnd
  <2> QED BY <1>12, <2>1, <2>2, <2>3
<1>13. CASE UNCHANGED vars
  BY <1>11, <1>13 DEF vars
<1> QED
  BY <1>4, <1>5, <1>6, <1>7, <1>8, <1>9, <1>10, <1>12, <1>13, NextCases
\* What take sends of a stream leaves its queue: the queue and the credit
\* shrink alike.
LEMMA TakenBytes ==
  ASSUME NEW i, NEW s \in StreamRecords, NEW a, NEW m, NEW space, NEW only,
         Ordered(s), Takes(i, s, a, m, space, only)
  PROVE  /\ QueuedBytes(a) + s.credit = QueuedBytes(s) + a.credit
         /\ QueuedBytes(a) \in Nat /\ QueuedBytes(s) \in Nat /\ a.credit <= s.credit
<1> DEFINE q == Pulled(s)
<1>1. a \in StreamRecords
  BY DEF Takes
<1>2. QueuedBytes(a) \in Nat /\ QueuedBytes(s) \in Nat /\ QueuedBytes(q) = QueuedBytes(s)
  BY <1>1, PulledBytes
<1>3. s.credit \in Nat /\ a.credit \in Nat /\ s.hand \in Nat
  BY <1>1, Amounts
<1>4. ASSUME a.hand = s.hand, a.output = s.output, a.pending = s.pending, a.credit = s.credit
      PROVE QueuedBytes(a) = QueuedBytes(s) /\ a.credit = s.credit
  BY <1>4 DEF QueuedBytes
<1>5. CASE TakesReset(i, s, a, m)
  BY <1>2, <1>3, <1>4, <1>5 DEF TakesReset
<1>6. CASE \/ TakesOpen(i, s, a, m) \/ TakesLate(i, s, a, m, space)
           \/ TakesOpened(i, s, a, m) \/ TakesCredit(i, s, a, m)
  <2>1. SameOut(s, a) /\ a.credit = s.credit
    BY <1>6 DEF TakesOpen, TakesLate, TakesOpened, TakesCredit, SameAmounts
  <2> QED BY <1>2, <1>3, <1>4, <2>1 DEF SameOut
<1>7. CASE TakesQueue(s, q, a) /\ (\/ TakesNone(s, q, a, m, space, only)
                                   \/ TakesFin(i, s, q, a, m) \/ TakesData(i, s, q, a, m))
  <2>1. a.hand = q.hand /\ a.output = q.output /\ Ordered(q) /\ q \in StreamRecords /\ q.hand = s.hand
    BY <1>7, PulledForm, OrderedPulled DEF TakesQueue
  <2>2. q.pending \in Seq(Chunks) /\ q.output \in Seq(Chunks) /\ Len(q.pending) <= 1
    BY <2>1, Amounts DEF Ordered
  <2> HIDE DEF q
  <2>3. ASSUME q.pending # <<>>
        PROVE  /\ q.pending[1] \in Chunks /\ q.pending[1].len \in Nat /\ q.pending[1].sequence \in Nat
               /\ Bytes(q.pending) = q.pending[1].len
    BY <2>2, <2>3, BytesSingle
  <2>4. Bytes(q.output) \in Nat /\ Bytes(<<>>) = 0
    BY <2>2, BytesIsNat, BytesEmpty
  <2>5. CASE TakesNone(s, q, a, m, space, only)
    <3>1. QueuedBytes(a) = QueuedBytes(q) /\ a.credit = s.credit
      BY <2>1, <2>5 DEF TakesNone, QueuedBytes
    <3> QED BY <1>2, <1>3, <3>1
  <2>6. CASE TakesFin(i, s, q, a, m)
    <3>1. q.pending # <<>> /\ q.pending[1].len = 0 /\ a.pending = <<>> /\ a.credit = s.credit
      BY <2>6 DEF TakesFin
    <3>2. Bytes(q.pending) = 0
      BY <2>3, <3>1
    <3>3. QueuedBytes(a) = QueuedBytes(q)
      BY <2>1, <2>4, <3>1, <3>2 DEF QueuedBytes
    <3> QED BY <1>2, <1>3, <3>1, <3>3
  <2>7. CASE TakesData(i, s, q, a, m)
    <3>1. PICK n \in 1..q.pending[1].len :
             /\ n <= s.credit /\ a.credit = s.credit - n
             /\ a.pending = IF q.pending[1].len = n THEN <<>>
                            ELSE <<[sequence |-> (q.pending[1].sequence + n) % Offsets,
                                    len |-> q.pending[1].len - n]>>
      BY <2>7 DEF TakesData
    <3>2. q.pending # <<>>
      BY <2>7 DEF TakesData
    <3>3. q.pending[1].len \in Nat /\ q.pending[1].sequence \in Nat /\ Bytes(q.pending) = q.pending[1].len
          /\ n \in Nat
      BY <2>3, <3>2
    <3>4. Bytes(a.pending) = q.pending[1].len - n
      <4>1. CASE q.pending[1].len = n
        BY <2>4, <3>1, <3>3, <4>1
      <4>2. CASE q.pending[1].len # n
        <5> DEFINE x == [sequence |-> (q.pending[1].sequence + n) % Offsets, len |-> q.pending[1].len - n]
        <5>1. (q.pending[1].sequence + n) % Offsets \in Nat
          BY <3>3, MuxAssumption
        <5>2. x \in Chunks /\ x.len = q.pending[1].len - n
          BY <3>1, <3>3, <5>1 DEF Chunks
        <5>3. a.pending = <<x>>
          BY <3>1, <4>2
        <5> HIDE DEF x
        <5> QED BY <5>2, <5>3, BytesOne
      <4> QED BY <4>1, <4>2
    <3>5. QueuedBytes(a) + n = QueuedBytes(q)
      BY <1>3, <2>1, <2>4, <3>1, <3>3, <3>4 DEF QueuedBytes
    <3> DEFINE x == QueuedBytes(a)
               y == QueuedBytes(s)
               c == s.credit
               d == a.credit
    <3>6. x \in Nat /\ y \in Nat /\ c \in Nat /\ d \in Nat /\ n \in Nat
      BY <1>2, <1>3, <3>3
    <3>7. x + n = y /\ d = c - n
      BY <1>2, <3>1, <3>5
    <3> HIDE DEF x, y, c, d
    <3>8. x + c = y + d /\ d <= c
      BY ONLY <3>6, <3>7
    <3> QED BY <3>6, <3>8 DEF x, y, c, d
  <2> QED BY <1>7, <2>5, <2>6, <2>7
<1> QED BY <1>5, <1>6, <1>7 DEF Takes
-----------------------------------------------------------------------------
(* The wakeups of the carrier's goroutine. *)

\* A stream of which pressure counts no bytes, or nothing is queued yet.
HeldBack(s) == ReadyBytes(s) = 0 \/ (s.pending = <<>> /\ s.output = <<>>)

LEMMA ReadyZero ==
  ASSUME NEW s \in StreamRecords
  PROVE  /\ ReadyBytes(s) = 0 <=>
              \/ s.reset \/ s.localFinSent \/ QueuedBytes(s) = 0 \/ s.credit = 0
              \/ s.credit < CreditFloor /\ QueuedBytes(s) > s.credit
         /\ ReadyBytes(s) \in Nat /\ QueuedBytes(s) \in Nat /\ s.credit \in Nat /\ CreditFloor \in Nat
<1> DEFINE b == QueuedBytes(s)
           c == s.credit
           d == Min({b, c})
<1>1. b \in Nat /\ c \in Nat
  BY PulledBytes, Amounts
<1>2. CreditFloor \in Nat
  BY MuxAssumption
<1> HIDE DEF b, c
<1>3. d \in {b, c} /\ d <= b /\ d <= c
  BY <1>1, MinOfTwo
<1>4. ReadyBytes(s) = IF s.reset \/ s.localFinSent \/ (d < CreditFloor /\ b > d) THEN 0 ELSE d
  BY DEF ReadyBytes, b, c
<1> HIDE DEF d
<1>5. ReadyBytes(s) = 0 <=>
              \/ s.reset \/ s.localFinSent \/ b = 0 \/ c = 0 \/ (c < CreditFloor /\ b > c)
  <2>1. CASE s.reset \/ s.localFinSent
    BY <1>4, <2>1
  <2>2. CASE ~(s.reset \/ s.localFinSent)
    <3>1. CASE b <= c
      BY <1>1, <1>2, <1>3, <1>4, <2>2, <3>1
    <3>2. CASE b > c
      BY <1>1, <1>2, <1>3, <1>4, <2>2, <3>2
    <3> QED BY <1>1, <3>1, <3>2
  <2> QED BY <2>1, <2>2
<1>6. ReadyBytes(s) \in Nat
  BY <1>1, <1>3, <1>4
<1> QED BY <1>1, <1>2, <1>5, <1>6 DEF b, c

LEMMA SendableForm ==
  ASSUME NEW s \in StreamRecords
  PROVE  /\ ~Sendable(s) <=>
              /\ ~s.open /\ ~s.ack /\ ~s.reset /\ s.grant = 0
              /\ (s.pending = <<>> /\ s.output = <<>>) \/ (QueuedBytes(s) > 0 /\ ReadyBytes(s) = 0)
         /\ ~Sendable(s) => HeldBack(s)
<1>1. ReadyBytes(s) \in Nat /\ QueuedBytes(s) \in Nat /\ s.grant \in Nat
  BY ReadyZero, Amounts
<1> QED BY <1>1 DEF Sendable, HeldBack

\* A change that wakes nobody must not give the stream something to send.
Quieter(s, t) == (~Sendable(s) => ~Sendable(t)) /\ (HeldBack(s) => HeldBack(t))

LEMMA SameQuieter ==
  ASSUME NEW s, NEW t, SameOut(s, t), SameControl(s, t), SameReset(s, t),
         t.grant = s.grant, t.credit = s.credit
  PROVE  Quieter(s, t)
<1>1. QueuedBytes(t) = QueuedBytes(s)
  BY DEF QueuedBytes, SameOut
<1>2. ReadyBytes(t) = ReadyBytes(s)
  BY <1>1 DEF ReadyBytes, SameOut, SameReset
<1> QED BY <1>1, <1>2 DEF Quieter, Sendable, HeldBack, SameOut, SameControl, SameReset

\* The chunk in the reader's hand waits behind the others.
LEMMA ReadDataQuieter ==
  ASSUME NEW s \in StreamRecords, NEW t \in StreamRecords, Ordered(s), s.reader = "reading",
         s.hand = 0, t.output = s.output, t.pending = s.pending, t.localFinSent = s.localFinSent,
         SameAmounts(s, t), SameControl(s, t), SameReset(s, t)
  PROVE  Quieter(s, t)
<1>0. s.output \in Seq(Chunks) /\ s.pending \in Seq(Chunks)
  BY Amounts
<1>1. s.hand \in Nat /\ t.hand \in Nat /\ Bytes(s.output) \in Nat /\ Bytes(s.pending) \in Nat
  BY <1>0, Amounts, BytesIsNat
<1>2. QueuedBytes(t) >= QueuedBytes(s)
  BY <1>1 DEF QueuedBytes
<1>3. ASSUME s.pending # <<>> \/ s.output # <<>> PROVE QueuedBytes(s) > 0
  <2>1. CASE s.pending # <<>>
    <3>1. s.pending[1] \in Chunks /\ 1 \in 1..Len(s.pending)
      BY <1>0, <2>1, HeadItem
    <3>2. s.pending[1].len \in Nat /\ s.pending[1].len # 0 /\ s.pending[1].len <= Bytes(s.pending)
      BY <1>0, <2>1, <3>1, ChunkFields, BytesItem DEF Ordered
    <3> QED BY <1>1, <3>2 DEF QueuedBytes
  <2>2. CASE s.output # <<>>
    <3>1. s.output[1] \in Chunks /\ 1 \in 1..Len(s.output)
      BY <1>0, <2>2, HeadItem
    <3>2. s.output[1].len \in Nat /\ s.output[1].len # 0 /\ s.output[1].len <= Bytes(s.output)
      BY <1>0, <3>1, ChunkFields, BytesItem DEF Ordered
    <3> QED BY <1>1, <3>2 DEF QueuedBytes
  <2> QED BY <1>3, <2>1, <2>2
<1>4. ASSUME QueuedBytes(s) > 0, ReadyBytes(s) = 0 PROVE ReadyBytes(t) = 0 /\ QueuedBytes(t) > 0
  <2>1. t.credit = s.credit /\ t.reset = s.reset
    BY DEF SameAmounts, SameReset
  <2> QED BY <1>2, <1>4, <2>1, ReadyZero
<1>5. HeldBack(s) => HeldBack(t)
  BY <1>3, <1>4 DEF HeldBack
<1>6. ~Sendable(s) => ~Sendable(t)
  <2>1. t.grant = s.grant /\ t.open = s.open /\ t.ack = s.ack /\ t.reset = s.reset
    BY DEF SameAmounts, SameReset, SameControl
  <2> QED BY <1>4, <2>1, SendableForm
<1> QED BY <1>5, <1>6 DEF Quieter
\* In the table, only a stream that is to be reset is cancelled, until Close.
Cancelled == \A p \in Ends : \A i \in streams[p] : st[p][i].cancelled => st[p][i].reset \/ closed[p]

\* take starts a cell with all its room and every stream before it.
Rooms ==
  \A p \in Ends :
    /\ room[p] <= CellBudget
    /\ ~Taking(p) => misses[p] = 0 /\ room[p] = CellBudget

\* Nobody has woken the carrier's goroutine since it looked at the pressure.
Quiet(p) == ~changes[p] /\ ~closed[p]

\* The position k is one of the last misses[p] positions before the cursor.
Passed(p, k) ==
  (cursor[p] < k + misses[p] /\ k <= cursor[p]) \/ k + misses[p] > cursor[p] + Len(order[p])

Calm(p) ==
  /\ carrier[p] = "sleep" => \A i \in streams[p] : ~Sendable(st[p][i])
  /\ carrier[p] = "controls" => \A i \in streams[p] : HeldBack(st[p][i])
  /\ Taking(p) /\ room[p] = CellBudget =>
       \A k \in 1..Len(order[p]) : Passed(p, k) => ~Sendable(st[p][order[p][k]])
Calms == \A p \in Ends : Quiet(p) => Calm(p)

LEMMA LocalQuieter ==
  ASSUME Shapes, Orderly, Cancelled, NEW p \in Ends, NEW i \in Ids, LocalAction(p, i),
         ~closed[p], ~changes'[p]
  PROVE  ~changes[p] /\ (i \in streams[p] => Quieter(st[p][i], st'[p][i]))
<1> DEFINE s == st[p][i]
           t == st'[p][i]
           Goal == ~changes[p] /\ (i \in streams[p] => Quieter(s, t))
<1>0. /\ s \in StreamRecords /\ Ordered(s) /\ (i \in streams[p] /\ s.cancelled => s.reset)
      /\ t \in StreamRecords
  BY OneStream, LocalActionIsLocal DEF Orderly, Cancelled, LocalStep, Moved, StreamTables
<1>1. ASSUME Notify(p) PROVE FALSE
  BY <1>1, NotifyKeeps
<1>2. ASSUME p = "server", NEW ok \in BOOLEAN, Dialed(i, ok) PROVE Goal
  BY <1>1, <1>2 DEF Dialed
<1>3. ASSUME NEW n \in 1..StreamChunk, ReadData(p, i, n) PROVE Goal
  <2>1. /\ s.reader = "reading" /\ s.hand = 0 /\ SameAmounts(s, t) /\ SameControl(s, t)
        /\ SameReset(s, t) /\ t.output = s.output /\ t.pending = s.pending
        /\ t.localFinSent = s.localFinSent
    BY <1>3, ReadDataStream
  <2>2. changes' = changes
    BY <1>3 DEF ReadData
  <2> HIDE DEF s, t
  <2>3. Quieter(s, t)
    BY <1>0, <2>1, ReadDataQuieter
  <2> QED BY <2>2, <2>3
<1>4. ASSUME ReadQueue(p, i) PROVE Goal
  BY <1>1, <1>4 DEF ReadQueue
<1>5. ASSUME ReadEOF(p, i) PROVE Goal
  BY <1>1, <1>5 DEF ReadEOF
<1>6. ASSUME ReadDrop(p, i) PROVE Goal
  <2>1. s.cancelled /\ SameReset(s, t)
    BY <1>6, ReadDropStream
  <2>2. changes' = changes
    BY <1>6 DEF ReadDrop
  <2> HIDE DEF s, t
  <2>3. ASSUME i \in streams[p] PROVE Quieter(s, t)
    <3>1. s.reset /\ t.reset
      BY <1>0, <2>1, <2>3 DEF SameReset
    <3>2. Sendable(s) /\ ReadyBytes(t) = 0
      BY <1>0, <3>1, ReadyZero DEF Sendable
    <3> QED BY <3>2 DEF Quieter, HeldBack
  <2> QED BY <2>2, <2>3
<1>7. ASSUME ReadError(p, i) PROVE Goal
  <2>1. /\ SameAmounts(s, t) /\ SameOut(s, t) /\ SameControl(s, t)
        /\ ~s.cancelled \/ SameReset(s, t)
    BY <1>7, ReadErrorStream
  <2>2. changes' = changes /\ s.cancelled
    <3>1. [s EXCEPT !.reader = "done"].cancelled = s.cancelled
      BY <1>0 DEF StreamRecords
    <3>2. IF [s EXCEPT !.reader = "done"].cancelled THEN UNCHANGED changes ELSE Notify(p)
      BY <1>7 DEF ReadError
    <3> QED BY <1>1, <3>1, <3>2
  <2> HIDE DEF s, t
  <2>3. Quieter(s, t)
    BY <2>1, <2>2, SameQuieter DEF SameAmounts
  <2> QED BY <2>2, <2>3
<1>8. ASSUME WritePop(p, i) PROVE Goal
  <2>1. /\ SameOut(s, t) /\ SameControl(s, t) /\ SameReset(s, t)
        /\ t.credit = s.credit /\ t.grant = s.grant
    BY <1>8, WritePopStream
  <2>2. changes' = changes
    BY <1>8 DEF WritePop
  <2> HIDE DEF s, t
  <2> QED BY <2>1, <2>2, SameQuieter
<1>9. ASSUME WriteDone(p, i) PROVE Goal
  BY <1>1, <1>9 DEF WriteDone
<1>10. ASSUME WriteError(p, i) PROVE Goal
  BY <1>1, <1>10 DEF WriteError
<1> QED BY <1>2, <1>3, <1>4, <1>5, <1>6, <1>7, <1>8, <1>9, <1>10 DEF LocalAction

\* The tables of end e are left alone.
Undisturbed(e) ==
  /\ carrier'[e] = carrier[e] /\ misses'[e] = misses[e] /\ room'[e] = room[e]
  /\ order'[e] = order[e] /\ cursor'[e] = cursor[e] /\ streams'[e] = streams[e]

LEMMA CalmKept ==
  ASSUME Shapes, Scheduling, NEW e \in Ends, Undisturbed(e), Quiet(e), Calm(e),
         \A i \in streams[e] : Quieter(st[e][i], st'[e][i])
  PROVE  Calm(e)'
<1>1. \A k \in 1..Len(order[e]) : order[e][k] \in streams[e]
  BY DEF Scheduling, Listed
<1>2. carrier'[e] = "sleep" => \A i \in streams'[e] : ~Sendable(st'[e][i])
  BY DEF Undisturbed, Calm, Quieter
<1>3. carrier'[e] = "controls" => \A i \in streams'[e] : HeldBack(st'[e][i])
  BY DEF Undisturbed, Calm, Quieter
<1>4. Taking(e)' /\ room'[e] = CellBudget =>
       \A k \in 1..Len(order'[e]) : Passed(e, k)' => ~Sendable(st'[e][order'[e][k]])
  <2>1. Taking(e)' = Taking(e) /\ \A k : Passed(e, k)' = Passed(e, k)
    BY DEF Undisturbed, Taking, Passed
  <2> QED BY <1>1, <2>1 DEF Undisturbed, Calm, Quieter
<1> QED BY <1>2, <1>3, <1>4 DEF Calm

LEMMA Removal ==
  ASSUME Shapes, Scheduling, NEW p \in Ends, NEW i \in streams[p], NEW from \in Nat,
         RemoveStream(p, i, from)
  PROVE  /\ cursor' \in [Ends -> Nat] /\ streams'[p] = streams[p] \ {i}
         /\ order'[p] \in Seq(Ids) /\ \A k \in 1..Len(order'[p]) : order'[p][k] \in streams[p]
         /\ \A e \in Ends : e # p => /\ streams'[e] = streams[e] /\ order'[e] = order[e]
                                     /\ cursor'[e] = cursor[e]
<1>1. Listed(p)
  BY DEF Scheduling
<1>2. PICK k \in 1..Len(order[p]) : Removes(p, i, k, from)
  BY <1>1, RemoveStreamForm
<1>3. Shortened(p, i, k)
  BY <1>2, RemovedTables
<1>4. cursor' \in [Ends -> Nat]
  BY <1>2 DEF Removes
<1>5. \A j \in 1..Len(order'[p]) : order'[p][j] \in streams[p]
  <2> TAKE j \in 1..Len(order'[p])
  <2>1. /\ Len(order[p]) \in Nat /\ Len(order'[p]) = Len(order[p]) - 1
        /\ \A l \in 1..Len(order[p]) - 1 :
             order'[p][l] = IF l < k THEN order[p][l] ELSE order[p][l + 1]
    BY <1>3 DEF Shortened
  <2>2. j \in 1..Len(order[p]) /\ j + 1 \in 1..Len(order[p]) /\ j \in 1..Len(order[p]) - 1
    BY <2>1
  <2>3. order[p][j] \in streams[p] /\ order[p][j + 1] \in streams[p]
    BY <1>1, <2>2 DEF Listed
  <2> QED BY <2>1, <2>2, <2>3
<1> QED BY <1>3, <1>4, <1>5 DEF Shortened
LEMMA CancelledKept ==
  ASSUME Shapes, Cancelled, NEW p \in Ends, NEW i \in Ids, Moved(p, i), closed' = closed,
         \A e \in Ends : streams'[e] \subseteq streams[e] \cup (IF e = p THEN {i} ELSE {}),
         i \in streams'[p] /\ st'[p][i].cancelled => st'[p][i].reset \/ closed[p]
  PROVE  Cancelled'
<1> SUFFICES ASSUME NEW e \in Ends, NEW j \in streams'[e], st'[e][j].cancelled
             PROVE  st'[e][j].reset \/ closed'[e]
  BY DEF Cancelled
<1>1. CASE e = p /\ j = i
  BY <1>1
<1>2. CASE ~(e = p /\ j = i)
  <2>1. j \in streams[e] /\ j \in Ids
    BY <1>2 DEF Shapes
  <2>2. st'[e][j] = st[e][j]
    BY <1>2, <2>1 DEF Moved
  <2> QED BY <2>1, <2>2 DEF Cancelled
<1> QED BY <1>1, <1>2

LEMMA LocalCancelled ==
  ASSUME Shapes, NEW p \in Ends, NEW i \in Ids, LocalAction(p, i)
  PROVE  LET s == st[p][i]
             t == st'[p][i] IN
         (t.cancelled => s.cancelled \/ t.reset) /\ (s.reset => t.reset)
<1> DEFINE s == st[p][i]
           t == st'[p][i]
           Goal == (t.cancelled => s.cancelled \/ t.reset) /\ (s.reset => t.reset)
<1>1. ASSUME SameConn(s, t), SameReset(s, t) PROVE Goal
  BY <1>1 DEF SameConn, SameReset
<1>2. ASSUME p = "server", NEW ok \in BOOLEAN, Dialed(i, ok) PROVE Goal
  <2>1. \/ ~s.cancelled /\ SameReset(s, t) /\ t.cancelled = FALSE
        \/ s.cancelled /\ SameReset(s, t) /\ t.cancelled = TRUE
        \/ t.reset = TRUE
    BY <1>2, DialedStream
  <2> HIDE DEF s, t
  <2> QED BY <2>1 DEF SameReset
<1>3. ASSUME NEW n \in 1..StreamChunk, ReadData(p, i, n) PROVE Goal
  BY <1>1, <1>3, ReadDataStream
<1>4. ASSUME ReadQueue(p, i) PROVE Goal
  BY <1>1, <1>4, ReadQueueStream
<1>5. ASSUME ReadEOF(p, i) PROVE Goal
  BY <1>1, <1>5, ReadEOFStream
<1>6. ASSUME ReadDrop(p, i) PROVE Goal
  BY <1>1, <1>6, ReadDropStream
<1>7. ASSUME ReadError(p, i) PROVE Goal
  <2>1. (SameConn(s, t) /\ SameReset(s, t)) \/ t.reset = TRUE
    BY <1>7, ReadErrorStream
  <2> HIDE DEF s, t
  <2> QED BY <1>1, <2>1
<1>8. ASSUME WritePop(p, i) PROVE Goal
  BY <1>1, <1>8, WritePopStream
<1>9. ASSUME WriteDone(p, i) PROVE Goal
  BY <1>1, <1>9, WriteDoneStream
<1>10. ASSUME WriteError(p, i) PROVE Goal
  <2>1. t.reset = TRUE
    BY <1>10, WriteErrorStream
  <2> HIDE DEF s, t
  <2> QED BY <2>1
<1> QED BY <1>2, <1>3, <1>4, <1>5, <1>6, <1>7, <1>8, <1>9, <1>10 DEF LocalAction

LEMMA CancelledStep ==
  ASSUME Shapes, Scheduling, Cancelled, [Next]_vars
  PROVE  Cancelled'
<1> USE DEF pvars, cvars
<1>0. \A e \in Ends : \A j \in streams[e] : j \in Ids /\ (st[e][j].cancelled => st[e][j].reset \/ closed[e])
  BY DEF Cancelled, Shapes
<1>1. ASSUME NEW i \in Ids, Open(i) PROVE Cancelled'
  <2>1. Moved("client", i) /\ st'["client"][i].cancelled = FALSE /\ "client" \in Ends
    BY <1>1, OpenStream DEF Ends
  <2>2. closed' = closed /\ streams' = [streams EXCEPT !["client"] = @ \cup {i}]
    BY <1>1 DEF Open, AddStream
  <2>3. \A e \in Ends : streams'[e] \subseteq streams[e] \cup (IF e = "client" THEN {i} ELSE {})
    BY <2>2 DEF Shapes
  <2> QED BY <2>1, <2>2, <2>3, CancelledKept
<1>2. ASSUME NEW p \in Ends, NEW i \in Ids, LocalAction(p, i) PROVE Cancelled'
  <2>1. LocalStep(p, i)
    BY <1>2, LocalActionIsLocal
  <2>2. Moved(p, i) /\ closed' = closed /\ streams' = streams
    BY <2>1 DEF LocalStep
  <2>3. /\ st'[p][i].cancelled => st[p][i].cancelled \/ st'[p][i].reset
        /\ st[p][i].reset => st'[p][i].reset
    BY <1>2, LocalCancelled
  <2> QED BY <1>0, <2>2, <2>3, CancelledKept
<1>3. ASSUME NEW p \in Ends, NEW i \in Ids, WriteFin(p, i) PROVE Cancelled'
  <2>1. /\ Moved(p, i) /\ SameReset(st[p][i], st'[p][i])
        /\ \/ i \in streams[p] /\ RemoveStream(p, i, cursor[p])
           \/ SameConn(st[p][i], st'[p][i]) /\ UNCHANGED <<streams, order, cursor>>
    BY <1>3, WriteFinStream
  <2>2. closed' = closed /\ cursor[p] \in Nat
    BY <1>3, Zenon DEF WriteFin, Shapes
  <2>3. CASE i \in streams[p] /\ RemoveStream(p, i, cursor[p])
    <3>1. streams'[p] = streams[p] \ {i} /\ \A e \in Ends : e # p => streams'[e] = streams[e]
      BY <2>2, <2>3, Removal
    <3> QED BY <2>1, <2>2, <3>1, CancelledKept
  <2>4. CASE SameConn(st[p][i], st'[p][i]) /\ UNCHANGED <<streams, order, cursor>>
    <3>1. streams' = streams /\ st'[p][i].cancelled = st[p][i].cancelled /\ st'[p][i].reset = st[p][i].reset
      BY <2>1, <2>4 DEF SameConn, SameReset
    <3> QED BY <1>0, <2>1, <2>2, <3>1, CancelledKept
  <2> QED BY <2>1, <2>3, <2>4
<1>4. ASSUME NEW p \in Ends, ReceiveOpen(p) PROVE Cancelled'
  <2>1. PICK i \in Ids : i = Head(wire["client"]).stream
    BY <1>4, ReceiveOpenStream
  <2>2. p = "server" /\ Moved("server", i) /\ st'["server"][i].cancelled = FALSE /\ "server" \in Ends
    BY <1>4, <2>1, ReceiveOpenStream DEF Ends
  <2>3. closed' = closed /\ streams' = [streams EXCEPT !["server"] = @ \cup {i}]
    BY <1>4, <2>1, <2>2 DEF ReceiveOpen, AddStream, Other
  <2>4. \A e \in Ends : streams'[e] \subseteq streams[e] \cup (IF e = "server" THEN {i} ELSE {})
    BY <2>3 DEF Shapes
  <2> QED BY <2>2, <2>3, <2>4, CancelledKept
<1>5. ASSUME NEW p \in Ends, ReceiveFrame(p) PROVE Cancelled'
  <2> DEFINE f == Head(wire[Other(p)])
  <2>1. PICK i \in Ids : i = f.stream
    BY <1>5, ReceiveFrameStream
  <2>2. /\ Moved(p, i) /\ Gets(p, st[p][i], st'[p][i], f) /\ i \in streams[p]
        /\ \/ f.kind = "RESET" /\ RemoveStream(p, i, cursor[p])
           \/ f.kind # "RESET" /\ UNCHANGED <<streams, order, cursor>>
    BY <1>5, <2>1, ReceiveFrameStream
  <2>3. closed' = closed /\ cursor[p] \in Nat
    BY <1>5, Zenon DEF ReceiveFrame, Shapes
  <2> HIDE DEF f
  <2>4. CASE f.kind = "RESET" /\ RemoveStream(p, i, cursor[p])
    <3>1. streams'[p] = streams[p] \ {i} /\ \A e \in Ends : e # p => streams'[e] = streams[e]
      BY <2>2, <2>3, <2>4, Removal
    <3> QED BY <2>2, <2>3, <3>1, CancelledKept
  <2>5. CASE f.kind # "RESET" /\ UNCHANGED <<streams, order, cursor>>
    <3>1. st'[p][i].cancelled = st[p][i].cancelled /\ st'[p][i].reset = st[p][i].reset
      BY <2>2, <2>5 DEF Gets, GetsData, GetsFin, GetsCredit, GetsOpened, GetsReset, SameConn, SameReset
    <3> QED BY <1>0, <2>2, <2>3, <2>5, <3>1, CancelledKept
  <2> QED BY <2>2, <2>4, <2>5
<1>6. ASSUME NEW p \in Ends, Take(p) PROVE Cancelled'
  <2>1. PICK c \in Nat, i \in Ids : \E a, m : Turn(p, c, i, a, m)
    BY <1>6, TakeForm
  <2>2. PICK a, m : Turn(p, c, i, a, m)
    BY <2>1
  <2>3. closed' = closed
    BY <1>6, Zenon DEF Take
  <2>4. /\ Moved(p, i) /\ i \in streams[p]
        /\ SameConn(st[p][i], a) /\ SameReset(st[p][i], a)
    BY <2>2 DEF Turn, Takes
  <2>5. CASE Leaves(st[p][i], a, m) /\ RemoveStream(p, i, c + 1)
    <3>0. c + 1 \in Nat
      OBVIOUS
    <3>1. streams'[p] = streams[p] \ {i} /\ \A e \in Ends : e # p => streams'[e] = streams[e]
      BY <2>4, <2>5, <3>0, Removal
    <3> QED BY <2>3, <2>4, <3>1, CancelledKept
  <2>6. CASE ~Leaves(st[p][i], a, m) /\ UNCHANGED <<streams, order>>
    <3>1. st'[p][i] = a
      BY <2>2, <2>6 DEF Turn, Leaves
    <3>2. a.cancelled = st[p][i].cancelled /\ a.reset = st[p][i].reset
      BY <2>4 DEF SameConn, SameReset
    <3> QED BY <1>0, <2>3, <2>4, <2>6, <3>1, <3>2, CancelledKept
  <2>7. \/ Leaves(st[p][i], a, m) /\ RemoveStream(p, i, c + 1)
        \/ ~Leaves(st[p][i], a, m) /\ UNCHANGED <<streams, order>>
    BY <2>2 DEF Turn
  <2> QED BY <2>5, <2>6, <2>7
<1>7. ASSUME NEW p \in Ends, Close(p) PROVE Cancelled'
  <2>1. closed' = [closed EXCEPT ![p] = TRUE] /\ streams' = streams
    BY <1>7 DEF Close
  <2>2. closed'[p] = TRUE /\ \A e \in Ends : e # p => closed'[e] = closed[e]
    BY <2>1 DEF Shapes
  <2>3. \A e \in Ends, j \in Ids : e # p => st'[e][j] = st[e][j]
    BY <1>7, CloseStreams
  <2> QED BY <1>0, <2>1, <2>2, <2>3 DEF Cancelled
<1>8. ASSUME st' = st, closed' = closed, streams' = streams PROVE Cancelled'
  BY <1>8 DEF Cancelled
<1>9. ASSUME NEW p \in Ends, ReceiveRetired(p) \/ CarrierCheck(p) \/ TakeEnd(p) PROVE Cancelled'
  <2>1. CASE ReceiveRetired(p)
    BY <1>8, <2>1 DEF ReceiveRetired
  <2>2. CASE CarrierCheck(p)
    BY <1>8, <2>2 DEF CarrierCheck
  <2>3. CASE TakeEnd(p)
    BY <1>8, <2>3 DEF TakeEnd
  <2> QED BY <1>9, <2>1, <2>2, <2>3
<1>10. CASE UNCHANGED vars
  BY <1>8, <1>10 DEF vars
<1> QED
  BY <1>1, <1>2, <1>3, <1>4, <1>5, <1>6, <1>7, <1>9, <1>10, NextCases
LEMMA RoomsStep ==
  ASSUME Shapes, Scheduling, Rooms, [Next]_vars
  PROVE  Rooms'
<1> USE DEF pvars, cvars
<1>0. /\ CellBudget \in Nat /\ room \in [Ends -> Nat] /\ misses \in [Ends -> Nat]
      /\ carrier \in [Ends -> {"check", "data", "controls", "sleep"}]
  BY MuxAssumption DEF Shapes
<1>1. ASSUME carrier' = carrier, misses' = misses, room' = room PROVE Rooms'
  BY <1>1 DEF Rooms, Taking
<1>2. ASSUME NEW i \in Ids, Open(i) PROVE Rooms'
  BY <1>1, <1>2 DEF Open
<1>3. ASSUME NEW p \in Ends, NEW i \in Ids, LocalAction(p, i) PROVE Rooms'
  <2>1. LocalStep(p, i)
    BY <1>3, LocalActionIsLocal
  <2> QED BY <1>1, <2>1 DEF LocalStep
<1>4. ASSUME NEW p \in Ends, NEW i \in Ids, WriteFin(p, i) PROVE Rooms'
  <2>1. UNCHANGED <<carrier, misses, room>>
    BY <1>4, Zenon DEF WriteFin
  <2> QED BY <1>1, <2>1
<1>5. ASSUME NEW p \in Ends, ReceiveOpen(p) \/ ReceiveFrame(p) \/ ReceiveRetired(p) PROVE Rooms'
  <2>1. UNCHANGED <<carrier, misses, room>>
    BY <1>5, Zenon DEF ReceiveOpen, ReceiveFrame, ReceiveRetired
  <2> QED BY <1>1, <2>1
<1>6. ASSUME NEW p \in Ends, Take(p) PROVE Rooms'
  <2>1. PICK c \in Nat, i \in Ids : \E a, m : Turn(p, c, i, a, m)
    BY <1>6, TakeForm
  <2>2. PICK a, m : Turn(p, c, i, a, m)
    BY <2>1
  <2>3. carrier' = carrier
    BY <1>6, Zenon DEF Take
  <2>4. /\ misses'[Other(p)] = misses[Other(p)] /\ room'[Other(p)] = room[Other(p)]
        /\ IF m = <<>> THEN room'[p] = room[p] ELSE room'[p] < CellBudget \/ room[p] > CellBudget
        /\ room' \in [Ends -> Nat]
    BY <2>2, TurnTypes
  <2>5. Taking(p) /\ Taking(p)'
    BY <2>2, <2>3 DEF Turn, Taking
  <2>6. room[p] <= CellBudget
    BY DEF Rooms
  <2>7. room'[p] <= CellBudget
    BY <1>0, <2>4, <2>6
  <2> SUFFICES ASSUME NEW e \in Ends
               PROVE  room'[e] <= CellBudget /\ (~Taking(e)' => misses'[e] = 0 /\ room'[e] = CellBudget)
    BY DEF Rooms
  <2>8. CASE e = p
    BY <2>5, <2>7, <2>8
  <2>9. CASE e = Other(p)
    BY <2>3, <2>4, <2>9 DEF Rooms, Taking
  <2> QED BY <2>8, <2>9, EndsPair
<1>7. ASSUME NEW p \in Ends, CarrierCheck(p) PROVE Rooms'
  <2>1. ~Taking(p)
    BY <1>7 DEF CarrierCheck, Taking
  <2>2. misses' = misses /\ room' = room /\ \A e \in Ends : e # p => carrier'[e] = carrier[e]
    BY <1>0, <1>7 DEF CarrierCheck
  <2> QED BY <2>1, <2>2 DEF Rooms, Taking
<1>8. ASSUME NEW p \in Ends, TakeEnd(p) PROVE Rooms'
  <2>1. /\ misses' = [misses EXCEPT ![p] = 0] /\ room' = [room EXCEPT ![p] = CellBudget]
        /\ \A e \in Ends : e # p => carrier'[e] = carrier[e]
    BY <1>0, <1>8 DEF TakeEnd
  <2>2. /\ misses'[p] = 0 /\ room'[p] = CellBudget
        /\ \A e \in Ends : e # p => misses'[e] = misses[e] /\ room'[e] = room[e]
    BY <1>0, <2>1
  <2> QED BY <1>0, <2>1, <2>2 DEF Rooms, Taking
<1>9. ASSUME NEW p \in Ends, Close(p) PROVE Rooms'
  BY <1>1, <1>9 DEF Close
<1>10. CASE UNCHANGED vars
  BY <1>1, <1>10 DEF vars
<1> QED
  BY <1>2, <1>3, <1>4, <1>5, <1>6, <1>7, <1>8, <1>9, <1>10, NextCases
-----------------------------------------------------------------------------
(* take leaves behind only what it could not send. *)

LEMMA TakeHeldBack ==
  ASSUME NEW i, NEW s \in StreamRecords, NEW a, NEW m, NEW space, NEW only,
         Ordered(s), Takes(i, s, a, m, space, only), HeldBack(s)
  PROVE  HeldBack(a)
<1> DEFINE q == Pulled(s)
<1>0. a \in StreamRecords /\ a.reset = s.reset
  BY DEF Takes, SameReset
<1>1. /\ QueuedBytes(a) + s.credit = QueuedBytes(s) + a.credit
      /\ QueuedBytes(a) \in Nat /\ QueuedBytes(s) \in Nat /\ a.credit <= s.credit
  BY TakenBytes
<1>2. s.credit \in Nat /\ a.credit \in Nat /\ CreditFloor \in Nat
  BY <1>0, Amounts, MuxAssumption
<1>3. CASE s.pending = <<>> /\ s.output = <<>>
  <2>1. q.pending = <<>> /\ q.output = <<>>
    BY <1>3, PulledBytes
  <2> HIDE DEF q
  <2>2. CASE TakesQueue(s, q, a) /\ TakesNone(s, q, a, m, space, only)
    BY <2>1, <2>2 DEF TakesQueue, TakesNone, HeldBack
  <2>3. ~TakesFin(i, s, q, a, m) /\ ~TakesData(i, s, q, a, m)
    BY <2>1 DEF TakesFin, TakesData
  <2>4. CASE TakesReset(i, s, a, m)
    BY <2>4 DEF TakesReset
  <2>5. CASE \/ TakesOpen(i, s, a, m) \/ TakesLate(i, s, a, m, space)
             \/ TakesOpened(i, s, a, m) \/ TakesCredit(i, s, a, m)
    BY <1>3, <2>5 DEF TakesOpen, TakesLate, TakesOpened, TakesCredit, SameOut, HeldBack
  <2> QED BY <2>2, <2>3, <2>4, <2>5 DEF Takes, q
<1>4. CASE ~(s.pending = <<>> /\ s.output = <<>>)
  <2>1. ReadyBytes(s) = 0 /\ ~s.localFinSent
    BY <1>4 DEF HeldBack, Ordered
  <2>2. \/ s.reset \/ QueuedBytes(s) = 0 \/ s.credit = 0
        \/ s.credit < CreditFloor /\ QueuedBytes(s) > s.credit
    BY <2>1, ReadyZero
  <2> DEFINE x == QueuedBytes(s)
             y == QueuedBytes(a)
             b == s.credit
             d == a.credit
  <2>3. /\ x \in Nat /\ y \in Nat /\ b \in Nat /\ d \in Nat /\ y + b = x + d /\ d <= b
        /\ s.reset \/ x = 0 \/ b = 0 \/ (b < CreditFloor /\ x > b)
    BY <1>1, <1>2, <2>2
  <2> HIDE DEF x, y, b, d
  <2>4. s.reset \/ y = 0 \/ d = 0 \/ (d < CreditFloor /\ y > d)
    BY <1>2, <2>3
  <2>5. ReadyBytes(a) = 0
    BY <1>0, <2>4, ReadyZero DEF y, d
  <2> QED BY <2>5 DEF HeldBack
<1> QED BY <1>3, <1>4

LEMMA TakeQuiet ==
  ASSUME NEW i, NEW s \in StreamRecords, NEW a, NEW space \in Nat, NEW only,
         Ordered(s), Takes(i, s, a, <<>>, space, only), space > CreditBody, OpenBody[i] <= space,
         only => HeldBack(s)
  PROVE  ~Sendable(a) /\ ~s.reset
<1> DEFINE q == Pulled(s)
<1>0. a \in StreamRecords /\ a.reset = s.reset /\ CreditBody \in Nat /\ s.grant \in Nat
  BY Amounts, MuxAssumption DEF Takes, SameReset
<1>1. TakesQueue(s, q, a) /\ TakesNone(s, q, a, <<>>, space, only)
  <2>1. \A f : <<f>> # <<>>
    OBVIOUS
  <2>2. ~TakesLate(i, s, a, <<>>, space)
    BY DEF TakesLate
  <2> QED BY <2>1, <2>2, Zenon DEF Takes, TakesReset, TakesOpen, TakesOpened, TakesCredit, TakesFin, TakesData
<1>2. q.pending \in Seq(Chunks) /\ q.output \in Seq(Chunks) /\ (q.pending = <<>> => q.output = <<>>)
  BY PulledForm, PulledBytes, Amounts
<1> HIDE DEF q
<1>3. ~a.open /\ ~a.ack /\ ~a.reset /\ a.grant = 0 /\ ~s.reset
  BY <1>0, <1>1 DEF TakesQueue, TakesNone, SameControl
<1>4. /\ a.pending = q.pending /\ a.output = q.output /\ a.credit = s.credit
      /\ q.pending # <<>> => q.pending[1].len > 0 /\ (only \/ s.credit = 0)
  BY <1>0, <1>1 DEF TakesQueue, TakesNone
<1>5. CASE q.pending = <<>>
  BY <1>0, <1>2, <1>3, <1>4, <1>5, SendableForm
<1>6. CASE q.pending # <<>>
  <2>1. 1 \in 1..Len(q.pending) /\ q.pending[1] \in Chunks
    BY <1>2, <1>6, HeadItem
  <2>2. q.pending[1].len \in Nat /\ q.pending[1].len <= Bytes(a.pending) /\ Bytes(a.pending) \in Nat
    BY <1>2, <1>4, <2>1, ChunkFields, BytesItem, BytesIsNat
  <2>3. Bytes(a.output) \in Nat /\ a.hand \in Nat
    BY <1>0, Amounts, BytesIsNat
  <2>4. QueuedBytes(a) > 0
    BY <1>4, <1>6, <2>2, <2>3 DEF QueuedBytes
  <2>5. ReadyBytes(a) = 0
    <3>1. CASE only
      <4>1. HeldBack(a)
        BY <3>1, TakeHeldBack
      <4> QED BY <1>4, <1>6, <4>1 DEF HeldBack
    <3>2. CASE s.credit = 0
      BY <1>0, <1>4, <3>2, ReadyZero
    <3> QED BY <1>4, <1>6, <3>1, <3>2
  <2> QED BY <1>0, <1>3, <2>4, <2>5, SendableForm
<1> QED BY <1>5, <1>6
-----------------------------------------------------------------------------
(* Every step keeps an unwoken carrier's goroutine right to sleep. *)

LEMMA CalmElsewhere ==
  ASSUME Shapes, Scheduling, Calms, NEW e \in Ends, Undisturbed(e),
         changes'[e] = changes[e], closed'[e] = closed[e],
         \A j \in streams[e] : st'[e][j] = st[e][j]
  PROVE  Quiet(e)' => Calm(e)'
<1> SUFFICES ASSUME Quiet(e)' PROVE Calm(e)'
  OBVIOUS
<1>1. Quiet(e) /\ Calm(e)
  BY DEF Quiet, Calms
<1>2. \A j \in streams[e] : Quieter(st[e][j], st'[e][j])
  BY DEF Quieter
<1> QED BY <1>1, <1>2, CalmKept

\* The step of stream i at p, as the other end and the other streams see it.
LEMMA CalmsAt ==
  ASSUME Shapes, Scheduling, Calms, NEW p \in Ends, NEW i \in Ids, Moved(p, i),
         \A e \in Ends : e # p => Undisturbed(e) /\ changes'[e] = changes[e] /\ closed'[e] = closed[e],
         Quiet(p)' => Calm(p)'
  PROVE  Calms'
<1> SUFFICES ASSUME NEW e \in Ends PROVE Quiet(e)' => Calm(e)'
  BY DEF Calms
<1>1. CASE e # p
  <2>1. \A j \in streams[e] : st'[e][j] = st[e][j]
    BY <1>1 DEF Moved, Shapes
  <2> QED BY <1>1, <2>1, CalmElsewhere
<1> QED BY <1>1

LEMMA NothingPassed ==
  ASSUME NEW c \in Nat, NEW n \in Nat, NEW k \in 1..n
  PROVE  ~((c < k + 0 /\ k <= c) \/ k + 0 > c + n)
  OBVIOUS

\* The turn after the one at position c + 1.
LEMMA PassedOn ==
  ASSUME NEW c \in Nat, NEW d \in Nat, NEW n \in Nat, NEW m \in Nat, NEW k \in 1..n,
         c = d \/ (c = 0 /\ d = n), k # c + 1,
         (c + 1 < k + (m + 1) /\ k <= c + 1) \/ k + (m + 1) > c + 1 + n
  PROVE  (d < k + m /\ k <= d) \/ k + m > d + n
<1>1. CASE c = d
  BY <1>1
<1>2. CASE c = 0 /\ d = n
  BY <1>2
<1> QED BY <1>1, <1>2

LEMMA TakeCalm ==
  ASSUME Shapes, Shapes', Scheduling, Orderly, Rooms, NEW p \in Ends, NEW c \in Nat, NEW i \in Ids,
         NEW a, NEW m, Turn(p, c, i, a, m), carrier' = carrier, Calm(p)
  PROVE  Calm(p)'
<1> DEFINE s == st[p][i]
           only == carrier[p] = "controls"
           space == room[p] - FrameHeader
<1>0. /\ s \in StreamRecords /\ Ordered(s) /\ Takes(i, s, a, m, space, only) /\ Moved(p, i)
      /\ space \in Nat /\ i \in streams[p] /\ i = order[p][c + 1] /\ c \in 0..Len(order[p]) - 1
      /\ c = cursor[p] \/ (c = 0 /\ cursor[p] = Len(order[p]))
  BY OneStream DEF Orderly, Turn
<1>1. Taking(p) /\ Taking(p)' /\ carrier'[p] # "sleep" /\ carrier'[p] = carrier[p]
  BY DEF Turn, Taking
<1>2. i \in streams'[p] => st'[p][i] = a /\ streams' = streams
  <2>1. CASE RemoveStream(p, i, c + 1)
    <3>1. c + 1 \in Nat
      OBVIOUS
    <3>2. streams'[p] = streams[p] \ {i}
      BY <1>0, <2>1, <3>1, Removal
    <3> QED BY <3>2
  <2>2. CASE ~Leaves(st[p][i], a, m) /\ UNCHANGED <<streams, order>>
    BY <2>2 DEF Turn, Leaves
  <2> QED BY <2>1, <2>2 DEF Turn
<1>3. \A e \in Ends : streams'[e] \subseteq streams[e]
  BY StreamsShrink DEF Turn
<1>4. ASSUME carrier'[p] = "controls", NEW j \in streams'[p] PROVE HeldBack(st'[p][j])
  <2>1. j \in streams[p] /\ j \in Ids /\ HeldBack(st[p][j])
    BY <1>1, <1>3, <1>4 DEF Calm, Shapes
  <2>2. CASE j # i
    BY <1>0, <2>1, <2>2 DEF Moved
  <2>3. CASE j = i
    BY <1>0, <1>2, <1>4, <2>1, <2>3, TakeHeldBack
  <2> QED BY <2>2, <2>3
<1>5. ASSUME room'[p] = CellBudget, NEW k \in 1..Len(order'[p]), Passed(p, k)'
      PROVE  ~Sendable(st'[p][order'[p][k]])
  <2>1. /\ room[p] <= CellBudget /\ room[p] \in Nat /\ room'[p] \in Nat
        /\ CellBudget \in Nat /\ FrameHeader \in Nat /\ CreditBody \in Nat
        /\ CellBudget > FrameHeader + CreditBody
    BY MuxAssumption DEF Rooms, Shapes
  <2>2. /\ IF m = <<>> THEN room'[p] = room[p] ELSE room'[p] < CellBudget \/ room[p] > CellBudget
        /\ misses'[p] = IF m = <<>> THEN misses[p] + 1 ELSE 0
    BY TurnTypes
  <2>3. m = <<>> /\ room[p] = CellBudget
    BY <1>5, <2>1, <2>2
  <2>4. space > CreditBody /\ OpenBody[i] <= space
    BY <2>1, <2>3, OpenAssumption DEF Ids
  <2>5. only => HeldBack(s)
    BY <1>0 DEF Calm
  <2>6. Takes(i, s, a, <<>>, space, only)
    BY <1>0, <2>3
  <2> HIDE DEF s, space, only
  <2>7. ~Sendable(a) /\ ~s.reset
    BY <1>0, <2>4, <2>5, <2>6, TakeQuiet
  <2>8. ~Leaves(st[p][i], a, m)
    BY <2>3, <2>7 DEF Leaves, s
  <2>9. /\ UNCHANGED <<streams, order>> /\ cursor' = [cursor EXCEPT ![p] = c + 1] /\ st'[p][i] = a
    BY <2>3, <2>8 DEF Turn
  <2>10. cursor'[p] = c + 1 /\ misses'[p] = misses[p] + 1 /\ misses[p] \in Nat /\ cursor[p] \in Nat
         /\ Len(order[p]) \in Nat /\ order'[p] = order[p] /\ k \in 1..Len(order[p])
    BY <1>5, <2>2, <2>3, <2>9 DEF Shapes
  <2>11. CASE k = c + 1
    BY <1>0, <2>7, <2>9, <2>10, <2>11
  <2>12. CASE k # c + 1
    <3>1. c + 1 \in 1..Len(order[p])
      BY <1>0, <2>10
    <3>2. order[p][k] # i /\ order[p][k] \in streams[p]
      BY <1>0, <2>10, <2>12, <3>1 DEF Scheduling, Listed
    <3>3. st'[p][order[p][k]] = st[p][order[p][k]]
      BY <1>0, <3>2 DEF Moved, Shapes
    <3> DEFINE d == cursor[p]
               n == Len(order[p])
               u == misses[p]
    <3>4. /\ d \in Nat /\ n \in Nat /\ u \in Nat /\ k \in 1..n /\ (c = d \/ (c = 0 /\ d = n))
          /\ (c + 1 < k + (u + 1) /\ k <= c + 1) \/ k + (u + 1) > c + 1 + n
      BY <1>0, <1>5, <2>10 DEF Passed
    <3> HIDE DEF d, n, u
    <3>5. (d < k + u /\ k <= d) \/ k + u > d + n
      BY <2>12, <3>4, PassedOn
    <3>6. Passed(p, k)
      BY <3>5 DEF Passed, d, n, u
    <3>7. ~Sendable(st[p][order[p][k]])
      BY <1>1, <2>3, <2>10, <3>6 DEF Calm
    <3> QED BY <2>10, <3>3, <3>7
  <2> QED BY <2>11, <2>12
<1> QED BY <1>1, <1>4, <1>5 DEF Calm
LEMMA CheckCalm ==
  ASSUME Shapes, Rooms, NEW p \in Ends, CarrierCheck(p)
  PROVE  Calm(p)'
<1>1. /\ streams' = streams /\ st' = st /\ order' = order /\ cursor' = cursor
      /\ misses' = misses /\ ~Taking(p)
      /\ carrier'[p] = IF PressureBytes(p) THEN "data"
                       ELSE IF PressureControls(p) THEN "controls" ELSE "sleep"
  BY DEF CarrierCheck, Taking, pvars, Shapes
<1>2. \A i \in streams[p] : i \in Ids /\ ReadyBytes(st[p][i]) \in Nat
  BY OneStream, ReadyZero DEF Shapes
<1>3. ASSUME carrier'[p] = "controls", NEW i \in streams'[p] PROVE HeldBack(st'[p][i])
  BY <1>1, <1>2, <1>3 DEF PressureBytes, HeldBack
<1>4. ASSUME carrier'[p] = "sleep", NEW i \in streams'[p] PROVE ~Sendable(st'[p][i])
  <2>1. ~Control(st[p][i]) /\ ~(ReadyBytes(st[p][i]) > 0)
    BY <1>1, <1>4 DEF PressureBytes, PressureControls
  <2> QED BY <1>1, <2>1 DEF Sendable, Control
<1>5. ASSUME NEW k \in 1..Len(order'[p]) PROVE ~Passed(p, k)'
  <2>1. misses'[p] = 0 /\ cursor[p] \in Nat /\ Len(order[p]) \in Nat
    BY <1>1 DEF Rooms, Shapes
  <2> QED BY <1>1, <2>1, NothingPassed DEF Passed
<1> QED BY <1>3, <1>4, <1>5 DEF Calm

LEMMA EndCalm ==
  ASSUME Shapes, Scheduling, Rooms, NEW p \in Ends, Calm(p), TakeEnd(p)
  PROVE  Calm(p)'
<1>1. /\ streams' = streams /\ st' = st /\ Taking(p) /\ ~TakeGoesOn(p)
      /\ carrier'[p] = IF room[p] < CellBudget THEN "check" ELSE "sleep"
  BY DEF TakeEnd, Shapes
<1>2. carrier'[p] # "controls" /\ ~Taking(p)'
  BY <1>1 DEF Taking
<1>3. ASSUME carrier'[p] = "sleep", NEW i \in streams'[p] PROVE ~Sendable(st'[p][i])
  <2>1. /\ room[p] <= CellBudget /\ room[p] \in Nat /\ misses[p] \in Nat /\ cursor[p] \in Nat
        /\ CellBudget \in Nat /\ FrameHeader \in Nat /\ CreditBody \in Nat
        /\ CellBudget > FrameHeader + CreditBody /\ Len(order[p]) \in Nat /\ cursor[p] <= Len(order[p])
    BY MuxAssumption DEF Rooms, Shapes, Scheduling, Listed
  <2>2. room[p] = CellBudget /\ misses[p] >= Len(order[p])
    BY <1>1, <1>3, <2>1 DEF TakeGoesOn
  <2>3. PICK k \in 1..Len(order[p]) : order[p][k] = i
    BY <1>1, <1>3 DEF Scheduling, Listed
  <2>4. Passed(p, k)
    BY <2>1, <2>2 DEF Passed
  <2> QED BY <1>1, <2>2, <2>3, <2>4 DEF Calm
<1> QED BY <1>2, <1>3 DEF Calm

LEMMA RetireCalm ==
  ASSUME Shapes, Scheduling, NEW p \in Ends, NEW i \in streams[p], Moved(p, i), Unlocked(p), Calm(p),
         RemoveStream(p, i, cursor[p]), carrier' = carrier, misses' = misses, room' = room
  PROVE  Calm(p)'
<1>1. cursor[p] \in Nat
  BY DEF Shapes
<1>2. /\ cursor'[p] \in Nat /\ streams'[p] = streams[p] \ {i} /\ order'[p] \in Seq(Ids)
  BY <1>1, Removal
<1>3. \A j \in streams'[p] : j \in streams[p] /\ st'[p][j] = st[p][j]
  BY <1>2 DEF Moved, Shapes
<1>4. ASSUME Taking(p)', NEW k \in 1..Len(order'[p]) PROVE ~Passed(p, k)'
  <2>1. misses'[p] = 0
    BY <1>4 DEF Unlocked, Taking
  <2>2. Len(order'[p]) \in Nat
    BY <1>2
  <2> QED BY <1>2, <2>1, <2>2, NothingPassed DEF Passed
<1> QED BY <1>3, <1>4 DEF Calm

LEMMA CalmsStep ==
  ASSUME Shapes, Shapes', Scheduling, Orderly, Cancelled, Rooms, Calms, [Next]_vars
  PROVE  Calms'
<1> USE DEF pvars, cvars
<1>0. ASSUME NEW p \in Ends, Notify(p)
      PROVE  ~Quiet(p)' /\ \A e \in Ends : e # p => changes'[e] = changes[e]
  BY <1>0, NotifyKeeps DEF Quiet
<1>1. ASSUME NEW i \in Ids, Open(i) PROVE Calms'
  <2>1. Moved("client", i) /\ "client" \in Ends
    BY <1>1, OpenStream DEF Ends
  <2>2. /\ Notify("client") /\ UNCHANGED <<cursor, closed, carrier, misses, room>>
        /\ streams' = [streams EXCEPT !["client"] = @ \cup {i}]
        /\ order' = [order EXCEPT !["client"] = Append(@, i)]
    BY <1>1 DEF Open, AddStream
  <2>3. \A e \in Ends : e # "client" => Undisturbed(e)
    BY <2>2 DEF Undisturbed, Shapes
  <2> QED BY <1>0, <2>1, <2>2, <2>3, CalmsAt
<1>2. ASSUME NEW p \in Ends, NEW i \in Ids, LocalAction(p, i) PROVE Calms'
  <2>1. LocalStep(p, i)
    BY <1>2, LocalActionIsLocal
  <2>2. /\ Moved(p, i) /\ \A e \in Ends : Undisturbed(e) /\ closed'[e] = closed[e]
        /\ \A e \in Ends : e # p => changes'[e] = changes[e]
    BY <2>1 DEF LocalStep, Undisturbed
  <2>3. ASSUME Quiet(p)' PROVE Calm(p)'
    <3>1. ~closed[p] /\ ~changes'[p]
      BY <2>2, <2>3 DEF Quiet
    <3>2. ~changes[p] /\ (i \in streams[p] => Quieter(st[p][i], st'[p][i]))
      BY <1>2, <3>1, LocalQuieter
    <3>3. Quiet(p) /\ Calm(p)
      BY <3>1, <3>2 DEF Quiet, Calms
    <3>4. \A j \in streams[p] : Quieter(st[p][j], st'[p][j])
      <4> TAKE j \in streams[p]
      <4>1. j # i => st'[p][j] = st[p][j]
        BY <2>2 DEF Moved, Shapes
      <4> QED BY <3>2, <4>1 DEF Quieter
    <3> QED BY <2>2, <3>3, <3>4, CalmKept
  <2> QED BY <2>2, <2>3, CalmsAt
<1>3. ASSUME NEW p \in Ends, NEW i \in Ids, WriteFin(p, i) PROVE Calms'
  <2> DEFINE s == st[p][i]
             t == st'[p][i]
  <2>1. /\ Moved(p, i) /\ SameAmounts(s, t) /\ SameOut(s, t) /\ SameControl(s, t) /\ SameReset(s, t)
        /\ \/ i \in streams[p] /\ RemoveStream(p, i, cursor[p])
           \/ UNCHANGED <<streams, order, cursor>>
    BY <1>3, WriteFinStream
  <2>2. Unlocked(p) /\ UNCHANGED <<closed, changes, carrier, misses, room>>
    BY <1>3, Zenon DEF WriteFin
  <2>3. \A e \in Ends : e # p => Undisturbed(e)
    <3>0. cursor[p] \in Nat
      BY DEF Shapes
    <3>1. CASE i \in streams[p] /\ RemoveStream(p, i, cursor[p])
      BY <2>2, <3>0, <3>1, Removal DEF Undisturbed
    <3>2. CASE UNCHANGED <<streams, order, cursor>>
      BY <2>2, <3>2 DEF Undisturbed
    <3> QED BY <2>1, <3>1, <3>2
  <2>4. Quieter(s, t)
    BY <2>1, SameQuieter DEF SameAmounts
  <2>5. ASSUME Quiet(p)' PROVE Calm(p)'
    <3>1. Quiet(p) /\ Calm(p)
      BY <2>2, <2>5 DEF Quiet, Calms
    <3>2. CASE i \in streams[p] /\ RemoveStream(p, i, cursor[p])
      BY <2>1, <2>2, <3>1, <3>2, RetireCalm
    <3>3. CASE UNCHANGED <<streams, order, cursor>>
      <4>1. Undisturbed(p)
        BY <2>2, <3>3 DEF Undisturbed
      <4>2. \A j \in streams[p] : Quieter(st[p][j], st'[p][j])
        <5> TAKE j \in streams[p]
        <5>1. j # i => st'[p][j] = st[p][j]
          BY <2>1 DEF Moved, Shapes
        <5> QED BY <2>4, <5>1 DEF Quieter
      <4> QED BY <3>1, <4>1, <4>2, CalmKept
    <3> QED BY <2>1, <3>2, <3>3
  <2> QED BY <2>1, <2>2, <2>3, <2>5, CalmsAt
<1>4. ASSUME NEW p \in Ends, ReceiveOpen(p) PROVE Calms'
  <2>1. PICK i \in Ids : i = Head(wire["client"]).stream
    BY <1>4, ReceiveOpenStream
  <2>2. p = "server" /\ Moved("server", i) /\ "server" \in Ends
    BY <1>4, <2>1, ReceiveOpenStream DEF Ends
  <2>3. /\ Notify("server") /\ UNCHANGED <<cursor, closed, carrier, misses, room>>
        /\ streams' = [streams EXCEPT !["server"] = @ \cup {i}]
        /\ order' = [order EXCEPT !["server"] = Append(@, i)]
    BY <1>4, <2>1, <2>2 DEF ReceiveOpen, AddStream, Other
  <2>4. \A e \in Ends : e # "server" => Undisturbed(e)
    BY <2>3 DEF Undisturbed, Shapes
  <2> QED BY <1>0, <2>2, <2>3, <2>4, CalmsAt
<1>5. ASSUME NEW p \in Ends, ReceiveFrame(p) PROVE Calms'
  <2>1. PICK i \in Ids : i = Head(wire[Other(p)]).stream
    BY <1>5, ReceiveFrameStream
  <2>2. /\ Moved(p, i) /\ i \in streams[p]
        /\ RemoveStream(p, i, cursor[p]) \/ UNCHANGED <<streams, order, cursor>>
    BY <1>5, <2>1, ReceiveFrameStream
  <2>3. Notify(p) /\ UNCHANGED <<closed, carrier, misses, room>>
    BY <1>5, Zenon DEF ReceiveFrame
  <2>4. \A e \in Ends : e # p => Undisturbed(e)
    <3>0. cursor[p] \in Nat
      BY DEF Shapes
    <3>1. CASE RemoveStream(p, i, cursor[p])
      BY <2>2, <2>3, <3>0, <3>1, Removal DEF Undisturbed
    <3>2. CASE UNCHANGED <<streams, order, cursor>>
      BY <2>3, <3>2 DEF Undisturbed
    <3> QED BY <2>2, <3>1, <3>2
  <2> QED BY <1>0, <2>2, <2>3, <2>4, CalmsAt
<1>6. ASSUME NEW p \in Ends, Take(p) PROVE Calms'
  <2>1. PICK c \in Nat, i \in Ids : \E a, m : Turn(p, c, i, a, m)
    BY <1>6, TakeForm
  <2>2. PICK a, m : Turn(p, c, i, a, m)
    BY <2>1
  <2>3. UNCHANGED <<closed, changes, carrier>>
    BY <1>6, Zenon DEF Take
  <2>4. /\ Moved(p, i) /\ i \in streams[p] /\ cursor \in [Ends -> Nat]
        /\ RemoveStream(p, i, c + 1)
             \/ (UNCHANGED <<streams, order>> /\ cursor' = [cursor EXCEPT ![p] = c + 1])
    BY <2>2 DEF Turn, Shapes
  <2>5. misses'[Other(p)] = misses[Other(p)] /\ room'[Other(p)] = room[Other(p)]
    BY <2>2, TurnTypes
  <2>6. \A e \in Ends : e # p => Undisturbed(e)
    <3>0. c + 1 \in Nat
      OBVIOUS
    <3>1. \A e \in Ends : e # p => streams'[e] = streams[e] /\ order'[e] = order[e] /\ cursor'[e] = cursor[e]
      <4>1. CASE RemoveStream(p, i, c + 1)
        BY <2>4, <3>0, <4>1, Removal
      <4>2. CASE UNCHANGED <<streams, order>> /\ cursor' = [cursor EXCEPT ![p] = c + 1]
        BY <2>4, <4>2
      <4> QED BY <2>4, <4>1, <4>2
    <3> QED BY <2>3, <2>5, <3>1, EndsPair DEF Undisturbed
  <2>7. ASSUME Quiet(p)' PROVE Calm(p)'
    <3>1. Calm(p)
      BY <2>3, <2>7 DEF Quiet, Calms
    <3> QED BY <2>2, <2>3, <3>1, TakeCalm
  <2> QED BY <2>3, <2>4, <2>6, <2>7, CalmsAt
<1>7. ASSUME NEW p \in Ends, st' = st,
             \A e \in Ends : e # p => Undisturbed(e) /\ changes'[e] = changes[e] /\ closed'[e] = closed[e],
             Quiet(p)' => Calm(p)'
      PROVE  Calms'
  <2>1. \A e \in Ends : e # p => (Quiet(e)' => Calm(e)')
    BY <1>7, CalmElsewhere
  <2> QED BY <1>7, <2>1 DEF Calms
<1>8. ASSUME NEW p \in Ends, ReceiveRetired(p) PROVE Calms'
  <2>1. Notify(p) /\ UNCHANGED <<streams, st, order, cursor, closed, carrier, misses, room>>
    BY <1>8 DEF ReceiveRetired
  <2> QED BY <1>0, <1>7, <2>1 DEF Undisturbed
<1>9. ASSUME NEW p \in Ends, CarrierCheck(p) PROVE Calms'
  <2>1. /\ UNCHANGED <<streams, st, order, cursor, closed, misses, room>>
        /\ \A e \in Ends : e # p => carrier'[e] = carrier[e] /\ changes'[e] = changes[e]
    BY <1>9 DEF CarrierCheck, Shapes
  <2> QED BY <1>7, <1>9, <2>1, CheckCalm DEF Undisturbed
<1>10. ASSUME NEW p \in Ends, TakeEnd(p) PROVE Calms'
  <2>1. /\ UNCHANGED <<streams, st, order, cursor, closed, changes>>
        /\ \A e \in Ends : e # p =>
             carrier'[e] = carrier[e] /\ misses'[e] = misses[e] /\ room'[e] = room[e]
    BY <1>10 DEF TakeEnd, Shapes
  <2>2. ASSUME Quiet(p)' PROVE Calm(p)'
    <3>1. Calm(p)
      BY <2>1, <2>2 DEF Quiet, Calms
    <3> QED BY <1>10, <3>1, EndCalm
  <2> QED BY <1>7, <2>1, <2>2 DEF Undisturbed
<1>11. ASSUME NEW p \in Ends, Close(p) PROVE Calms'
  <2>1. /\ UNCHANGED <<streams, order, cursor, changes, carrier, misses, room>>
        /\ closed' = [closed EXCEPT ![p] = TRUE]
    BY <1>11 DEF Close
  <2>2. closed'[p] = TRUE /\ \A e \in Ends : e # p => closed'[e] = closed[e]
    BY <2>1 DEF Shapes
  <2>3. \A e \in Ends : e # p => (Quiet(e)' => Calm(e)')
    <3> SUFFICES ASSUME NEW e \in Ends, e # p PROVE Quiet(e)' => Calm(e)'
      OBVIOUS
    <3>1. \A j \in streams[e] : st'[e][j] = st[e][j]
      BY <1>11, CloseStreams DEF Shapes
    <3>2. Undisturbed(e)
      BY <2>1 DEF Undisturbed
    <3> QED BY <2>1, <2>2, <3>1, <3>2, CalmElsewhere
  <2>4. ~Quiet(p)'
    BY <2>2 DEF Quiet
  <2> QED BY <2>3, <2>4 DEF Calms
<1>12. CASE UNCHANGED vars
  BY <1>12 DEF vars, Calms, Calm, Quiet, Taking, Passed
<1> QED
  BY <1>1, <1>2, <1>3, <1>4, <1>5, <1>6, <1>8, <1>9, <1>10, <1>11, <1>12, NextCases

LEMMA DeliveryInit == ASSUME Init PROVE Orderly /\ Cancelled /\ Rooms /\ Calms
<1>1. /\ \A p \in Ends : streams[p] = {} /\ carrier[p] = "sleep" /\ misses[p] = 0 /\ room[p] = CellBudget
      /\ \A p \in Ends, i \in Ids : st[p][i] = NoStream
  BY DEF Init
<1>2. Ordered(NoStream) /\ Ending(NoStream)
  BY DEF Ordered, Ending, NoStream
<1>3. Orderly /\ Cancelled
  BY <1>1, <1>2 DEF Orderly, Cancelled
<1>4. Rooms
  BY <1>1, MuxAssumption DEF Rooms
<1>5. Calms
  BY <1>1 DEF Calms, Calm, Taking
<1> QED BY <1>3, <1>4, <1>5

\* The goroutine that fills the carrier's cells never sleeps, unwoken, on a
\* stream that pressure or take would serve: every step that gives a stream
\* something to send leaves the token in Peer.changes, and an empty take has
\* passed every stream since the goroutine last looked.
THEOREM CarrierNeverStalls == Spec => []NoStall
<1> DEFINE Inv == Shapes /\ Scheduling /\ Idle /\ Orderly /\ Cancelled /\ Rooms /\ Calms
<1>1. Init => Inv
  BY ShapesInit, CreditInit, DeliveryInit
<1>2. Inv /\ [Next]_vars => Inv'
  <2> SUFFICES ASSUME Inv, [Next]_vars PROVE Inv'
    OBVIOUS
  <2>1. Shapes' /\ Scheduling' /\ Idle'
    BY ShapesStep, SchedulingStep, IdleStep
  <2>2. Orderly' /\ Cancelled' /\ Rooms'
    BY OrderlyStep, CancelledStep, RoomsStep
  <2>3. Calms'
    BY <2>1, CalmsStep
  <2> QED BY <2>1, <2>2, <2>3
<1>3. Inv => NoStall
  BY DEF NoStall, Calms, Calm, Quiet
<1> QED BY <1>1, <1>2, <1>3, PTL DEF Spec
-----------------------------------------------------------------------------
(* Every byte read is in one place on its way to the other end, and FIN is  *)
(* the last frame of its stream.                                            *)

\* The end still takes, or will take, frames of the stream.
Listening(p, i) == i \in streams[p] \/ i > highest[p]

\* The reader has lost no chunk: it is at work, or its FIN is queued or sent.
FinQueued(s) ==
  (\E k \in 1..Len(s.output) : s.output[k].len = 0) \/ (s.pending # <<>> /\ s.pending[1].len = 0)
Whole(s) == s.reader # "done" \/ s.localFinSent \/ FinQueued(s)

Arrived(p, i) == st[p][i].input + st[p][i].writing + put[p][i]
Pipe ==
  \A p \in Ends, i \in Ids : Listening(Other(p), i) /\ Whole(st[p][i]) =>
    got[p][i] = QueuedBytes(st[p][i]) + Carried(wire[p], "DATA", i) + Arrived(Other(p), i)

Bearing(f, i) == f.kind \in {"DATA", "FIN"} /\ f.stream = i
Fin(f, i) == f.kind = "FIN" /\ f.stream = i
FinLast ==
  \A p \in Ends, i \in Ids : \A j \in 1..Len(wire[p]) : Fin(wire[p][j], i) =>
    /\ st[p][i].localFinSent
    /\ \A k \in 1..Len(wire[p]) : Bearing(wire[p][k], i) => k <= j
FinGot ==
  \A p \in Ends, i \in Ids : st[Other(p)][i].remoteFin =>
    /\ st[p][i].localFinSent
    /\ \A k \in 1..Len(wire[p]) : ~Bearing(wire[p][k], i)
    /\ got[p][i] = Arrived(Other(p), i)

\* A step that moves bytes only within the end, as a sender and a receiver.
SendSide(p, i) ==
  LET s == st[p][i]
      t == st'[p][i] IN
  /\ Whole(t) => Whole(s) /\ QueuedBytes(t) + got[p][i] = QueuedBytes(s) + got'[p][i]
  /\ t.localFinSent = s.localFinSent /\ (s.localFinSent => got'[p][i] = got[p][i])
ReceiveSide(p, i) == Arrived(p, i)' = Arrived(p, i) /\ st'[p][i].remoteFin = st[p][i].remoteFin
Sides(p, i) == SendSide(p, i) /\ ReceiveSide(p, i)

LEMMA SideTypes ==
  ASSUME Shapes, NEW p \in Ends, NEW i \in Ids
  PROVE  /\ QueuedBytes(st[p][i]) \in Nat /\ Arrived(p, i) \in Nat /\ got[p][i] \in Nat
         /\ Carried(wire[p], "DATA", i) \in Nat
<1>1. QueuedBytes(st[p][i]) \in Nat
  BY OneStream, PulledBytes
<1>2. st[p][i].input \in Nat /\ st[p][i].writing \in Nat
  BY OneStream, Amounts
<1>3. put[p][i] \in Nat /\ got[p][i] \in Nat /\ wire[p] \in Seq(Frames)
  BY DEF Shapes
<1>4. Carried(wire[p], "DATA", i) \in Nat
  BY <1>3, CarriedIsNat
<1>5. Arrived(p, i) \in Nat
  <2> DEFINE x == st[p][i].input
             y == st[p][i].writing
             z == put[p][i]
  <2>1. x \in Nat /\ y \in Nat /\ z \in Nat /\ Arrived(p, i) = x + y + z
    BY <1>2, <1>3 DEF Arrived
  <2> HIDE DEF x, y, z
  <2> QED BY <2>1
<1> QED BY <1>1, <1>3, <1>4, <1>5

LEMMA SideTypesNext ==
  ASSUME Shapes', NEW p \in Ends, NEW i \in Ids
  PROVE  /\ QueuedBytes(st'[p][i]) \in Nat /\ Arrived(p, i)' \in Nat /\ got'[p][i] \in Nat
         /\ Carried(wire'[p], "DATA", i) \in Nat
<1>1. st'[p][i] \in StreamRecords
  BY DEF Shapes, StreamTables
<1>2. st'[p][i].input \in Nat /\ st'[p][i].writing \in Nat /\ QueuedBytes(st'[p][i]) \in Nat
  BY <1>1, Amounts, PulledBytes
<1>3. put'[p][i] \in Nat /\ got'[p][i] \in Nat /\ wire'[p] \in Seq(Frames)
  BY DEF Shapes
<1>4. Carried(wire'[p], "DATA", i) \in Nat
  BY <1>3, CarriedIsNat
<1>5. Arrived(p, i)' \in Nat
  <2> DEFINE x == st'[p][i].input
             y == st'[p][i].writing
             z == put'[p][i]
  <2>1. x \in Nat /\ y \in Nat /\ z \in Nat /\ Arrived(p, i)' = x + y + z
    BY <1>2, <1>3 DEF Arrived
  <2> HIDE DEF x, y, z
  <2> QED BY <2>1
<1> QED BY <1>2, <1>3, <1>4, <1>5

LEMMA PipeKept ==
  ASSUME Shapes, Shapes', Pipe,
         \A p \in Ends, i \in Ids : Listening(Other(p), i)' /\ Whole(st'[p][i]) =>
           /\ Listening(Other(p), i) /\ Whole(st[p][i])
           /\ got'[p][i] + QueuedBytes(st[p][i]) + Carried(wire[p], "DATA", i) + Arrived(Other(p), i)
              = got[p][i] + QueuedBytes(st'[p][i]) + Carried(wire'[p], "DATA", i) + Arrived(Other(p), i)'
  PROVE  Pipe'
<1> SUFFICES ASSUME NEW p \in Ends, NEW i \in Ids, Listening(Other(p), i)', Whole(st'[p][i])
             PROVE  got'[p][i] = QueuedBytes(st'[p][i]) + Carried(wire'[p], "DATA", i) + Arrived(Other(p), i)'
  BY DEF Pipe
<1>0. Other(p) \in Ends
  BY EndsPair
<1> DEFINE g == got[p][i]
           x == QueuedBytes(st[p][i])
           y == Carried(wire[p], "DATA", i)
           z == Arrived(Other(p), i)
           gg == got'[p][i]
           xx == QueuedBytes(st'[p][i])
           yy == Carried(wire'[p], "DATA", i)
           zz == Arrived(Other(p), i)'
<1>1. /\ g \in Nat /\ x \in Nat /\ y \in Nat /\ z \in Nat
      /\ gg \in Nat /\ xx \in Nat /\ yy \in Nat /\ zz \in Nat
  BY <1>0, SideTypes, SideTypesNext
<1>2. g = x + y + z /\ gg + x + y + z = g + xx + yy + zz
  BY DEF Pipe
<1> HIDE DEF g, x, y, z, gg, xx, yy, zz
<1>3. gg = xx + yy + zz
  BY ONLY <1>1, <1>2
<1> QED BY <1>3 DEF gg, xx, yy, zz

LEMMA SidesPipe ==
  ASSUME Shapes, Shapes', Pipe, \A p \in Ends, i \in Ids : Sides(p, i),
         \A p \in Ends, i \in Ids : Listening(Other(p), i)' =>
           Listening(Other(p), i) /\ Carried(wire'[p], "DATA", i) = Carried(wire[p], "DATA", i)
  PROVE  Pipe'
<1> SUFFICES ASSUME NEW p \in Ends, NEW i \in Ids, Listening(Other(p), i)', Whole(st'[p][i])
    PROVE  /\ Listening(Other(p), i) /\ Whole(st[p][i])
           /\ got'[p][i] + QueuedBytes(st[p][i]) + Carried(wire[p], "DATA", i) + Arrived(Other(p), i)
              = got[p][i] + QueuedBytes(st'[p][i]) + Carried(wire'[p], "DATA", i) + Arrived(Other(p), i)'
  BY PipeKept
<1>0. Other(p) \in Ends
  BY EndsPair
<1>1. /\ Whole(st[p][i])
      /\ QueuedBytes(st'[p][i]) + got[p][i] = QueuedBytes(st[p][i]) + got'[p][i]
      /\ Arrived(Other(p), i)' = Arrived(Other(p), i)
  BY <1>0 DEF Sides, SendSide, ReceiveSide
<1>2. Listening(Other(p), i) /\ Carried(wire'[p], "DATA", i) = Carried(wire[p], "DATA", i)
  OBVIOUS
<1> DEFINE g == got[p][i]
           x == QueuedBytes(st[p][i])
           y == Carried(wire[p], "DATA", i)
           z == Arrived(Other(p), i)
           gg == got'[p][i]
           xx == QueuedBytes(st'[p][i])
<1>3. g \in Nat /\ x \in Nat /\ y \in Nat /\ z \in Nat /\ gg \in Nat /\ xx \in Nat /\ xx + g = x + gg
  BY <1>0, <1>1, SideTypes, SideTypesNext
<1> HIDE DEF g, x, y, z, gg, xx
<1>4. gg + x + y + z = g + xx + y + z
  BY ONLY <1>3
<1> QED BY <1>1, <1>2, <1>4 DEF g, x, y, z, gg, xx

\* The frames on the wire of p are frames that were there before.
Drains(p) ==
  \E n \in Nat : \A k \in 1..Len(wire'[p]) : k + n \in 1..Len(wire[p]) /\ wire'[p][k] = wire[p][k + n]

LEMMA FinLastDrains ==
  ASSUME Shapes, Shapes', FinLast, NEW p \in Ends, Drains(p), NEW i \in Ids,
         st[p][i].localFinSent => st'[p][i].localFinSent,
         NEW j \in 1..Len(wire'[p]), Fin(wire'[p][j], i)
  PROVE  /\ st'[p][i].localFinSent
         /\ \A k \in 1..Len(wire'[p]) : Bearing(wire'[p][k], i) => k <= j
<1>1. PICK n \in Nat : \A k \in 1..Len(wire'[p]) : k + n \in 1..Len(wire[p]) /\ wire'[p][k] = wire[p][k + n]
  BY DEF Drains
<1>2. st[p][i].localFinSent /\ \A k \in 1..Len(wire[p]) : Bearing(wire[p][k], i) => k <= j + n
  BY <1>1 DEF FinLast
<1>3. ASSUME NEW k \in 1..Len(wire'[p]), Bearing(wire'[p][k], i) PROVE k <= j
  <2>1. k + n <= j + n
    BY <1>1, <1>2, <1>3
  <2>2. wire'[p] \in Seq(Frames)
    BY DEF Shapes
  <2> QED BY <2>1, <2>2
<1> QED BY <1>2, <1>3

LEMMA FinGotDrains ==
  ASSUME FinGot, NEW p \in Ends, Drains(p), NEW i \in Ids,
         SendSide(p, i), ReceiveSide(Other(p), i), st'[Other(p)][i].remoteFin
  PROVE  /\ st'[p][i].localFinSent
         /\ \A k \in 1..Len(wire'[p]) : ~Bearing(wire'[p][k], i)
         /\ got'[p][i] = Arrived(Other(p), i)'
<1>1. /\ st[p][i].localFinSent
      /\ \A k \in 1..Len(wire[p]) : ~Bearing(wire[p][k], i)
      /\ got[p][i] = Arrived(Other(p), i)
  BY DEF FinGot, ReceiveSide
<1>2. st'[p][i].localFinSent /\ got'[p][i] = got[p][i] /\ Arrived(Other(p), i)' = Arrived(Other(p), i)
  BY <1>1 DEF SendSide, ReceiveSide
<1>3. \A k \in 1..Len(wire'[p]) : ~Bearing(wire'[p][k], i)
  BY <1>1 DEF Drains
<1> QED BY <1>1, <1>2, <1>3

LEMMA SidesFin ==
  ASSUME Shapes, Shapes', FinLast, FinGot, \A p \in Ends, i \in Ids : Sides(p, i),
         \A p \in Ends : Drains(p)
  PROVE  FinLast' /\ FinGot'
<1>1. FinLast'
  <2> SUFFICES ASSUME NEW p \in Ends, NEW i \in Ids, NEW j \in 1..Len(wire'[p]), Fin(wire'[p][j], i)
               PROVE  /\ st'[p][i].localFinSent
                      /\ \A k \in 1..Len(wire'[p]) : Bearing(wire'[p][k], i) => k <= j
    BY DEF FinLast, Fin, Bearing
  <2>1. st[p][i].localFinSent => st'[p][i].localFinSent
    BY DEF Sides, SendSide
  <2> QED BY <2>1, FinLastDrains
<1>2. FinGot'
  <2> SUFFICES ASSUME NEW p \in Ends, NEW i \in Ids, st'[Other(p)][i].remoteFin
               PROVE  /\ st'[p][i].localFinSent
                      /\ \A k \in 1..Len(wire'[p]) : ~Bearing(wire'[p][k], i)
                      /\ got'[p][i] = Arrived(Other(p), i)'
    BY DEF FinGot, Bearing
  <2>1. SendSide(p, i) /\ ReceiveSide(Other(p), i)
    BY EndsPair DEF Sides
  <2> QED BY <2>1, FinGotDrains
<1> QED BY <1>1, <1>2
-----------------------------------------------------------------------------
(* The steps of the local goroutines move bytes only within their end. *)

\* The histories of the other streams are left alone.
Elsewhere(p, i) ==
  \A e \in Ends, j \in Ids : e # p \/ j # i => got'[e][j] = got[e][j] /\ put'[e][j] = put[e][j]

LEMMA SameSend ==
  ASSUME NEW p, NEW i, SameOut(st[p][i], st'[p][i]), got' = got,
         st'[p][i].reader = st[p][i].reader \/ st[p][i].reader # "done"
  PROVE  SendSide(p, i)
<1>1. QueuedBytes(st'[p][i]) = QueuedBytes(st[p][i])
  BY DEF QueuedBytes, SameOut
<1>2. Whole(st'[p][i]) => Whole(st[p][i])
  BY DEF Whole, FinQueued, SameOut
<1> QED BY <1>1, <1>2 DEF SendSide, SameOut

LEMMA SameReceive ==
  ASSUME NEW p, NEW i, st'[p][i].input = st[p][i].input, st'[p][i].writing = st[p][i].writing,
         st'[p][i].remoteFin = st[p][i].remoteFin, put' = put
  PROVE  ReceiveSide(p, i)
  BY DEF ReceiveSide, Arrived

LEMMA SidesSame ==
  ASSUME NEW p, NEW i, st'[p][i] = st[p][i], got'[p][i] = got[p][i], put'[p][i] = put[p][i]
  PROVE  Sides(p, i)
  BY DEF Sides, SendSide, ReceiveSide, Arrived

LEMMA ReadDataSides ==
  ASSUME Shapes, NEW p \in Ends, NEW i \in Ids, Orderly, NEW n \in 1..StreamChunk, ReadData(p, i, n)
  PROVE  Sides(p, i) /\ Elsewhere(p, i)
<1> DEFINE s == st[p][i]
           t == st'[p][i]
<1>0. s \in StreamRecords /\ Ordered(s) /\ got \in [Ends -> [Ids -> Nat]]
  BY OneStream DEF Orderly, Shapes
<1>1. /\ s.reader = "reading" /\ s.hand = 0 /\ SameAmounts(s, t) /\ SameIn(s, t) /\ t.hand = n
      /\ t.output = s.output /\ t.pending = s.pending /\ t.localFinSent = s.localFinSent
  BY ReadDataStream
<1>2. got' = [got EXCEPT ![p][i] = @ + n] /\ put' = put
  BY DEF ReadData
<1>3. n \in Nat /\ StreamChunk \in Nat
  BY MuxAssumption
<1>4. /\ got'[p][i] = got[p][i] + n /\ got[p][i] \in Nat
      /\ \A e \in Ends, j \in Ids : e # p \/ j # i => got'[e][j] = got[e][j]
  BY <1>0, <1>2, <1>3, CountKeeps
<1>5. ReceiveSide(p, i)
  BY <1>1, <1>2, SameReceive DEF SameAmounts, SameIn
<1>6. s.output \in Seq(Chunks) /\ s.pending \in Seq(Chunks)
  BY <1>0, Amounts
<1>7. Bytes(s.output) \in Nat /\ Bytes(s.pending) \in Nat
  BY <1>6, BytesIsNat
<1> HIDE DEF s, t
<1> DEFINE g == got[p][i]
           x == Bytes(s.output)
           y == Bytes(s.pending)
<1>8. /\ x \in Nat /\ y \in Nat /\ g \in Nat /\ n \in Nat
      /\ QueuedBytes(t) = n + x + y /\ QueuedBytes(s) = 0 + x + y /\ got'[p][i] = g + n
  BY <1>1, <1>3, <1>4, <1>7 DEF QueuedBytes
<1> HIDE DEF x, y
<1>9. QueuedBytes(t) + g = QueuedBytes(s) + got'[p][i]
  BY <1>8
<1>10. Whole(s) /\ ~s.localFinSent
  BY <1>0, <1>1 DEF Whole, Ordered
<1>11. SendSide(p, i)
  BY <1>1, <1>9, <1>10 DEF SendSide, s, t
<1> QED BY <1>2, <1>4, <1>5, <1>11 DEF Sides, Elsewhere

LEMMA ReadQueueSides ==
  ASSUME Shapes, NEW p \in Ends, NEW i \in Ids, Orderly, ReadQueue(p, i) \/ ReadEOF(p, i)
  PROVE  Sides(p, i) /\ Elsewhere(p, i)
<1> DEFINE s == st[p][i]
           t == st'[p][i]
           x == [sequence |-> s.nextOut, len |-> s.hand]
<1>0. s \in StreamRecords /\ Ordered(s)
  BY OneStream DEF Orderly
<1>1. /\ s.reader = "reading" /\ SameAmounts(s, t) /\ SameIn(s, t) /\ t.hand = 0
      /\ t.output = Append(s.output, x) /\ t.pending = s.pending /\ t.localFinSent = s.localFinSent
  <2>1. CASE ReadQueue(p, i)
    BY <2>1, ReadQueueStream
  <2>2. CASE ReadEOF(p, i)
    <3>1. /\ s.reader = "reading" /\ SameAmounts(s, t) /\ SameIn(s, t) /\ t.hand = 0 /\ s.hand = 0
          /\ t.output = Append(s.output, [sequence |-> s.nextOut, len |-> 0])
          /\ t.pending = s.pending /\ t.localFinSent = s.localFinSent
      BY <2>2, ReadEOFStream
    <3>2. x = [sequence |-> s.nextOut, len |-> 0]
      BY <3>1
    <3> HIDE DEF x, s, t
    <3> QED BY <3>1, <3>2
  <2> QED BY <2>1, <2>2
<1>2. got' = got /\ put' = put
  BY DEF ReadQueue, ReadEOF
<1>3. x \in Chunks /\ x.len = s.hand /\ s.hand \in Nat
  BY <1>0, Amounts DEF Chunks
<1>4. ReceiveSide(p, i)
  BY <1>1, <1>2, SameReceive DEF SameAmounts, SameIn
<1>5. s.output \in Seq(Chunks) /\ s.pending \in Seq(Chunks)
  BY <1>0, Amounts
<1>6. Bytes(s.output) \in Nat /\ Bytes(s.pending) \in Nat
  BY <1>5, BytesIsNat
<1> HIDE DEF s, t, x
<1>7. Bytes(t.output) = Bytes(s.output) + s.hand
  BY <1>1, <1>3, <1>5, BytesAppend
<1>8. QueuedBytes(t) = QueuedBytes(s)
  BY <1>1, <1>3, <1>6, <1>7 DEF QueuedBytes
<1>9. Whole(s)
  BY <1>1 DEF Whole
<1>10. SendSide(p, i)
  BY <1>1, <1>2, <1>8, <1>9 DEF SendSide, s, t
<1> QED BY <1>2, <1>4, <1>10 DEF Sides, Elsewhere

\* The chunk in the hand of a cancelled reader is lost, and no FIN follows.
LEMMA ReadDropSides ==
  ASSUME Shapes, NEW p \in Ends, NEW i \in Ids, Orderly, ReadDrop(p, i)
  PROVE  Sides(p, i) /\ Elsewhere(p, i)
<1> DEFINE s == st[p][i]
           t == st'[p][i]
<1>0. Ordered(s)
  BY DEF Orderly
<1>1. /\ s.reader = "reading" /\ SameAmounts(s, t) /\ SameIn(s, t) /\ t.reader = "done"
      /\ t.output = s.output /\ t.pending = s.pending /\ t.localFinSent = s.localFinSent
  BY ReadDropStream
<1>2. got' = got /\ put' = put
  BY DEF ReadDrop
<1>3. ReceiveSide(p, i)
  BY <1>1, <1>2, SameReceive DEF SameAmounts, SameIn
<1> HIDE DEF s, t
<1>4. ~Whole(t)
  BY <1>0, <1>1 DEF Whole, FinQueued, Ordered
<1>5. SendSide(p, i)
  BY <1>1, <1>2, <1>4 DEF SendSide, s, t
<1> QED BY <1>2, <1>3, <1>5 DEF Sides, Elsewhere

LEMMA WriteSides ==
  ASSUME Shapes, Idle, NEW p \in Ends, NEW i \in Ids, WritePop(p, i) \/ WriteDone(p, i)
  PROVE  Sides(p, i) /\ Elsewhere(p, i)
<1> DEFINE s == st[p][i]
           t == st'[p][i]
<1>0. /\ s \in StreamRecords /\ s.input \in Nat /\ s.writing \in Nat
      /\ s.writer \in {"none", "idle", "wait", "fin"} => s.writing = 0
  BY OneStream, Amounts DEF Idle
<1>1. SameOut(s, t) /\ SameReader(s, t) /\ t.remoteFin = s.remoteFin
  BY WritePopStream, WriteDoneStream, ZenonT(60) DEF SameIn
<1>2. got' = got
  BY DEF WritePop, WriteDone
<1>3. SendSide(p, i)
  BY <1>1, <1>2, SameSend DEF SameReader
<1>4. put \in [Ends -> [Ids -> Nat]] /\ put[p][i] \in Nat
  BY DEF Shapes
<1>5. CASE WritePop(p, i)
  <2>1. /\ s.writer \in {"idle", "wait"}
        /\ \/ t.input = s.input /\ t.writing = s.writing
           \/ \E n \in 1..s.input : t.writing = n /\ t.input = s.input - n
           \/ t.input = 0 /\ s.input = 0 /\ t.writing = s.writing
    BY <1>5, WritePopStream
  <2>2. put' = put
    BY <1>5 DEF WritePop
  <2> HIDE DEF s, t
  <2>3. t.input + t.writing = s.input + s.writing
    BY <1>0, <2>1
  <2>4. Arrived(p, i)' = Arrived(p, i)
    BY <2>2, <2>3 DEF Arrived, s, t
  <2> QED BY <1>1, <1>2, <1>3, <2>2, <2>4 DEF Sides, ReceiveSide, Elsewhere, s, t
<1>6. CASE WriteDone(p, i)
  <2>1. t.input = s.input /\ t.writing = 0
    BY <1>6, WriteDoneStream
  <2>2. put' = [put EXCEPT ![p][i] = @ + s.writing]
    BY <1>6 DEF WriteDone
  <2> HIDE DEF s, t
  <2>3. /\ put'[p][i] = put[p][i] + s.writing
        /\ \A e \in Ends, j \in Ids : e # p \/ j # i => put'[e][j] = put[e][j]
    BY <1>0, <1>4, <2>2, CountKeeps
  <2> DEFINE x == s.input
             y == s.writing
             z == put[p][i]
             zz == put'[p][i]
  <2>4. x \in Nat /\ y \in Nat /\ z \in Nat /\ zz = z + y
    BY <1>0, <1>4, <2>3
  <2>5. Arrived(p, i)' = x + 0 + zz /\ Arrived(p, i) = x + y + z
    BY <2>1 DEF Arrived, s, t
  <2> HIDE DEF x, y, z, zz
  <2>6. Arrived(p, i)' = Arrived(p, i)
    BY <2>4, <2>5
  <2> QED BY <1>1, <1>2, <1>3, <2>3, <2>6 DEF Sides, ReceiveSide, Elsewhere, s, t
<1> QED BY <1>5, <1>6

LEMMA OtherSides ==
  ASSUME Shapes, NEW p \in Ends, NEW i \in Ids, Idle,
         \/ p = "server" /\ \E ok \in BOOLEAN : Dialed(i, ok)
         \/ ReadError(p, i) \/ WriteFin(p, i) \/ WriteError(p, i)
  PROVE  Sides(p, i) /\ Elsewhere(p, i)
<1> DEFINE s == st[p][i]
           t == st'[p][i]
           Goal == SameOut(s, t) /\ SameAmounts(s, t) /\ t.remoteFin = s.remoteFin
                   /\ (t.reader = s.reader \/ s.reader # "done") /\ got' = got /\ put' = put
<1>1. ASSUME p = "server", NEW ok \in BOOLEAN, Dialed(i, ok) PROVE Goal
  <2>1. /\ s.conn = "dialing" /\ SameAmounts(s, t) /\ SameOut(s, t) /\ SameIn(s, t)
    BY <1>1, DialedStream
  <2>2. s.reader # "done"
    BY <2>1 DEF Idle
  <2>3. got' = got /\ put' = put
    BY <1>1 DEF Dialed
  <2> QED BY <2>1, <2>2, <2>3 DEF SameIn
<1>2. ASSUME ReadError(p, i) PROVE Goal
  <2>1. s.reader = "reading" /\ SameAmounts(s, t) /\ SameOut(s, t) /\ SameIn(s, t)
    BY <1>2, ReadErrorStream
  <2>2. got' = got /\ put' = put
    BY <1>2 DEF ReadError
  <2> QED BY <2>1, <2>2 DEF SameIn
<1>3. ASSUME WriteFin(p, i) PROVE Goal
  <2>1. SameReader(s, t) /\ SameAmounts(s, t) /\ SameOut(s, t) /\ t.remoteFin = s.remoteFin
    BY <1>3, WriteFinStream
  <2>2. got' = got /\ put' = put
    BY <1>3, Zenon DEF WriteFin
  <2> QED BY <2>1, <2>2 DEF SameReader
<1>4. ASSUME WriteError(p, i) PROVE Goal
  <2>1. SameReader(s, t) /\ SameAmounts(s, t) /\ SameOut(s, t) /\ SameIn(s, t)
    BY <1>4, WriteErrorStream
  <2>2. got' = got /\ put' = put
    BY <1>4 DEF WriteError
  <2> QED BY <2>1, <2>2 DEF SameIn, SameReader
<1>5. Goal
  BY <1>1, <1>2, <1>3, <1>4
<1>6. SendSide(p, i)
  BY <1>5, SameSend
<1>7. ReceiveSide(p, i)
  BY <1>5, SameReceive DEF SameAmounts
<1> QED BY <1>5, <1>6, <1>7 DEF Sides, Elsewhere

LEMMA LocalSides ==
  ASSUME Shapes, Idle, Orderly, NEW p \in Ends, NEW i \in Ids, LocalAction(p, i) \/ WriteFin(p, i)
  PROVE  \A e \in Ends, j \in Ids : Sides(e, j)
<1>1. Sides(p, i) /\ Elsewhere(p, i)
  BY ReadDataSides, ReadQueueSides, ReadDropSides, WriteSides, OtherSides DEF LocalAction
<1>2. Moved(p, i)
  BY LocalActionIsLocal, WriteFinStream DEF LocalStep
<1> TAKE e \in Ends, j \in Ids
<1>3. CASE e # p \/ j # i
  BY <1>1, <1>2, <1>3, SidesSame DEF Moved, Elsewhere
<1> QED BY <1>1, <1>3
-----------------------------------------------------------------------------
(* The steps that open, receive and take. *)

LEMMA DrainsKept ==
  ASSUME NEW p, wire[p] \in Seq(Frames), wire'[p] = wire[p]
  PROVE  Drains(p)
<1>1. 0 \in Nat /\ \A k \in 1..Len(wire'[p]) : k + 0 \in 1..Len(wire[p]) /\ wire'[p][k] = wire[p][k + 0]
  OBVIOUS
<1> QED BY <1>1 DEF Drains

LEMMA DrainsConsumed ==
  ASSUME Shapes, NEW e \in Ends, Consumed(e)
  PROVE  \A p \in Ends : Drains(p)
<1>1. Other(e) \in Ends /\ \A p \in Ends : p = e \/ p = Other(e)
  BY EndsPair
<1>2. wire[e] \in Seq(Frames) /\ wire[Other(e)] \in Seq(Frames) /\ wire'[e] = wire[e]
      /\ wire'[Other(e)] = Tail(wire[Other(e)]) /\ wire[Other(e)] # <<>>
  BY <1>1 DEF Shapes, Consumed
<1>3. Drains(e)
  BY <1>2, DrainsKept
<1>4. Drains(Other(e))
  <2> DEFINE w == wire[Other(e)]
             v == wire'[Other(e)]
  <2>1. Len(w) \in Nat \ {0} /\ Len(v) = Len(w) - 1 /\ \A k \in 1..Len(w) - 1 : v[k] = w[k + 1]
    BY <1>2, HeadItem
  <2> HIDE DEF w, v
  <2>2. 1 \in Nat /\ \A k \in 1..Len(v) : k + 1 \in 1..Len(w) /\ v[k] = w[k + 1]
    BY <2>1
  <2> QED BY <2>2 DEF Drains, w, v
<1> QED BY <1>1, <1>3, <1>4

LEMMA NewSides ==
  ASSUME Shapes, Fresh, NEW p \in Ends, NEW i \in Ids, i > highest[p], Moved(p, i),
         SameOut(NoStream, st'[p][i]), SameIn(NoStream, st'[p][i]),
         st'[p][i].input = 0, st'[p][i].writing = 0, got' = got, put' = put
  PROVE  \A e \in Ends, j \in Ids : Sides(e, j)
<1>1. st[p][i] = NoStream
  BY DEF Fresh
<1>2. NoStream.reader = "none" /\ NoStream.input = 0 /\ NoStream.writing = 0
  BY DEF NoStream
<1>3. SendSide(p, i)
  <2>1. st[p][i].reader # "done" /\ SameOut(st[p][i], st'[p][i])
    BY <1>1, <1>2
  <2> QED BY <2>1, SameSend
<1>4. ReceiveSide(p, i)
  <2>1. /\ st[p][i].input = 0 /\ st[p][i].writing = 0
        /\ st'[p][i].remoteFin = st[p][i].remoteFin
    BY <1>1, <1>2 DEF SameIn
  <2> QED BY <2>1, SameReceive
<1> TAKE e \in Ends, j \in Ids
<1>5. CASE e # p \/ j # i
  BY <1>5, SidesSame DEF Moved
<1> QED BY <1>3, <1>4, <1>5 DEF Sides

LEMMA NewListening ==
  ASSUME Shapes, NEW p \in Ends, NEW i \in Ids, i > highest[p],
         streams' = [streams EXCEPT ![p] = @ \cup {i}], highest' = [highest EXCEPT ![p] = i]
  PROVE  \A e \in Ends, j \in Ids : Listening(e, j)' => Listening(e, j)
<1> TAKE e \in Ends, j \in Ids
<1>1. highest[e] \in Nat /\ highest[p] \in Nat /\ j \in Nat /\ i \in Nat
  BY HighestIsNat, IdIsNat
<1>2. CASE e = p
  <2>1. streams'[e] = streams[e] \cup {i} /\ highest'[e] = i
    BY <1>2 DEF Shapes
  <2> QED BY <1>1, <1>2, <2>1 DEF Listening
<1>3. CASE e # p
  <2>1. streams'[e] = streams[e] /\ highest'[e] = highest[e]
    BY <1>3 DEF Shapes
  <2> QED BY <2>1 DEF Listening
<1> QED BY <1>2, <1>3

LEMMA SameListening ==
  ASSUME highest' = highest, \A e \in Ends : streams'[e] \subseteq streams[e]
  PROVE  \A e \in Ends, j \in Ids : Listening(e, j)' => Listening(e, j)
  BY DEF Listening

\* A step that moves bytes within the ends and leaves the wires alone.
LEMMA SidesStep ==
  ASSUME Shapes, Shapes', Pipe, FinLast, FinGot, \A p \in Ends, i \in Ids : Sides(p, i), wire' = wire,
         \A e \in Ends, j \in Ids : Listening(e, j)' => Listening(e, j)
  PROVE  Pipe' /\ FinLast' /\ FinGot'
<1>1. \A p \in Ends : Drains(p)
  BY DrainsKept DEF Shapes
<1>2. FinLast' /\ FinGot'
  BY <1>1, SidesFin
<1>3. \A p \in Ends, i \in Ids : Listening(Other(p), i)' =>
        Listening(Other(p), i) /\ Carried(wire'[p], "DATA", i) = Carried(wire[p], "DATA", i)
  BY EndsPair
<1>4. Pipe'
  BY <1>3, SidesPipe
<1> QED BY <1>2, <1>4

LEMMA AcceptStep ==
  ASSUME Shapes, Shapes', Fresh, Pipe, FinLast, FinGot, NEW e \in Ends, ReceiveOpen(e)
  PROVE  Pipe' /\ FinLast' /\ FinGot'
<1> DEFINE f == Head(wire["client"])
<1>0. "client" \in Ends /\ "server" \in Ends /\ Other("server") = "client" /\ Other("client") = "server"
  BY DEF Ends, Other
<1>1. PICK i \in Ids : i = f.stream
  BY ReceiveOpenStream
<1>2. /\ e = "server" /\ Consumed("server") /\ f.kind = "OPEN" /\ i > highest["server"]
      /\ Moved("server", i) /\ SameOut(NoStream, st'["server"][i]) /\ SameIn(NoStream, st'["server"][i])
      /\ st'["server"][i].input = 0 /\ st'["server"][i].writing = 0
  BY <1>1, ReceiveOpenStream
<1>3. /\ got' = got /\ put' = put /\ streams' = [streams EXCEPT !["server"] = @ \cup {i}]
      /\ highest' = [highest EXCEPT !["server"] = i]
  BY <1>0, <1>1, <1>2 DEF ReceiveOpen, AddStream
<1>4. \A p \in Ends, j \in Ids : Sides(p, j)
  BY <1>0, <1>2, <1>3, NewSides
<1>5. \A p \in Ends, j \in Ids : Listening(p, j)' => Listening(p, j)
  BY <1>0, <1>2, <1>3, NewListening
<1>6. FinLast' /\ FinGot'
  BY <1>0, <1>2, <1>4, DrainsConsumed, SidesFin
<1>7. \A p \in Ends, j \in Ids : Carried(wire'[p], "DATA", j) = Carried(wire[p], "DATA", j)
  <2> TAKE p \in Ends, j \in Ids
  <2>1. CASE p = "server"
    BY <1>2, <2>1 DEF Consumed
  <2>2. CASE p = "client"
    <3>1. /\ Carried(wire["client"], "DATA", j) = Weight(f, "DATA", j) + Carried(wire'["client"], "DATA", j)
          /\ Carried(wire'["client"], "DATA", j) \in Nat
      BY <1>0, <1>2, ConsumedCarried
    <3>2. Weight(f, "DATA", j) = 0
      BY <1>2 DEF Weight
    <3> QED BY <2>2, <3>1, <3>2
  <2> QED BY <2>1, <2>2 DEF Ends
<1>8. Pipe'
  BY <1>4, <1>5, <1>7, EndsPair, SidesPipe
<1> QED BY <1>6, <1>8

LEMMA SkipStep ==
  ASSUME Shapes, Shapes', Pipe, FinLast, FinGot, NEW e \in Ends, ReceiveRetired(e)
  PROVE  Pipe' /\ FinLast' /\ FinGot'
<1> DEFINE q == Other(e)
           f == Head(wire[q])
<1>0. q \in Ends /\ Other(q) = e /\ \A p \in Ends : p = e \/ p = q
  BY EndsPair
<1>1. /\ Arriving(e) /\ Consume(e) /\ f.stream \notin streams[e] /\ f.stream <= highest[e]
      /\ UNCHANGED <<streams, st, highest, got, put>>
  BY DEF ReceiveRetired, pvars
<1>2. Consumed(e)
  BY <1>1, ConsumeForm
<1>3. \A p \in Ends, j \in Ids : Sides(p, j)
  BY <1>1, SidesSame
<1>4. FinLast' /\ FinGot'
  BY <1>2, <1>3, DrainsConsumed, SidesFin
<1>5. ASSUME NEW p \in Ends, NEW j \in Ids, Listening(Other(p), j)'
      PROVE  Listening(Other(p), j) /\ Carried(wire'[p], "DATA", j) = Carried(wire[p], "DATA", j)
  <2>1. Listening(Other(p), j)
    BY <1>1, <1>5 DEF Listening
  <2>2. CASE p = e
    BY <1>2, <2>1, <2>2 DEF Consumed
  <2>3. CASE p = q
    <3>1. j # f.stream
      <4>1. highest[e] \in Nat /\ j \in Nat
        BY HighestIsNat, IdIsNat
      <4> QED BY <1>0, <1>1, <2>1, <2>3, <4>1 DEF Listening
    <3>2. /\ Carried(wire[q], "DATA", j) = Weight(f, "DATA", j) + Carried(wire'[q], "DATA", j)
          /\ Carried(wire'[q], "DATA", j) \in Nat
      BY <1>2, ConsumedCarried
    <3>3. Weight(f, "DATA", j) = 0
      BY <3>1 DEF Weight
    <3> HIDE DEF q, f
    <3> QED BY <2>1, <2>3, <3>2, <3>3
  <2> QED BY <1>0, <2>2, <2>3
<1>6. Pipe'
  BY <1>3, <1>5, SidesPipe
<1> QED BY <1>4, <1>6
LEMMA FrameSides ==
  ASSUME Shapes, NEW e \in Ends, ReceiveFrame(e), NEW j \in Ids, j = Head(wire[Other(e)]).stream
  PROVE  /\ \A p \in Ends, i \in Ids : SendSide(p, i)
         /\ \A p \in Ends, i \in Ids : p # e \/ i # j => ReceiveSide(p, i)
         /\ got' = got /\ put' = put
<1>1. Moved(e, j) /\ Gets(e, st[e][j], st'[e][j], Head(wire[Other(e)]))
  BY ReceiveFrameStream
<1>2. got' = got /\ put' = put
  BY Zenon DEF ReceiveFrame
<1>3. SameOut(st[e][j], st'[e][j]) /\ SameReader(st[e][j], st'[e][j])
  BY <1>1 DEF Gets
<1>4. SendSide(e, j)
  BY <1>2, <1>3, SameSend DEF SameReader
<1>5. \A p \in Ends, i \in Ids : p # e \/ i # j => Sides(p, i)
  BY <1>1, <1>2, SidesSame DEF Moved
<1> QED BY <1>2, <1>4, <1>5 DEF Sides

LEMMA FramePipe ==
  ASSUME Shapes, Shapes', Pipe, NEW e \in Ends, ReceiveFrame(e)
  PROVE  Pipe'
<1>1. PICK j \in Ids : j = Head(wire[Other(e)]).stream
  BY ReceiveFrameStream
<1>2. /\ \A p \in Ends, i \in Ids : SendSide(p, i)
      /\ \A p \in Ends, i \in Ids : p # e \/ i # j => ReceiveSide(p, i)
      /\ got' = got /\ put' = put
  BY <1>1, FrameSides
<1>3. FrameFlows(e, j, st[e][j], st'[e][j])
  BY <1>1, FrameFlow
<1>4. Consumed(e) /\ (RemoveStream(e, j, cursor[e]) \/ UNCHANGED <<streams, order, cursor>>)
  BY <1>1, ReceiveFrameStream
<1>5. highest' = highest
  BY Zenon DEF ReceiveFrame
<1>6. \A p \in Ends, i \in Ids : Listening(p, i)' => Listening(p, i)
  BY <1>4, <1>5, StreamsShrink, SameListening
<1> SUFFICES ASSUME NEW p \in Ends, NEW i \in Ids, Listening(Other(p), i)', Whole(st'[p][i])
    PROVE  /\ Listening(Other(p), i) /\ Whole(st[p][i])
           /\ got'[p][i] + QueuedBytes(st[p][i]) + Carried(wire[p], "DATA", i) + Arrived(Other(p), i)
              = got[p][i] + QueuedBytes(st'[p][i]) + Carried(wire'[p], "DATA", i) + Arrived(Other(p), i)'
  BY PipeKept
<1>7. Other(p) \in Ends /\ Other(p) # p /\ Other(Other(p)) = p /\ (e = p \/ e = Other(p))
  BY EndsPair
<1> DEFINE g == got[p][i]
           x == QueuedBytes(st[p][i])
           y == Carried(wire[p], "DATA", i)
           z == Arrived(Other(p), i)
           xx == QueuedBytes(st'[p][i])
           yy == Carried(wire'[p], "DATA", i)
           zz == Arrived(Other(p), i)'
<1>8. Whole(st[p][i]) /\ xx + g = x + g /\ got'[p][i] = g
  BY <1>2 DEF SendSide
<1>9. /\ g \in Nat /\ x \in Nat /\ y \in Nat /\ z \in Nat /\ xx \in Nat /\ yy \in Nat /\ zz \in Nat
  BY <1>7, SideTypes, SideTypesNext
<1>10. yy + zz = y + z
  <2>1. CASE e = p
    <3>1. yy = y
      BY <1>4, <2>1 DEF Consumed
    <3>2. zz = z
      BY <1>2, <1>7, <2>1 DEF ReceiveSide
    <3> QED BY <3>1, <3>2
  <2>2. CASE e = Other(p) /\ i # j
    <3>1. yy = y
      BY <1>3, <1>7, <2>2 DEF FrameFlows
    <3>2. zz = z
      BY <1>2, <1>7, <2>2 DEF ReceiveSide
    <3> QED BY <3>1, <3>2
  <2>3. CASE e = Other(p) /\ i = j
    <3> DEFINE a == st[e][j].input
               aa == st'[e][j].input
               b == st[e][j].writing
               c == put[e][j]
    <3>1. aa + yy = a + y /\ st'[e][j].writing = b
      BY <1>3, <1>7, <2>3 DEF FrameFlows
    <3>2. z = a + b + c /\ zz = aa + b + c
      BY <1>2, <2>3, <3>1 DEF Arrived
    <3>3. a \in Nat /\ aa \in Nat /\ b \in Nat /\ c \in Nat
      <4>1. st[e][j] \in StreamRecords /\ st'[e][j] \in StreamRecords
        BY OneStream DEF Shapes, StreamTables
      <4> QED BY <4>1, Amounts DEF Shapes
    <3> HIDE DEF a, aa, b, c, y, yy, z, zz
    <3> QED BY ONLY <1>9, <3>1, <3>2, <3>3
  <2> QED BY <1>7, <2>1, <2>2, <2>3
<1> HIDE DEF g, x, y, z, xx, yy, zz
<1>11. g + x + y + z = g + xx + yy + zz
  BY ONLY <1>8, <1>9, <1>10
<1> QED BY <1>6, <1>7, <1>8, <1>11 DEF g, x, y, z, xx, yy, zz

LEMMA FrameFin ==
  ASSUME Shapes, Shapes', Orderly, Pipe, FinLast, FinGot, NEW e \in Ends, ReceiveFrame(e)
  PROVE  FinLast' /\ FinGot'
<1> DEFINE q == Other(e)
           f == Head(wire[q])
<1>0. q \in Ends /\ q # e /\ Other(q) = e
  BY EndsPair
<1>1. PICK j \in Ids : j = f.stream
  BY ReceiveFrameStream
<1>2. /\ \A p \in Ends, i \in Ids : SendSide(p, i)
      /\ \A p \in Ends, i \in Ids : p # e \/ i # j => ReceiveSide(p, i)
      /\ got' = got /\ put' = put
  BY <1>1, FrameSides
<1>3. Consumed(e) /\ j \in streams[e] /\ Gets(e, st[e][j], st'[e][j], f)
  BY <1>1, ReceiveFrameStream
<1>4. \A p \in Ends : Drains(p)
  BY <1>3, DrainsConsumed
<1>5. FinLast'
  <2> SUFFICES ASSUME NEW p \in Ends, NEW i \in Ids, NEW k \in 1..Len(wire'[p]), Fin(wire'[p][k], i)
               PROVE  /\ st'[p][i].localFinSent
                      /\ \A l \in 1..Len(wire'[p]) : Bearing(wire'[p][l], i) => l <= k
    BY DEF FinLast, Fin, Bearing
  <2>1. st[p][i].localFinSent => st'[p][i].localFinSent
    BY <1>2 DEF SendSide
  <2> QED BY <1>4, <2>1, FinLastDrains
<1>6. ASSUME NEW p \in Ends, NEW i \in Ids, st'[Other(p)][i].remoteFin, ReceiveSide(Other(p), i)
      PROVE  /\ st'[p][i].localFinSent
             /\ \A k \in 1..Len(wire'[p]) : ~Bearing(wire'[p][k], i)
             /\ got'[p][i] = Arrived(Other(p), i)'
  BY <1>2, <1>4, <1>6, FinGotDrains
<1>7. ASSUME st'[e][j].remoteFin, ~ReceiveSide(e, j)
      PROVE  /\ st'[q][j].localFinSent
             /\ \A k \in 1..Len(wire'[q]) : ~Bearing(wire'[q][k], j)
             /\ got'[q][j] = Arrived(e, j)'
  <2>1. GetsFin(st[e][j], st'[e][j], f)
    <3>1. ~GetsData(st[e][j], st'[e][j], f)
      BY <1>7 DEF GetsData
    <3>2. ~GetsCredit(e, st[e][j], st'[e][j], f) /\ ~GetsReset(st[e][j], st'[e][j], f)
          /\ ~GetsOpened(e, st[e][j], st'[e][j], f)
      BY <1>2, <1>7, SameReceive DEF GetsCredit, GetsReset, GetsOpened, SameAmounts, SameIn
    <3> QED BY <1>3, <3>1, <3>2 DEF Gets
  <2>2. Fin(f, j) /\ f = wire[q][1] /\ 1 \in 1..Len(wire[q]) /\ wire[q] \in Seq(Frames)
    <3>1. f = wire[q][1] /\ 1 \in 1..Len(wire[q])
      BY <1>3, ConsumedCarried
    <3> QED BY <1>0, <1>1, <2>1, <3>1 DEF GetsFin, Fin, Shapes
  <2>3. st[q][j].localFinSent /\ \A k \in 1..Len(wire[q]) : Bearing(wire[q][k], j) => k <= 1
    BY <1>0, <2>2 DEF FinLast
  <2>4. st'[q][j].localFinSent /\ got'[q][j] = got[q][j]
    BY <1>0, <1>2, <2>3 DEF SendSide
  <2>5. \A k \in 1..Len(wire'[q]) : ~Bearing(wire'[q][k], j)
    <3> TAKE k \in 1..Len(wire'[q])
    <3>1. /\ wire'[q] = Tail(wire[q]) /\ wire[q] # <<>>
      BY <1>3 DEF Consumed
    <3>2. Len(wire'[q]) = Len(wire[q]) - 1 /\ wire'[q][k] = wire[q][k + 1] /\ Len(wire[q]) \in Nat
      BY <2>2, <3>1, HeadItem
    <3>3. k + 1 \in 1..Len(wire[q]) /\ ~(k + 1 <= 1)
      BY <3>2
    <3> QED BY <2>3, <3>2, <3>3
  <2>6. Carried(wire[q], "DATA", j) = 0
    <3>1. ASSUME NEW k \in 1..Len(wire[q]), wire[q][k].kind = "DATA", wire[q][k].stream = j PROVE FALSE
      <4>1. Bearing(wire[q][k], j)
        BY <3>1 DEF Bearing
      <4>2. k = 1
        BY <2>3, <4>1
      <4> QED BY <2>2, <3>1, <4>2 DEF Fin
    <3> QED BY <2>2, <3>1, CarriedNone
  <2>7. QueuedBytes(st[q][j]) = 0
    <3>1. /\ st[q][j].output = <<>> /\ st[q][j].pending = <<>> /\ st[q][j].hand = 0
      BY <1>0, <2>3 DEF Orderly, Ordered
    <3> QED BY <3>1, BytesEmpty DEF QueuedBytes
  <2>8. got[q][j] = QueuedBytes(st[q][j]) + Carried(wire[q], "DATA", j) + Arrived(e, j)
    BY <1>0, <1>3, <2>3 DEF Pipe, Listening, Whole
  <2>9. Arrived(e, j)' = Arrived(e, j)
    BY <1>2, <2>1 DEF Arrived, GetsFin, SameAmounts
  <2>10. Arrived(e, j) \in Nat
    BY SideTypes
  <2> QED BY <2>4, <2>5, <2>6, <2>7, <2>8, <2>9, <2>10
<1>8. FinGot'
  <2> SUFFICES ASSUME NEW p \in Ends, NEW i \in Ids, st'[Other(p)][i].remoteFin
               PROVE  /\ st'[p][i].localFinSent
                      /\ \A k \in 1..Len(wire'[p]) : ~Bearing(wire'[p][k], i)
                      /\ got'[p][i] = Arrived(Other(p), i)'
    BY DEF FinGot, Bearing
  <2>1. CASE ReceiveSide(Other(p), i)
    BY <1>6, <2>1
  <2>2. CASE ~ReceiveSide(Other(p), i)
    <3>1. Other(p) = e /\ i = j /\ p = q
      BY <1>2, <2>2, EndsPair
    <3> QED BY <1>7, <2>2, <3>1
  <2> QED BY <2>1, <2>2
<1> QED BY <1>5, <1>8
\* take sends no data of a stream after its FIN, and no FIN is made up.
LEMMA TakesWhole ==
  ASSUME NEW i, NEW s \in StreamRecords, NEW a, NEW m, NEW space, NEW only,
         Ordered(s), Takes(i, s, a, m, space, only)
  PROVE  /\ Whole(a) => Whole(s)
         /\ s.localFinSent => a.localFinSent /\ \A f : m = <<f>> => ~Bearing(f, i)
         /\ \A f : m = <<f>> /\ Fin(f, i) => a.localFinSent
<1> DEFINE q == Pulled(s)
           Goal == /\ Whole(a) => Whole(s)
                   /\ s.localFinSent => a.localFinSent /\ \A f : m = <<f>> => ~Bearing(f, i)
                   /\ \A f : m = <<f>> /\ Fin(f, i) => a.localFinSent
<1>1. a.reader = s.reader
  BY DEF Takes, SameReader
<1>2. ASSUME NEW k, NEW n, k \notin {"DATA", "FIN"}, m = <<Frame(k, i, 0, n)>>, SameOut(s, a) PROVE Goal
  <2>1. \A f : m = <<f>> => f.kind = k
    BY <1>2 DEF Frame
  <2>2. a.localFinSent = s.localFinSent /\ (Whole(a) => Whole(s))
    BY <1>1, <1>2 DEF Whole, FinQueued, SameOut
  <2> QED BY <1>2, <2>1, <2>2 DEF Bearing, Fin
<1>3. CASE TakesReset(i, s, a, m)
  <2>1. SameOut(s, a) /\ m = <<Frame("RESET", i, 0, 0)>>
    BY <1>3 DEF TakesReset, SameOut
  <2> QED BY <1>2, <2>1
<1>4. CASE TakesOpen(i, s, a, m)
  BY <1>2, <1>4 DEF TakesOpen
<1>8. CASE TakesLate(i, s, a, m, space)
  <2>1. SameOut(s, a) /\ \A f : m # <<f>>
    BY <1>8 DEF TakesLate
  <2> QED BY <1>1, <2>1 DEF Whole, FinQueued, SameOut
<1>5. CASE TakesOpened(i, s, a, m)
  BY <1>2, <1>5 DEF TakesOpened
<1>6. CASE TakesCredit(i, s, a, m)
  BY <1>2, <1>6 DEF TakesCredit
<1>7. CASE TakesQueue(s, q, a) /\ (\/ TakesNone(s, q, a, m, space, only)
                                   \/ TakesFin(i, s, q, a, m) \/ TakesData(i, s, q, a, m))
  <2>1. a.output = q.output /\ q.localFinSent = s.localFinSent /\ q \in StreamRecords
    BY <1>7, PulledForm DEF TakesQueue
  <2>2. q.pending \in Seq(Chunks) /\ s.output \in Seq(Chunks) /\ s.pending \in Seq(Chunks)
    BY <2>1, Amounts
  <2>3. FinQueued(q) => FinQueued(s)
    <3>1. CASE s.pending = <<>> /\ s.output # <<>>
      <4>1. q.pending = <<Head(s.output)>> /\ q.output = Tail(s.output)
        BY <3>1, PulledForm
      <4> HIDE DEF q
      <4>2. /\ Head(s.output) = s.output[1] /\ Len(s.output) \in Nat \ {0}
            /\ Len(q.output) = Len(s.output) - 1
            /\ \A k \in 1..Len(s.output) - 1 : q.output[k] = s.output[k + 1]
        BY <2>2, <3>1, <4>1, HeadItem
      <4>3. q.pending[1] = s.output[1] /\ 1 \in 1..Len(s.output)
        BY <4>1, <4>2
      <4>4. \A k \in 1..Len(q.output) : k + 1 \in 1..Len(s.output) /\ q.output[k] = s.output[k + 1]
        BY <4>2
      <4> QED BY <4>3, <4>4 DEF FinQueued
    <3>2. CASE ~(s.pending = <<>> /\ s.output # <<>>)
      <4>1. q.pending = s.pending /\ q.output = s.output
        BY <3>2, PulledForm
      <4> QED BY <4>1 DEF FinQueued
    <3> QED BY <3>1, <3>2
  <2>4. s.localFinSent => q.pending = <<>>
    BY PulledBytes DEF Ordered
  <2> HIDE DEF q
  <2>5. CASE TakesNone(s, q, a, m, space, only)
    <3>1. a.pending = q.pending /\ a.localFinSent = s.localFinSent /\ m = <<>>
      BY <2>5 DEF TakesNone
    <3>2. Whole(a) => Whole(s)
      BY <1>1, <2>1, <2>3, <3>1 DEF Whole, FinQueued
    <3>3. \A f : m # <<f>>
      BY <3>1
    <3> QED BY <3>1, <3>2, <3>3
  <2>6. CASE TakesFin(i, s, q, a, m)
    <3>1. q.pending # <<>> /\ q.pending[1].len = 0 /\ a.localFinSent
      BY <2>6 DEF TakesFin
    <3>2. FinQueued(q)
      BY <3>1 DEF FinQueued
    <3> QED BY <2>3, <2>4, <3>1, <3>2 DEF Whole
  <2>7. CASE TakesData(i, s, q, a, m)
    <3>1. PICK n \in 1..q.pending[1].len :
             /\ m = <<Frame("DATA", i, q.pending[1].sequence, n)>>
             /\ a.pending = IF q.pending[1].len = n THEN <<>>
                            ELSE <<[sequence |-> (q.pending[1].sequence + n) % Offsets,
                                    len |-> q.pending[1].len - n]>>
      BY <2>7 DEF TakesData
    <3>2. q.pending # <<>> /\ a.localFinSent = s.localFinSent
      BY <2>7 DEF TakesData
    <3>3. q.pending[1].len \in Nat
      BY <2>2, <3>2, HeadItem, ChunkFields
    <3>4. a.pending # <<>> => a.pending[1].len # 0
      <4>1. CASE q.pending[1].len = n
        BY <3>1, <4>1
      <4>2. CASE q.pending[1].len # n
        BY <3>1, <3>3, <4>2
      <4> QED BY <4>1, <4>2
    <3>5. FinQueued(a) => FinQueued(q)
      BY <2>1, <3>4 DEF FinQueued
    <3>6. \A f : m = <<f>> => f.kind = "DATA"
      BY <3>1 DEF Frame
    <3>7. ~s.localFinSent
      BY <2>4, <3>2
    <3> QED BY <1>1, <2>3, <3>2, <3>5, <3>6, <3>7 DEF Whole, Fin
  <2> QED BY <1>7, <2>5, <2>6, <2>7
<1> QED BY <1>3, <1>4, <1>5, <1>6, <1>7, <1>8 DEF Takes
\* What a turn does to the stream it is about and leaves of the others.
LEMMA TurnSides ==
  ASSUME Shapes, Orderly, NEW e \in Ends, NEW c, NEW j \in Ids, NEW a, NEW m, Turn(e, c, j, a, m),
         got' = got, put' = put
  PROVE  LET s == st[e][j]
             t == st'[e][j] IN
         /\ \A p \in Ends, i \in Ids : ReceiveSide(p, i)
         /\ \A p \in Ends, i \in Ids : p # e \/ i # j => SendSide(p, i)
         /\ Whole(t) => Whole(s)
         /\ s.localFinSent => t.localFinSent /\ \A f : m = <<f>> => ~Bearing(f, j)
         /\ \A f : m = <<f>> /\ Fin(f, j) => t.localFinSent
         /\ QueuedBytes(t) + Carried(wire'[e], "DATA", j) = QueuedBytes(s) + Carried(wire[e], "DATA", j)
         /\ \A i \in Ids : i # j => Carried(wire'[e], "DATA", i) = Carried(wire[e], "DATA", i)
<1> DEFINE s == st[e][j]
           t == st'[e][j]
<1>0. s \in StreamRecords /\ Ordered(s)
  BY OneStream DEF Orderly
<1>1. Takes(j, s, a, m, room[e] - FrameHeader, carrier[e] = "controls") /\ Moved(e, j)
      /\ (t = a \/ t = ClosedStream(a)) /\ wire' \in [Ends -> Seq(Frames)]
  BY DEF Turn
<1>2. a \in StreamRecords /\ SameIn(s, a)
  BY <1>1 DEF Takes
<1>3. SameOut(a, t) /\ SameIn(a, t) /\ SameReader(a, t) /\ SameAmounts(a, t)
  <2>1. SameOut(a, a) /\ SameIn(a, a) /\ SameReader(a, a) /\ SameAmounts(a, a)
    BY DEF SameOut, SameIn, SameReader, SameAmounts
  <2> QED BY <1>1, <1>2, <2>1, ClosedStreamKeeps
<1>4. /\ Whole(a) => Whole(s)
      /\ s.localFinSent => a.localFinSent /\ \A f : m = <<f>> => ~Bearing(f, j)
      /\ \A f : m = <<f>> /\ Fin(f, j) => a.localFinSent
  BY <1>0, <1>1, TakesWhole
<1>5. /\ QueuedBytes(a) + s.credit = QueuedBytes(s) + a.credit
      /\ QueuedBytes(a) \in Nat /\ QueuedBytes(s) \in Nat
  BY <1>0, <1>1, TakenBytes
<1>6. TurnFlows(e, j, s, a)
  BY TurnFlow
<1>7. /\ s.credit \in Nat /\ a.credit \in Nat
      /\ Carried(wire'[e], "DATA", j) \in Nat /\ Carried(wire[e], "DATA", j) \in Nat
  <2>1. wire[e] \in Seq(Frames) /\ wire'[e] \in Seq(Frames)
    BY <1>1 DEF Shapes
  <2> QED BY <1>0, <1>2, <2>1, Amounts, CarriedIsNat
<1>8. \A p \in Ends, i \in Ids : p # e \/ i # j => Sides(p, i)
  BY <1>1, SidesSame DEF Moved
<1>9. ReceiveSide(e, j)
  <2>1. t.input = s.input /\ t.writing = s.writing /\ t.remoteFin = s.remoteFin
    BY <1>2, <1>3, <1>6 DEF TurnFlows, SameIn, SameAmounts
  <2> QED BY <2>1, SameReceive
<1> HIDE DEF s, t
<1>10. QueuedBytes(t) = QueuedBytes(a) /\ t.localFinSent = a.localFinSent /\ (Whole(t) => Whole(a))
  BY <1>3 DEF QueuedBytes, SameOut, SameReader, Whole, FinQueued
<1>11. QueuedBytes(a) + Carried(wire'[e], "DATA", j) = QueuedBytes(s) + Carried(wire[e], "DATA", j)
  <2> DEFINE x == QueuedBytes(a)
             y == QueuedBytes(s)
             b == s.credit
             d == a.credit
             u == Carried(wire'[e], "DATA", j)
             v == Carried(wire[e], "DATA", j)
  <2>1. x + b = y + d /\ d + u = b + v
    BY <1>5, <1>6 DEF TurnFlows
  <2>2. x \in Nat /\ y \in Nat /\ b \in Nat /\ d \in Nat /\ u \in Nat /\ v \in Nat
    BY <1>5, <1>7
  <2> HIDE DEF x, y, b, d, u, v
  <2>3. x + u = y + v
    BY ONLY <2>1, <2>2
  <2> QED BY <2>3 DEF x, y, u, v
<1>12. \A i \in Ids : i # j => Carried(wire'[e], "DATA", i) = Carried(wire[e], "DATA", i)
  BY <1>6 DEF TurnFlows
<1>13. \A p \in Ends, i \in Ids : ReceiveSide(p, i)
  BY <1>8, <1>9 DEF Sides
<1>14. \A p \in Ends, i \in Ids : p # e \/ i # j => SendSide(p, i)
  BY <1>8 DEF Sides
<1>15. Whole(t) => Whole(s)
  BY <1>4, <1>10
<1>16. /\ s.localFinSent => t.localFinSent /\ \A f : m = <<f>> => ~Bearing(f, j)
       /\ \A f : m = <<f>> /\ Fin(f, j) => t.localFinSent
  BY <1>4, <1>10
<1>17. QueuedBytes(t) + Carried(wire'[e], "DATA", j) = QueuedBytes(s) + Carried(wire[e], "DATA", j)
  BY <1>10, <1>11
<1> QED BY <1>12, <1>13, <1>14, <1>15, <1>16, <1>17 DEF s, t

LEMMA TakePipe ==
  ASSUME Shapes, Shapes', Scheduling, Orderly, Pipe, NEW e \in Ends, Take(e)
  PROVE  Pipe'
<1>1. PICK c \in Nat, j \in Ids : \E a, m : Turn(e, c, j, a, m)
  BY TakeForm
<1>2. PICK a, m : Turn(e, c, j, a, m)
  BY <1>1
<1>3. got' = got /\ put' = put /\ highest' = highest
  BY Zenon DEF Take
<1>4. /\ \A p \in Ends, i \in Ids : ReceiveSide(p, i)
      /\ \A p \in Ends, i \in Ids : p # e \/ i # j => SendSide(p, i)
      /\ Whole(st'[e][j]) => Whole(st[e][j])
      /\ QueuedBytes(st'[e][j]) + Carried(wire'[e], "DATA", j)
           = QueuedBytes(st[e][j]) + Carried(wire[e], "DATA", j)
      /\ \A i \in Ids : i # j => Carried(wire'[e], "DATA", i) = Carried(wire[e], "DATA", i)
  <2>1. /\ \A p \in Ends, i \in Ids : ReceiveSide(p, i)
        /\ \A p \in Ends, i \in Ids : p # e \/ i # j => SendSide(p, i)
        /\ Whole(st'[e][j]) => Whole(st[e][j])
    BY <1>2, <1>3, TurnSides
  <2>2. QueuedBytes(st'[e][j]) + Carried(wire'[e], "DATA", j)
           = QueuedBytes(st[e][j]) + Carried(wire[e], "DATA", j)
    BY <1>2, <1>3, TurnSides, Zenon
  <2>3. \A i \in Ids : i # j => Carried(wire'[e], "DATA", i) = Carried(wire[e], "DATA", i)
    BY <1>2, <1>3, TurnSides
  <2> QED BY <2>1, <2>2, <2>3
<1>5. wire'[Other(e)] = wire[Other(e)] /\ (RemoveStream(e, j, c + 1) \/ UNCHANGED streams)
  BY <1>2 DEF Turn
<1>6. \A p \in Ends, i \in Ids : Listening(p, i)' => Listening(p, i)
  BY <1>3, <1>5, StreamsShrink, SameListening
<1> SUFFICES ASSUME NEW p \in Ends, NEW i \in Ids, Listening(Other(p), i)', Whole(st'[p][i])
    PROVE  /\ Listening(Other(p), i) /\ Whole(st[p][i])
           /\ got'[p][i] + QueuedBytes(st[p][i]) + Carried(wire[p], "DATA", i) + Arrived(Other(p), i)
              = got[p][i] + QueuedBytes(st'[p][i]) + Carried(wire'[p], "DATA", i) + Arrived(Other(p), i)'
  BY PipeKept
<1>7. Other(p) \in Ends /\ (p = e \/ p = Other(e))
  BY EndsPair
<1> DEFINE g == got[p][i]
           x == QueuedBytes(st[p][i])
           y == Carried(wire[p], "DATA", i)
           z == Arrived(Other(p), i)
           xx == QueuedBytes(st'[p][i])
           yy == Carried(wire'[p], "DATA", i)
<1>8. g \in Nat /\ x \in Nat /\ y \in Nat /\ z \in Nat /\ xx \in Nat /\ yy \in Nat
  BY <1>7, SideTypes, SideTypesNext
<1>9. Arrived(Other(p), i)' = z /\ got'[p][i] = g
  BY <1>3, <1>4, <1>7 DEF ReceiveSide
<1>10. Whole(st[p][i]) /\ xx + yy = x + y
  <2>1. CASE p = e /\ i = j
    BY <1>4, <2>1
  <2>2. CASE p # e \/ i # j
    <3>1. Whole(st[p][i]) /\ xx + g = x + g
      BY <1>3, <1>4, <2>2 DEF SendSide
    <3>2. yy = y
      BY <1>4, <1>5, <1>7, <2>2
    <3> HIDE DEF x, y, xx, yy, g
    <3>3. xx = x
      BY <1>8, <3>1
    <3> QED BY <3>1, <3>2, <3>3
  <2> QED BY <2>1, <2>2
<1> HIDE DEF g, x, y, z, xx, yy
<1>11. g + x + y + z = g + xx + yy + z
  BY ONLY <1>8, <1>10
<1> QED BY <1>6, <1>7, <1>9, <1>10, <1>11 DEF g, x, y, z, xx, yy

LEMMA TakeFin ==
  ASSUME Shapes, Shapes', Scheduling, Orderly, FinLast, FinGot, NEW e \in Ends, Take(e)
  PROVE  FinLast' /\ FinGot'
<1>1. PICK c \in Nat, j \in Ids : \E a, m : Turn(e, c, j, a, m)
  BY TakeForm
<1>2. PICK a, m : Turn(e, c, j, a, m)
  BY <1>1
<1>3. got' = got /\ put' = put
  BY Zenon DEF Take
<1>4. /\ \A p \in Ends, i \in Ids : ReceiveSide(p, i)
      /\ \A p \in Ends, i \in Ids : p # e \/ i # j => SendSide(p, i)
      /\ st[e][j].localFinSent => st'[e][j].localFinSent /\ \A f : m = <<f>> => ~Bearing(f, j)
      /\ \A f : m = <<f>> /\ Fin(f, j) => st'[e][j].localFinSent
  BY <1>2, <1>3, TurnSides
<1>5. \A p \in Ends, i \in Ids : st[p][i].localFinSent => st'[p][i].localFinSent
  BY <1>4 DEF SendSide
<1>6. wire'[Other(e)] = wire[Other(e)] /\ wire[Other(e)] \in Seq(Frames) /\ Other(e) \in Ends
  BY <1>2, EndsPair DEF Turn, Shapes
<1>7. Drains(Other(e))
  BY <1>6, DrainsKept
<1>8. CASE m = <<>> /\ wire' = wire
  <2>1. \A p \in Ends : Drains(p)
    BY <1>8, DrainsKept DEF Shapes
  <2>2. FinLast'
    <3> SUFFICES ASSUME NEW p \in Ends, NEW i \in Ids, NEW k \in 1..Len(wire'[p]), Fin(wire'[p][k], i)
                 PROVE  /\ st'[p][i].localFinSent
                        /\ \A l \in 1..Len(wire'[p]) : Bearing(wire'[p][l], i) => l <= k
      BY DEF FinLast, Fin, Bearing
    <3> QED BY <1>5, <2>1, FinLastDrains
  <2>3. FinGot'
    <3> SUFFICES ASSUME NEW p \in Ends, NEW i \in Ids, st'[Other(p)][i].remoteFin
                 PROVE  /\ st'[p][i].localFinSent
                        /\ \A k \in 1..Len(wire'[p]) : ~Bearing(wire'[p][k], i)
                        /\ got'[p][i] = Arrived(Other(p), i)'
      BY DEF FinGot, Bearing
    <3>1. Arrived(Other(p), i)' = Arrived(Other(p), i) /\ st[Other(p)][i].remoteFin
      BY <1>4, EndsPair DEF ReceiveSide
    <3> QED BY <1>3, <1>5, <1>8, <3>1 DEF FinGot
  <2> QED BY <2>2, <2>3
<1>9. ASSUME NEW f \in Frames, m = <<f>>, f.stream = j, wire'[e] = Append(wire[e], f)
      PROVE  FinLast' /\ FinGot'
  <2> DEFINE n == Len(wire[e])
  <2>1. /\ n \in Nat /\ Len(wire'[e]) = n + 1 /\ wire'[e][n + 1] = f
        /\ \A k \in 1..n : wire'[e][k] = wire[e][k]
        /\ \A k \in 1..Len(wire'[e]) : k \in 1..n \/ k = n + 1
    <3> DEFINE w == wire[e]
               v == wire'[e]
    <3>1. w \in Seq(Frames) /\ v = Append(w, f)
      BY <1>9 DEF Shapes
    <3> HIDE DEF w, v
    <3>2. /\ Len(w) \in Nat /\ Len(v) = Len(w) + 1 /\ v[Len(w) + 1] = f
          /\ \A k \in 1..Len(w) : v[k] = w[k]
      BY <3>1
    <3>3. \A k \in 1..Len(v) : k \in 1..Len(w) \/ k = Len(w) + 1
      BY <3>2
    <3> QED BY <3>2, <3>3 DEF w, v
  <2> HIDE DEF n
  <2>2. \A i \in Ids : Bearing(f, i) => i = j /\ ~st[e][j].localFinSent
    BY <1>4, <1>9 DEF Bearing
  <2>3. FinLast'
    <3> SUFFICES ASSUME NEW p \in Ends, NEW i \in Ids, NEW k \in 1..Len(wire'[p]), Fin(wire'[p][k], i)
                 PROVE  /\ st'[p][i].localFinSent
                        /\ \A l \in 1..Len(wire'[p]) : Bearing(wire'[p][l], i) => l <= k
      BY DEF FinLast, Fin, Bearing
    <3>1. CASE p = Other(e)
      BY <1>5, <1>7, <3>1, FinLastDrains
    <3>2. CASE p = e /\ k = n + 1
      <4>1. Fin(f, i)
        BY <2>1, <3>2
      <4>2. i = j
        BY <1>9, <4>1 DEF Fin
      <4>3. st'[p][i].localFinSent
        BY <1>4, <1>9, <3>2, <4>1, <4>2
      <4>4. \A l \in 1..Len(wire'[p]) : l <= k
        BY <2>1, <3>2
      <4> QED BY <4>3, <4>4
    <3>3. CASE p = e /\ k \in 1..n
      <4>1. Fin(wire[e][k], i)
        BY <2>1, <3>3
      <4>2. st[e][i].localFinSent /\ \A l \in 1..n : Bearing(wire[e][l], i) => l <= k
        BY <3>3, <4>1 DEF FinLast, n
      <4>3. ~Bearing(f, i)
        BY <2>2, <4>2
      <4>4. \A l \in 1..Len(wire'[e]) : Bearing(wire'[e][l], i) => l <= k
        BY <2>1, <4>2, <4>3
      <4> QED BY <1>5, <3>3, <4>2, <4>4
    <3> QED BY <2>1, <3>1, <3>2, <3>3, EndsPair
  <2>4. FinGot'
    <3> SUFFICES ASSUME NEW p \in Ends, NEW i \in Ids, st'[Other(p)][i].remoteFin
                 PROVE  /\ st'[p][i].localFinSent
                        /\ \A k \in 1..Len(wire'[p]) : ~Bearing(wire'[p][k], i)
                        /\ got'[p][i] = Arrived(Other(p), i)'
      BY DEF FinGot, Bearing
    <3>1. Arrived(Other(p), i)' = Arrived(Other(p), i) /\ st[Other(p)][i].remoteFin
      BY <1>4, EndsPair DEF ReceiveSide
    <3>2. /\ st[p][i].localFinSent /\ got[p][i] = Arrived(Other(p), i)
          /\ \A k \in 1..Len(wire[p]) : ~Bearing(wire[p][k], i)
      BY <3>1 DEF FinGot
    <3>3. \A k \in 1..Len(wire'[p]) : ~Bearing(wire'[p][k], i)
      <4>1. CASE p = Other(e)
        BY <1>6, <3>2, <4>1
      <4>2. CASE p = e
        <5>1. ~Bearing(f, i)
          BY <2>2, <3>2, <4>2
        <5>2. \A k \in 1..n : ~Bearing(wire[e][k], i)
          BY <3>2, <4>2 DEF n
        <5> QED BY <2>1, <4>2, <5>1, <5>2
      <4> QED BY <4>1, <4>2, EndsPair
    <3> QED BY <1>3, <1>5, <3>1, <3>2, <3>3
  <2> QED BY <2>3, <2>4
<1>10. \/ m = <<>> /\ wire' = wire
       \/ \E f \in Frames : m = <<f>> /\ f.stream = j /\ wire'[e] = Append(wire[e], f)
  BY <1>2, TurnWire
<1> QED BY <1>8, <1>9, <1>10
LEMMA FinStep ==
  ASSUME Shapes, Shapes', Scheduling, Idle, Fresh, Orderly, Pipe, FinLast, FinGot, [Next]_vars
  PROVE  Pipe' /\ FinLast' /\ FinGot'
<1> USE DEF pvars, cvars
<1> DEFINE Goal == Pipe' /\ FinLast' /\ FinGot'
<1>1. ASSUME NEW i \in Ids, Open(i) PROVE Goal
  <2>1. /\ "client" \in Ends /\ Moved("client", i) /\ SameOut(NoStream, st'["client"][i])
        /\ SameIn(NoStream, st'["client"][i])
        /\ st'["client"][i].input = 0 /\ st'["client"][i].writing = 0
    BY <1>1, OpenStream DEF Ends
  <2>2. /\ i = highest["client"] + 1 /\ UNCHANGED <<wire, got, put>>
        /\ streams' = [streams EXCEPT !["client"] = @ \cup {i}]
        /\ highest' = [highest EXCEPT !["client"] = i]
    BY <1>1 DEF Open, AddStream
  <2>3. i > highest["client"]
    BY <2>1, <2>2, HighestIsNat
  <2>4. \A p \in Ends, j \in Ids : Sides(p, j)
    BY <2>1, <2>2, <2>3, NewSides
  <2>5. \A p \in Ends, j \in Ids : Listening(p, j)' => Listening(p, j)
    BY <2>1, <2>2, <2>3, NewListening
  <2> QED BY <2>2, <2>4, <2>5, SidesStep
<1>2. ASSUME NEW p \in Ends, NEW i \in Ids, LocalAction(p, i) PROVE Goal
  <2>1. \A e \in Ends, j \in Ids : Sides(e, j)
    BY <1>2, LocalSides
  <2>2. LocalStep(p, i)
    BY <1>2, LocalActionIsLocal
  <2>3. UNCHANGED <<wire, streams, highest>>
    BY <2>2 DEF LocalStep
  <2>4. \A e \in Ends, j \in Ids : Listening(e, j)' => Listening(e, j)
    BY <2>3 DEF Listening
  <2> QED BY <2>1, <2>3, <2>4, SidesStep
<1>3. ASSUME NEW p \in Ends, NEW i \in Ids, WriteFin(p, i) PROVE Goal
  <2>1. \A e \in Ends, j \in Ids : Sides(e, j)
    BY <1>3, LocalSides
  <2>2. RemoveStream(p, i, cursor[p]) \/ UNCHANGED <<streams, order, cursor>>
    BY <1>3, WriteFinStream
  <2>3. UNCHANGED <<wire, highest>>
    BY <1>3, Zenon DEF WriteFin
  <2>4. \A e \in Ends, j \in Ids : Listening(e, j)' => Listening(e, j)
    BY <2>2, <2>3, StreamsShrink, SameListening
  <2> QED BY <2>1, <2>3, <2>4, SidesStep
<1>4. ASSUME NEW p \in Ends, ReceiveOpen(p) PROVE Goal
  BY <1>4, AcceptStep
<1>5. ASSUME NEW p \in Ends, ReceiveFrame(p) PROVE Goal
  BY <1>5, FramePipe, FrameFin
<1>6. ASSUME NEW p \in Ends, ReceiveRetired(p) PROVE Goal
  BY <1>6, SkipStep
<1>7. ASSUME NEW p \in Ends, Take(p) PROVE Goal
  BY <1>7, TakePipe, TakeFin
<1>8. ASSUME NEW p \in Ends, Close(p) PROVE Goal
  <2>1. UNCHANGED <<wire, streams, highest, got, put>>
    BY <1>8 DEF Close
  <2>2. \A e \in Ends, j \in Ids : Sides(e, j)
    <3> TAKE e \in Ends, j \in Ids
    <3>1. st'[e][j] = st[e][j] \/ st'[e][j] = ClosedStream(st[e][j])
      BY <1>8, CloseStreams
    <3>2. CASE st'[e][j] = st[e][j]
      BY <2>1, <3>2, SidesSame
    <3>3. CASE st'[e][j] = ClosedStream(st[e][j])
      <4>1. /\ SameOut(st[e][j], st'[e][j]) /\ SameIn(st[e][j], st'[e][j])
            /\ SameAmounts(st[e][j], st'[e][j]) /\ SameReader(st[e][j], st'[e][j])
        BY <3>3, OneStream, ClosedStreamKeeps
      <4>2. SendSide(e, j)
        BY <2>1, <4>1, SameSend DEF SameReader
      <4>3. ReceiveSide(e, j)
        BY <2>1, <4>1, SameReceive DEF SameAmounts, SameIn
      <4> QED BY <4>2, <4>3 DEF Sides
    <3> QED BY <3>1, <3>2, <3>3
  <2>3. \A e \in Ends, j \in Ids : Listening(e, j)' => Listening(e, j)
    BY <2>1 DEF Listening
  <2> QED BY <2>1, <2>2, <2>3, SidesStep
<1>9. ASSUME UNCHANGED <<st, wire, streams, highest, got, put>> PROVE Goal
  <2>1. \A e \in Ends, j \in Ids : Sides(e, j)
    BY <1>9, SidesSame
  <2>2. \A e \in Ends, j \in Ids : Listening(e, j)' => Listening(e, j)
    BY <1>9 DEF Listening
  <2> QED BY <1>9, <2>1, <2>2, SidesStep
<1>10. ASSUME NEW p \in Ends, CarrierCheck(p) \/ TakeEnd(p) PROVE Goal
  <2>1. UNCHANGED <<st, wire, streams, highest, got, put>>
    BY <1>10 DEF CarrierCheck, TakeEnd
  <2> QED BY <1>9, <2>1
<1>11. CASE UNCHANGED vars
  BY <1>9, <1>11 DEF vars
<1> QED
  BY <1>1, <1>2, <1>3, <1>4, <1>5, <1>6, <1>7, <1>8, <1>10, <1>11, NextCases

LEMMA FinInit == ASSUME Init PROVE Pipe /\ FinLast /\ FinGot
<1>1. /\ \A p \in Ends : wire[p] = <<>>
      /\ \A p \in Ends, i \in Ids : st[p][i] = NoStream /\ got[p][i] = 0 /\ put[p][i] = 0
  BY DEF Init
<1>2. NoStream.input = 0 /\ NoStream.writing = 0 /\ NoStream.hand = 0 /\ NoStream.output = <<>>
      /\ NoStream.pending = <<>> /\ ~NoStream.remoteFin
  BY DEF NoStream
<1>3. QueuedBytes(NoStream) = 0
  BY <1>2, BytesEmpty DEF QueuedBytes
<1>4. ASSUME NEW i \in Ids PROVE Carried(<<>>, "DATA", i) = 0
  <2>1. <<>> \in Seq(Frames) /\ \A k \in 1..Len(<<>>) : (<<>>)[k].stream # i
    OBVIOUS
  <2> QED BY <2>1, CarriedNone
<1>5. \A p \in Ends, i \in Ids : Arrived(p, i) = 0
  BY <1>1, <1>2 DEF Arrived
<1>6. Pipe
  BY <1>1, <1>3, <1>4, <1>5, EndsPair DEF Pipe
<1>7. FinLast
  BY <1>1 DEF FinLast
<1>8. FinGot
  BY <1>1, <1>2, EndsPair DEF FinGot
<1> QED BY <1>6, <1>7, <1>8

\* A half-close never overtakes data: when CloseWrite follows the other end's
\* FIN, the local connection has got every byte the other end read, whatever
\* the windows, the cells and the order of the goroutines' steps.
THEOREM FinFollowsData == Spec => []FinMeansAll
<1> DEFINE Inv == Shapes /\ Scheduling /\ Wires /\ Idle /\ Fresh /\ Orderly /\ Pipe /\ FinLast /\ FinGot
<1>1. Init => Inv
  BY ShapesInit, CreditInit, DeliveryInit, FinInit
<1>2. Inv /\ [Next]_vars => Inv'
  <2> SUFFICES ASSUME Inv, [Next]_vars PROVE Inv'
    OBVIOUS
  <2>1. Shapes' /\ Scheduling' /\ Wires' /\ Idle' /\ Orderly'
    BY ShapesStep, SchedulingStep, WiresStep, IdleStep, OrderlyStep
  <2>2. Fresh'
    BY <2>1, FreshStep
  <2>3. Pipe' /\ FinLast' /\ FinGot'
    BY <2>1, FinStep
  <2> QED BY <2>1, <2>2, <2>3
<1>3. Inv => FinMeansAll
  <2> SUFFICES ASSUME Inv, NEW p \in Ends, NEW i \in Ids, st[p][i].remoteFinWritten
               PROVE  put[p][i] = got[Other(p)][i]
    BY DEF FinMeansAll
  <2>1. st[p][i].remoteFin /\ st[p][i].input = 0 /\ st[p][i].writing = 0
    BY DEF Orderly, Ending
  <2>2. Other(p) \in Ends /\ Other(Other(p)) = p /\ put[p][i] \in Nat
    BY EndsPair DEF Shapes
  <2>3. got[Other(p)][i] = Arrived(p, i)
    BY <2>1, <2>2 DEF FinGot
  <2>4. Arrived(p, i) = 0 + 0 + put[p][i]
    BY <2>1 DEF Arrived
  <2> QED BY <2>2, <2>3, <2>4
<1> QED BY <1>1, <1>2, <1>3, PTL DEF Spec

-----------------------------------------------------------------------------
(* Offsets wrap. *)

LEMMA Quotient ==
  ASSUME NEW m \in Nat \ {0}, NEW a \in Nat
  PROVE  a = m * (a \div m) + (a % m) /\ a % m \in 0..m-1 /\ a \div m \in Nat
  OBVIOUS

LEMMA Remainder ==
  ASSUME NEW m \in Nat \ {0}, NEW k \in Nat, NEW r \in 0..m-1
  PROVE  (m * k + r) % m = r
  OBVIOUS

LEMMA WrapTwice ==
  ASSUME NEW m \in Nat \ {0}, NEW a \in Nat, NEW b \in Nat
  PROVE  ((a % m) + b) % m = (a + b) % m
<1> DEFINE q == a \div m
           r == a % m
           x == (r + b) \div m
           y == (r + b) % m
<1>1. a = m * q + r /\ r \in 0..m-1 /\ q \in Nat
  BY Quotient
<1>2. r + b = m * x + y /\ y \in 0..m-1 /\ x \in Nat
  <2>1. r + b \in Nat
    BY <1>1
  <2> HIDE DEF r
  <2> QED BY <2>1, Quotient
<1> HIDE DEF q, r, x, y
<1>3. m * (q + x) = m * q + m * x
  BY <1>1, <1>2
<1>4. m * q \in Nat /\ m * x \in Nat
  BY <1>1, <1>2
<1>5. a + b = m * (q + x) + y
  BY <1>1, <1>2, <1>3, <1>4
<1>6. (a + b) % m = y
  <2>1. q + x \in Nat
    BY <1>1, <1>2
  <2>2. (m * (q + x) + y) % m = y
    BY <1>2, <2>1, Remainder
  <2> QED BY <1>5, <2>2
<1> QED BY <1>6 DEF y, r

\* The offset that follows a chunk of stream.output, and the one that follows
\* a frame: a FIN has no bytes.
AfterChunk(c) == IF c.len = 0 THEN c.sequence ELSE (c.sequence + c.len) % Offsets
AfterFrame(f) == IF f.kind = "FIN" THEN f.sequence ELSE (f.sequence + f.len) % Offsets

\* The chunks of a stream follow each other; the reader's next one follows
\* the last.
FirstQueued(s) == IF s.output # <<>> THEN s.output[1].sequence ELSE s.nextOut
Chained(s) ==
  /\ \A k \in 1..Len(s.output) :
       AfterChunk(s.output[k]) = IF k < Len(s.output) THEN s.output[k + 1].sequence ELSE s.nextOut
  /\ s.pending # <<>> => AfterChunk(s.pending[1]) = FirstQueued(s)
Chains == \A p \in Ends, i \in Ids : Chained(st[p][i])

\* The offset of the next byte that take sends.
Offset(s) == IF s.pending # <<>> THEN s.pending[1].sequence ELSE FirstQueued(s)

\* The frames of stream i in w lead from one offset to another; g holds the
\* offsets between the frames.
Path(w, i, g) ==
  \A k \in 1..Len(w) :
    IF Bearing(w[k], i) THEN w[k].sequence = g[k - 1] /\ g[k] = AfterFrame(w[k]) ELSE g[k] = g[k - 1]
Linked(w, i, from, to) ==
  \E g \in [0..Len(w) -> Nat] : Path(w, i, g) /\ g[0] = from /\ g[Len(w)] = to

\* What is on the way leads from where the receiver is to where the sender is.
OffsetsAgree ==
  \A p \in Ends, i \in Ids : Listening(Other(p), i) =>
    Linked(wire[p], i, st[Other(p)][i].nextIn, Offset(st[p][i]))
LEMMA LinkedHead ==
  ASSUME NEW w \in Seq(Frames), w # <<>>, NEW i, NEW from, NEW to, Linked(w, i, from, to), Bearing(w[1], i)
  PROVE  w[1].sequence = from
<1>1. PICK g \in [0..Len(w) -> Nat] : Path(w, i, g) /\ g[0] = from
  BY DEF Linked
<1>2. 1 \in 1..Len(w) /\ 1 - 1 = 0
  OBVIOUS
<1> QED BY <1>1, <1>2 DEF Path

LEMMA LinkedTail ==
  ASSUME NEW w \in Seq(Frames), w # <<>>, NEW i, NEW from, NEW to, Linked(w, i, from, to), NEW next,
         IF Bearing(w[1], i) THEN next = AfterFrame(w[1]) ELSE next = from
  PROVE  Linked(Tail(w), i, next, to)
<1> DEFINE n == Len(w)
           v == Tail(w)
<1>1. n \in Nat \ {0} /\ v \in Seq(Frames) /\ Len(v) = n - 1 /\ \A k \in 1..n - 1 : v[k] = w[k + 1]
  BY HeadItem
<1>2. PICK g \in [0..n -> Nat] : Path(w, i, g) /\ g[0] = from /\ g[n] = to
  BY DEF Linked
<1> DEFINE h == [k \in 0..n - 1 |-> g[k + 1]]
<1>3. h \in [0..Len(v) -> Nat]
  BY <1>1, <1>2
<1>4. h[0] = next
  <2>1. 1 \in 1..n /\ 1 - 1 = 0 /\ 0 \in 0..n - 1 /\ 0 + 1 = 1
    BY <1>1
  <2>2. IF Bearing(w[1], i) THEN g[1] = AfterFrame(w[1]) ELSE g[1] = g[0]
    BY <1>2, <2>1 DEF Path
  <2>3. h[0] = g[1]
    BY <2>1
  <2> QED BY <1>2, <2>2, <2>3
<1>5. h[Len(v)] = to
  <2>1. n - 1 \in 0..n - 1 /\ (n - 1) + 1 = n
    BY <1>1
  <2> QED BY <1>1, <1>2, <2>1
<1>6. Path(v, i, h)
  <2> SUFFICES ASSUME NEW k \in 1..Len(v)
               PROVE  IF Bearing(v[k], i) THEN v[k].sequence = h[k - 1] /\ h[k] = AfterFrame(v[k])
                      ELSE h[k] = h[k - 1]
    BY DEF Path
  <2>1. k \in 1..n - 1 /\ k \in 0..n - 1 /\ k - 1 \in 0..n - 1 /\ (k - 1) + 1 = k /\ k + 1 \in 1..n
        /\ (k + 1) - 1 = k
    BY <1>1
  <2>2. v[k] = w[k + 1] /\ h[k] = g[k + 1] /\ h[k - 1] = g[k]
    BY <1>1, <2>1
  <2>3. IF Bearing(w[k + 1], i)
          THEN w[k + 1].sequence = g[(k + 1) - 1] /\ g[k + 1] = AfterFrame(w[k + 1])
          ELSE g[k + 1] = g[(k + 1) - 1]
    BY <1>2, <2>1 DEF Path
  <2> QED BY <2>1, <2>2, <2>3
<1> HIDE DEF h, v
<1>7. Linked(v, i, next, to)
  BY <1>3, <1>4, <1>5, <1>6 DEF Linked
<1> QED BY <1>7 DEF v

LEMMA LinkedAppend ==
  ASSUME NEW w \in Seq(Frames), NEW f \in Frames, NEW i, NEW from, NEW to, Linked(w, i, from, to),
         NEW next \in Nat,
         IF Bearing(f, i) THEN f.sequence = to /\ next = AfterFrame(f) ELSE next = to
  PROVE  Linked(Append(w, f), i, from, next)
<1> DEFINE n == Len(w)
           v == Append(w, f)
<1>1. n \in Nat /\ v \in Seq(Frames) /\ Len(v) = n + 1 /\ v[n + 1] = f /\ \A k \in 1..n : v[k] = w[k]
  OBVIOUS
<1>2. PICK g \in [0..n -> Nat] : Path(w, i, g) /\ g[0] = from /\ g[n] = to
  BY DEF Linked
<1> DEFINE h == [k \in 0..n + 1 |-> IF k = n + 1 THEN next ELSE g[k]]
<1>3. h \in [0..Len(v) -> Nat]
  BY <1>1, <1>2
<1>4. h[0] = from
  BY <1>1, <1>2
<1>5. h[Len(v)] = next /\ h[n] = to
  BY <1>1, <1>2
<1>6. Path(v, i, h)
  <2> SUFFICES ASSUME NEW k \in 1..Len(v)
               PROVE  IF Bearing(v[k], i) THEN v[k].sequence = h[k - 1] /\ h[k] = AfterFrame(v[k])
                      ELSE h[k] = h[k - 1]
    BY DEF Path
  <2>1. CASE k = n + 1
    <3>1. k - 1 = n /\ v[k] = f /\ h[k] = next /\ h[k - 1] = to
      BY <1>1, <1>5, <2>1
    <3> QED BY <3>1
  <2>2. CASE k # n + 1
    <3>1. k \in 1..n /\ k - 1 \in 0..n
      BY <1>1, <2>2
    <3>2. h[k] = g[k] /\ h[k - 1] = g[k - 1] /\ v[k] = w[k]
      BY <1>1, <3>1
    <3>3. IF Bearing(w[k], i) THEN w[k].sequence = g[k - 1] /\ g[k] = AfterFrame(w[k]) ELSE g[k] = g[k - 1]
      BY <1>2, <3>1 DEF Path
    <3> QED BY <3>2, <3>3
  <2> QED BY <2>1, <2>2
<1> HIDE DEF h, v
<1>7. Linked(v, i, from, next)
  BY <1>3, <1>4, <1>5, <1>6 DEF Linked
<1> QED BY <1>7 DEF v
-----------------------------------------------------------------------------
(* The chunks of one stream. *)

LEMMA OffsetIsNat == ASSUME NEW s \in StreamRecords PROVE Offset(s) \in Nat /\ FirstQueued(s) \in Nat
<1>1. s.output \in Seq(Chunks) /\ s.pending \in Seq(Chunks) /\ s.nextOut \in Nat
  BY Amounts
<1>2. s.output # <<>> => s.output[1].sequence \in Nat
  BY <1>1, HeadItem, ChunkFields
<1>3. s.pending # <<>> => s.pending[1].sequence \in Nat
  BY <1>1, HeadItem, ChunkFields
<1> QED BY <1>1, <1>2, <1>3 DEF Offset, FirstQueued

LEMMA SameChain ==
  ASSUME NEW s, NEW t, t.output = s.output, t.pending = s.pending, t.nextOut = s.nextOut
  PROVE  (Chained(s) => Chained(t)) /\ Offset(t) = Offset(s)
  BY DEF Chained, Offset, FirstQueued

LEMMA QueueChain ==
  ASSUME NEW s \in StreamRecords, NEW t \in StreamRecords, NEW n \in Nat, Chained(s),
         t.output = Append(s.output, [sequence |-> s.nextOut, len |-> n]), t.pending = s.pending,
         t.nextOut = AfterChunk([sequence |-> s.nextOut, len |-> n])
  PROVE  Chained(t) /\ Offset(t) = Offset(s)
<1> DEFINE x == [sequence |-> s.nextOut, len |-> n]
           l == Len(s.output)
<1>1. s.output \in Seq(Chunks) /\ s.nextOut \in Nat /\ x \in Chunks
  BY Amounts DEF Chunks
<1>2. /\ l \in Nat /\ Len(t.output) = l + 1 /\ t.output[l + 1] = x
      /\ \A k \in 1..l : t.output[k] = s.output[k]
  BY <1>1
<1>3. t.output # <<>> /\ (s.output = <<>> <=> l = 0)
  BY <1>1, <1>2
<1>4. FirstQueued(t) = FirstQueued(s)
  <2>1. CASE s.output = <<>>
    <3>1. t.output[1] = x
      BY <1>2, <1>3, <2>1
    <3> QED BY <1>3, <2>1, <3>1 DEF FirstQueued
  <2>2. CASE s.output # <<>>
    <3>1. t.output[1] = s.output[1]
      BY <1>2, <1>3, <2>2
    <3> QED BY <1>3, <2>2, <3>1 DEF FirstQueued
  <2> QED BY <2>1, <2>2
<1>5. ASSUME NEW k \in 1..Len(t.output)
      PROVE  AfterChunk(t.output[k]) = IF k < Len(t.output) THEN t.output[k + 1].sequence ELSE t.nextOut
  <2>1. CASE k = l + 1
    <3>1. ~(k < Len(t.output)) /\ t.output[k] = x
      BY <1>2, <2>1
    <3> QED BY <3>1
  <2>2. CASE k = l
    <3>1. k < Len(t.output) /\ t.output[k] = s.output[k] /\ t.output[k + 1] = x /\ k \in 1..l /\ ~(k < l)
      BY <1>2, <2>2
    <3>2. AfterChunk(s.output[k]) = s.nextOut
      BY <3>1 DEF Chained
    <3> QED BY <3>1, <3>2
  <2>3. CASE k < l
    <3>1. /\ k < Len(t.output) /\ t.output[k] = s.output[k] /\ t.output[k + 1] = s.output[k + 1]
          /\ k \in 1..l
      BY <1>2, <2>3
    <3>2. AfterChunk(s.output[k]) = s.output[k + 1].sequence
      BY <2>3, <3>1 DEF Chained
    <3> QED BY <3>1, <3>2
  <2> QED BY <1>2, <2>1, <2>2, <2>3
<1>6. t.pending # <<>> => AfterChunk(t.pending[1]) = FirstQueued(t)
  BY <1>4 DEF Chained
<1> QED BY <1>4, <1>5, <1>6 DEF Chained, Offset

LEMMA PulledChain ==
  ASSUME NEW s \in StreamRecords, Chained(s)
  PROVE  Chained(Pulled(s)) /\ Offset(Pulled(s)) = Offset(s)
<1> DEFINE q == Pulled(s)
           l == Len(s.output)
<1>1. /\ q \in StreamRecords /\ q.nextOut = s.nextOut
      /\ \/ /\ s.pending = <<>> /\ s.output # <<>>
            /\ q.pending = <<Head(s.output)>> /\ q.output = Tail(s.output)
         \/ q.pending = s.pending /\ q.output = s.output
  BY PulledForm
<1> HIDE DEF q
<1>2. CASE q.pending = s.pending /\ q.output = s.output
  <2> QED BY <1>1, <1>2, SameChain DEF q
<1>3. CASE /\ s.pending = <<>> /\ s.output # <<>>
           /\ q.pending = <<Head(s.output)>> /\ q.output = Tail(s.output)
  <2>1. s.output \in Seq(Chunks)
    BY Amounts
  <2>2. /\ Head(s.output) = s.output[1] /\ l \in Nat \ {0} /\ Len(q.output) = l - 1
        /\ q.output \in Seq(Chunks)
        /\ \A k \in 1..l - 1 : q.output[k] = s.output[k + 1]
    BY <1>3, <2>1, HeadItem
  <2>3. q.pending # <<>> /\ q.pending[1] = s.output[1]
    BY <1>3, <2>2
  <2>4. AfterChunk(s.output[1]) = FirstQueued(q)
    <3>1. CASE l = 1
      <4>1. q.output = <<>> /\ 1 \in 1..l /\ ~(1 < l)
        BY <2>2, <3>1
      <4>2. AfterChunk(s.output[1]) = s.nextOut
        BY <4>1 DEF Chained
      <4> QED BY <1>1, <4>1, <4>2 DEF FirstQueued
    <3>2. CASE l > 1
      <4>1. q.output # <<>> /\ 1 \in 1..l /\ 1 < l /\ q.output[1] = s.output[2]
        <5>1. 1 \in 1..l - 1 /\ 1 + 1 = 2 /\ Len(q.output) # 0
          BY <2>2, <3>2
        <5> QED BY <2>2, <3>2, <5>1
      <4>2. AfterChunk(s.output[1]) = s.output[2].sequence
        BY <4>1 DEF Chained
      <4>3. FirstQueued(q) = q.output[1].sequence
        BY <4>1 DEF FirstQueued
      <4> QED BY <4>1, <4>2, <4>3
    <3>3. l = 1 \/ l > 1
      <4>1. l \in Nat \ {0}
        BY <2>2
      <4> HIDE DEF l
      <4> QED BY <4>1
    <3> QED BY <3>1, <3>2, <3>3
  <2>5. ASSUME NEW k \in 1..Len(q.output)
        PROVE  AfterChunk(q.output[k]) = IF k < Len(q.output) THEN q.output[k + 1].sequence ELSE q.nextOut
    <3>1. k + 1 \in 1..l /\ q.output[k] = s.output[k + 1]
      BY <2>2
    <3>2. AfterChunk(s.output[k + 1]) = IF k + 1 < l THEN s.output[k + 1 + 1].sequence ELSE s.nextOut
      BY <3>1 DEF Chained
    <3>3. k < Len(q.output) <=> k + 1 < l
      BY <2>2
    <3>4. k < Len(q.output) => q.output[k + 1] = s.output[k + 1 + 1]
      BY <2>2
    <3>5. CASE k < Len(q.output)
      BY <3>1, <3>2, <3>3, <3>4, <3>5
    <3>6. CASE ~(k < Len(q.output))
      BY <1>1, <3>1, <3>2, <3>3, <3>6
    <3> QED BY <3>5, <3>6
  <2>6. Chained(q)
    BY <2>3, <2>4, <2>5 DEF Chained
  <2>7. Offset(q) = Offset(s)
    BY <1>3, <2>3 DEF Offset, FirstQueued
  <2> QED BY <2>6, <2>7 DEF q
<1> QED BY <1>1, <1>2, <1>3

\* The frame that take sends starts at the stream's offset and moves it.
Advances(i, s, a, m) ==
  /\ Chained(a)
  /\ m = <<>> => Offset(a) = Offset(s)
  /\ \A f : m = <<f>> =>
       IF Bearing(f, i) THEN f.sequence = Offset(s) /\ Offset(a) = AfterFrame(f)
       ELSE Offset(a) = Offset(s)
LEMMA TakesChain ==
  ASSUME NEW i, NEW s \in StreamRecords, NEW a, NEW m, NEW space, NEW only,
         Ordered(s), Chained(s), Takes(i, s, a, m, space, only)
  PROVE  Advances(i, s, a, m)
<1> DEFINE q == Pulled(s)
<1>1. ASSUME NEW k, NEW n, k \notin {"DATA", "FIN"}, m = <<Frame(k, i, 0, n)>>, SameOut(s, a)
      PROVE  Advances(i, s, a, m)
  <2>1. \A f : m = <<f>> => ~Bearing(f, i)
    BY <1>1 DEF Frame, Bearing
  <2>2. Chained(a) /\ Offset(a) = Offset(s)
    BY <1>1, SameChain DEF SameOut
  <2>3. m # <<>>
    BY <1>1
  <2> QED BY <2>1, <2>2, <2>3 DEF Advances
<1>2. CASE TakesReset(i, s, a, m)
  <2>1. SameOut(s, a) /\ m = <<Frame("RESET", i, 0, 0)>>
    BY <1>2 DEF TakesReset, SameOut
  <2> QED BY <1>1, <2>1
<1>3. CASE TakesOpen(i, s, a, m)
  BY <1>1, <1>3 DEF TakesOpen
<1>7. CASE TakesLate(i, s, a, m, space)
  <2>1. SameOut(s, a) /\ m = <<>> /\ \A f : m # <<f>>
    BY <1>7 DEF TakesLate
  <2>2. Chained(a) /\ Offset(a) = Offset(s)
    BY <2>1, SameChain DEF SameOut
  <2> QED BY <2>1, <2>2 DEF Advances
<1>4. CASE TakesOpened(i, s, a, m)
  BY <1>1, <1>4 DEF TakesOpened
<1>5. CASE TakesCredit(i, s, a, m)
  BY <1>1, <1>5 DEF TakesCredit
<1>6. CASE TakesQueue(s, q, a) /\ (\/ TakesNone(s, q, a, m, space, only)
                                   \/ TakesFin(i, s, q, a, m) \/ TakesData(i, s, q, a, m))
  <2>1. a.output = q.output /\ a.nextOut = q.nextOut /\ q \in StreamRecords
    BY <1>6, PulledForm DEF TakesQueue
  <2>2. Chained(q) /\ Offset(q) = Offset(s) /\ q.pending \in Seq(Chunks)
    BY <2>1, PulledChain, Amounts
  <2> HIDE DEF q
  <2>3. FirstQueued(a) = FirstQueued(q)
    BY <2>1 DEF FirstQueued
  <2>4. CASE TakesNone(s, q, a, m, space, only)
    <3>1. a.pending = q.pending /\ m = <<>>
      BY <2>4 DEF TakesNone
    <3>2. Chained(a) /\ Offset(a) = Offset(q)
      BY <2>1, <2>2, <3>1, SameChain
    <3>3. \A f : m # <<f>>
      BY <3>1
    <3> QED BY <2>2, <3>2, <3>3 DEF Advances
  <2>5. ASSUME q.pending # <<>>
        PROVE  /\ Offset(q) = q.pending[1].sequence /\ AfterChunk(q.pending[1]) = FirstQueued(q)
               /\ q.pending[1].len \in Nat /\ q.pending[1].sequence \in Nat
    BY <2>2, <2>5, HeadItem, ChunkFields DEF Offset, Chained
  <2>6. ASSUME a.pending = <<>> PROVE Chained(a) /\ Offset(a) = FirstQueued(a)
    BY <2>1, <2>2, <2>6 DEF Chained, Offset
  <2>7. CASE TakesFin(i, s, q, a, m)
    <3>1. /\ q.pending # <<>> /\ q.pending[1].len = 0 /\ a.pending = <<>>
          /\ m = <<Frame("FIN", i, q.pending[1].sequence, 0)>>
      BY <2>7 DEF TakesFin
    <3>2. Chained(a) /\ Offset(a) = q.pending[1].sequence
      BY <2>3, <2>5, <2>6, <3>1 DEF AfterChunk
    <3>3. \A f : m = <<f>> => f.sequence = q.pending[1].sequence /\ AfterFrame(f) = f.sequence /\ Bearing(f, i)
      BY <3>1 DEF Frame, AfterFrame, Bearing
    <3>4. m # <<>>
      BY <3>1
    <3> QED BY <2>2, <2>5, <3>1, <3>2, <3>3, <3>4 DEF Advances
  <2>8. CASE TakesData(i, s, q, a, m)
    <3> DEFINE x == q.pending[1].sequence
               l == q.pending[1].len
    <3>1. PICK n \in 1..l :
             /\ m = <<Frame("DATA", i, x, n)>>
             /\ a.pending = IF l = n THEN <<>> ELSE <<[sequence |-> (x + n) % Offsets, len |-> l - n]>>
      BY <2>8 DEF TakesData
    <3>2. q.pending # <<>>
      BY <2>8 DEF TakesData
    <3>3. x \in Nat /\ l \in Nat /\ n \in Nat /\ l # 0 /\ Offsets \in Nat \ {0}
      BY <2>5, <3>1, <3>2, MuxAssumption
    <3>4. (x + l) % Offsets = FirstQueued(q) /\ Offset(q) = x
      BY <2>5, <3>2, <3>3 DEF AfterChunk
    <3> HIDE DEF x, l
    <3>5. Chained(a) /\ Offset(a) = (x + n) % Offsets
      <4>1. CASE l = n
        BY <2>3, <2>6, <3>1, <3>4, <4>1
      <4>2. CASE l # n
        <5> DEFINE y == [sequence |-> (x + n) % Offsets, len |-> l - n]
        <5>1. a.pending = <<y>> /\ y.len = l - n /\ l - n \in Nat /\ l - n # 0 /\ y.sequence = (x + n) % Offsets
          BY <3>1, <3>3, <4>2
        <5> HIDE DEF y
        <5>2. a.pending # <<>> /\ a.pending[1] = y
          BY <5>1
        <5>3. (((x + n) % Offsets) + (l - n)) % Offsets = (x + n + (l - n)) % Offsets
          <6>1. x + n \in Nat
            BY <3>3
          <6> QED BY <3>3, <5>1, <6>1, WrapTwice
        <5>4. x + n + (l - n) = x + l
          BY <3>3
        <5>5. AfterChunk(y) = FirstQueued(a)
          BY <2>3, <3>4, <5>1, <5>3, <5>4 DEF AfterChunk
        <5>6. Chained(a)
          BY <2>1, <2>2, <5>2, <5>5 DEF Chained
        <5> QED BY <5>1, <5>2, <5>6 DEF Offset
      <4> QED BY <4>1, <4>2
    <3>6. \A f : m = <<f>> => f.sequence = x /\ AfterFrame(f) = (x + n) % Offsets /\ Bearing(f, i)
      BY <3>1 DEF Frame, AfterFrame, Bearing
    <3>7. m # <<>>
      BY <3>1
    <3> QED BY <2>2, <3>4, <3>5, <3>6, <3>7 DEF Advances
  <2> QED BY <1>6, <2>4, <2>7, <2>8
<1> QED BY <1>2, <1>3, <1>4, <1>5, <1>6, <1>7 DEF Takes

LEMMA OffsetBounded ==
  ASSUME NEW x \in Nat, NEW n \in Nat PROVE (x + n) % Offsets \in Nat
<1>1. Offsets \in Nat \ {0} /\ x + n \in Nat
  BY MuxAssumption
<1> QED BY <1>1, Quotient

\* A step of the local goroutines leaves the offset of the next byte alone.
LEMMA LocalChain ==
  ASSUME Shapes, NEW p \in Ends, NEW i \in Ids, LocalAction(p, i) \/ WriteFin(p, i), Chained(st[p][i])
  PROVE  Chained(st'[p][i]) /\ Offset(st'[p][i]) = Offset(st[p][i]) /\ st'[p][i].nextIn = st[p][i].nextIn
<1> DEFINE s == st[p][i]
           t == st'[p][i]
           Same == t.output = s.output /\ t.pending = s.pending /\ t.nextOut = s.nextOut
<1>0. s \in StreamRecords
  BY OneStream
<1>1. ASSUME Same, t.nextIn = s.nextIn
      PROVE  Chained(t) /\ Offset(t) = Offset(s) /\ t.nextIn = s.nextIn
  BY <1>1, SameChain
<1>2. CASE p = "server" /\ \E ok \in BOOLEAN : Dialed(i, ok)
  <2>1. Same /\ t.nextIn = s.nextIn
    BY <1>2, DialedStream DEF SameOut, SameIn
  <2> QED BY <1>1, <2>1
<1>3. CASE \E n \in 1..StreamChunk : ReadData(p, i, n)
  <2>1. Same /\ t.nextIn = s.nextIn
    BY <1>3, ReadDataStream DEF SameIn
  <2> QED BY <1>1, <2>1
<1>4. CASE ReadQueue(p, i)
  <2>1. /\ s.hand > 0 /\ t.output = Append(s.output, [sequence |-> s.nextOut, len |-> s.hand])
        /\ t.pending = s.pending /\ t.nextOut = (s.nextOut + s.hand) % Offsets /\ t.nextIn = s.nextIn
        /\ t \in StreamRecords
    BY <1>4, ReadQueueStream DEF SameIn, Moved, StreamTables
  <2>2. s.hand \in Nat /\ s.hand # 0
    BY <1>0, <2>1, Amounts
  <2>3. t.nextOut = AfterChunk([sequence |-> s.nextOut, len |-> s.hand])
    BY <2>1, <2>2 DEF AfterChunk
  <2> HIDE DEF s, t
  <2> QED BY <1>0, <2>1, <2>2, <2>3, QueueChain DEF s, t
<1>5. CASE ReadDrop(p, i)
  <2>1. Same /\ t.nextIn = s.nextIn
    BY <1>5, ReadDropStream DEF SameIn
  <2> QED BY <1>1, <2>1
<1>6. CASE ReadEOF(p, i)
  <2>1. /\ t.output = Append(s.output, [sequence |-> s.nextOut, len |-> 0])
        /\ t.pending = s.pending /\ t.nextOut = s.nextOut /\ t.nextIn = s.nextIn
        /\ t \in StreamRecords
    BY <1>6, ReadEOFStream DEF SameIn, Moved, StreamTables
  <2>2. t.nextOut = AfterChunk([sequence |-> s.nextOut, len |-> 0])
    BY <2>1 DEF AfterChunk
  <2> HIDE DEF s, t
  <2> QED BY <1>0, <2>1, <2>2, QueueChain DEF s, t
<1>7. CASE ReadError(p, i)
  <2>1. Same /\ t.nextIn = s.nextIn
    BY <1>7, ReadErrorStream DEF SameOut, SameIn
  <2> QED BY <1>1, <2>1
<1>8. CASE WritePop(p, i)
  <2>1. Same /\ t.nextIn = s.nextIn
    BY <1>8, WritePopStream DEF SameOut
  <2> QED BY <1>1, <2>1
<1>9. CASE WriteDone(p, i)
  <2>1. Same /\ t.nextIn = s.nextIn
    BY <1>9, WriteDoneStream DEF SameOut, SameIn
  <2> QED BY <1>1, <2>1
<1>10. CASE WriteError(p, i)
  <2>1. Same /\ t.nextIn = s.nextIn
    BY <1>10, WriteErrorStream DEF SameOut, SameIn
  <2> QED BY <1>1, <2>1
<1>11. CASE WriteFin(p, i)
  <2>1. Same /\ t.nextIn = s.nextIn
    BY <1>11, WriteFinStream DEF SameOut
  <2> QED BY <1>1, <2>1
<1> QED
  BY <1>2, <1>3, <1>4, <1>5, <1>6, <1>7, <1>8, <1>9, <1>10, <1>11 DEF LocalAction
\* A step that leaves what a stream sends next, and what it expects next, alone.
Keeps(p, i) ==
  /\ Chained(st[p][i]) => Chained(st'[p][i])
  /\ Offset(st'[p][i]) = Offset(st[p][i])
Expects(p, i) == st'[p][i].nextIn = st[p][i].nextIn

LEMMA ChainsKept ==
  ASSUME Chains, \A p \in Ends, i \in Ids : Keeps(p, i) PROVE Chains'
<1> SUFFICES ASSUME NEW p \in Ends, NEW i \in Ids PROVE Chained(st'[p][i])
  BY DEF Chains, Chained, AfterChunk, FirstQueued
<1> QED BY DEF Chains, Keeps

LEMMA LinkedNext ==
  ASSUME \A p \in Ends, i \in Ids : Listening(Other(p), i)' =>
           Linked(wire'[p], i, st'[Other(p)][i].nextIn, Offset(st'[p][i]))
  PROVE  OffsetsAgree'
  BY DEF OffsetsAgree, Linked, Path, Offset, FirstQueued, AfterFrame, Bearing

LEMMA SteadyStep ==
  ASSUME Chains, OffsetsAgree, \A p \in Ends, i \in Ids : Keeps(p, i) /\ Expects(p, i), wire' = wire,
         \A p \in Ends, i \in Ids : Listening(p, i)' => Listening(p, i)
  PROVE  Chains' /\ OffsetsAgree'
<1>1. Chains'
  BY ChainsKept
<1>2. OffsetsAgree'
  <2> SUFFICES ASSUME NEW p \in Ends, NEW i \in Ids, Listening(Other(p), i)'
               PROVE  Linked(wire'[p], i, st'[Other(p)][i].nextIn, Offset(st'[p][i]))
    BY LinkedNext
  <2>1. Other(p) \in Ends
    BY EndsPair
  <2>2. Linked(wire[p], i, st[Other(p)][i].nextIn, Offset(st[p][i]))
    BY <2>1 DEF OffsetsAgree
  <2> QED BY <2>1, <2>2 DEF Keeps, Expects
<1> QED BY <1>1, <1>2

LEMMA ConsumeOffsets ==
  ASSUME Shapes, Chains, OffsetsAgree, NEW e \in Ends, Consumed(e),
         \A p \in Ends, i \in Ids : Keeps(p, i), \A i \in Ids : Expects(Other(e), i),
         \A p \in Ends, i \in Ids : Listening(p, i)' => Listening(p, i),
         \A i \in Ids : Listening(e, i) =>
           IF Bearing(wire[Other(e)][1], i) THEN st'[e][i].nextIn = AfterFrame(wire[Other(e)][1])
           ELSE Expects(e, i)
  PROVE  Chains' /\ OffsetsAgree'
<1>1. Chains'
  BY ChainsKept
<1>2. OffsetsAgree'
  <2> SUFFICES ASSUME NEW p \in Ends, NEW i \in Ids, Listening(Other(p), i)'
               PROVE  Linked(wire'[p], i, st'[Other(p)][i].nextIn, Offset(st'[p][i]))
    BY LinkedNext
  <2>1. Other(p) \in Ends /\ (p = e \/ (p = Other(e) /\ Other(p) = e))
    BY EndsPair
  <2>2. Linked(wire[p], i, st[Other(p)][i].nextIn, Offset(st[p][i])) /\ Offset(st'[p][i]) = Offset(st[p][i])
    BY <2>1 DEF OffsetsAgree, Keeps
  <2>3. CASE p = e
    BY <2>2, <2>3 DEF Consumed, Expects
  <2>4. CASE p = Other(e) /\ Other(p) = e
    <3> DEFINE w == wire[p]
    <3>1. w \in Seq(Frames) /\ w # <<>> /\ wire'[p] = Tail(w)
      BY <2>1, <2>4 DEF Consumed, Shapes
    <3>2. IF Bearing(w[1], i) THEN st'[e][i].nextIn = AfterFrame(w[1])
          ELSE st'[e][i].nextIn = st[e][i].nextIn
      BY <2>4 DEF Expects
    <3>3. Linked(w, i, st[e][i].nextIn, Offset(st[p][i]))
      BY <2>2, <2>4
    <3> HIDE DEF w
    <3>4. Linked(Tail(w), i, st'[e][i].nextIn, Offset(st[p][i]))
      BY <3>1, <3>2, <3>3, LinkedTail
    <3> QED BY <2>2, <2>4, <3>1, <3>4
  <2> QED BY <2>1, <2>3, <2>4
<1> QED BY <1>1, <1>2

LEMMA KeepsSame ==
  ASSUME NEW p, NEW i, st'[p][i] = st[p][i] PROVE Keeps(p, i) /\ Expects(p, i)
  BY DEF Keeps, Expects

LEMMA KeepsOut ==
  ASSUME NEW p, NEW i, SameOut(st[p][i], st'[p][i]) PROVE Keeps(p, i)
  BY SameChain DEF Keeps, SameOut

LEMMA NewKeeps ==
  ASSUME Shapes, Fresh, NEW p \in Ends, NEW i \in Ids, i > highest[p], Moved(p, i),
         SameOut(NoStream, st'[p][i]), SameIn(NoStream, st'[p][i])
  PROVE  \A e \in Ends, j \in Ids : Keeps(e, j) /\ Expects(e, j)
<1> TAKE e \in Ends, j \in Ids
<1>1. CASE e # p \/ j # i
  BY <1>1, KeepsSame DEF Moved
<1>2. CASE e = p /\ j = i
  <2>1. st[p][i] = NoStream
    BY DEF Fresh
  <2> QED BY <1>2, <2>1, KeepsOut DEF SameIn, Expects
<1> QED BY <1>1, <1>2

LEMMA AcceptOffsets ==
  ASSUME Shapes, Fresh, Chains, OffsetsAgree, NEW e \in Ends, ReceiveOpen(e)
  PROVE  Chains' /\ OffsetsAgree'
<1> DEFINE i == Head(wire["client"]).stream
<1>1. /\ e = "server" /\ Consumed("server") /\ Head(wire["client"]).kind = "OPEN"
      /\ i \in Ids /\ i > highest["server"] /\ Moved("server", i)
      /\ SameOut(NoStream, st'["server"][i]) /\ SameIn(NoStream, st'["server"][i])
  BY ReceiveOpenStream
<1>2. "server" \in Ends /\ "client" \in Ends /\ Other("server") = "client"
  BY DEF Ends, Other
<1>3. \A p \in Ends, j \in Ids : Keeps(p, j) /\ Expects(p, j)
  BY <1>1, <1>2, NewKeeps
<1>4. /\ streams' = [streams EXCEPT !["server"] = @ \cup {i}]
      /\ highest' = [highest EXCEPT !["server"] = i]
  BY <1>1, <1>2 DEF ReceiveOpen, AddStream
<1>5. \A p \in Ends, j \in Ids : Listening(p, j)' => Listening(p, j)
  BY <1>1, <1>2, <1>4, NewListening
<1>6. \A j \in Ids : ~Bearing(wire["client"][1], j)
  <2>1. wire["client"] \in Seq(Frames) /\ wire["client"] # <<>>
    BY <1>1, <1>2 DEF Consumed, Shapes
  <2>2. wire["client"][1] = Head(wire["client"])
    BY <2>1, HeadItem
  <2> QED BY <1>1, <2>2 DEF Bearing
<1> QED BY <1>1, <1>2, <1>3, <1>5, <1>6, ConsumeOffsets

LEMMA SkipOffsets ==
  ASSUME Shapes, Chains, OffsetsAgree, NEW e \in Ends, ReceiveRetired(e)
  PROVE  Chains' /\ OffsetsAgree'
<1> DEFINE q == Other(e)
           f == Head(wire[q])
<1>1. /\ Arriving(e) /\ Consume(e) /\ f.stream \notin streams[e] /\ f.stream <= highest[e]
      /\ UNCHANGED <<streams, st, highest>>
  BY DEF ReceiveRetired, pvars
<1>2. Consumed(e) /\ q \in Ends
  BY <1>1, ConsumeForm, EndsPair
<1>3. \A p \in Ends, j \in Ids : Keeps(p, j) /\ Expects(p, j)
  BY <1>1, KeepsSame
<1>4. \A p \in Ends, j \in Ids : Listening(p, j)' => Listening(p, j)
  BY <1>1 DEF Listening
<1>5. \A j \in Ids : Listening(e, j) => ~Bearing(wire[q][1], j)
  <2> SUFFICES ASSUME NEW j \in Ids, Listening(e, j) PROVE ~Bearing(wire[q][1], j)
    OBVIOUS
  <2>1. highest[e] \in Nat /\ j \in Nat
    BY HighestIsNat, IdIsNat
  <2>2. j # f.stream
    BY <1>1, <2>1 DEF Listening
  <2>3. wire[q] \in Seq(Frames) /\ wire[q] # <<>>
    BY <1>2 DEF Consumed, Shapes
  <2>4. wire[q][1] = f
    BY <2>3, HeadItem
  <2> QED BY <2>2, <2>4 DEF Bearing
<1> QED BY <1>2, <1>3, <1>4, <1>5, ConsumeOffsets

LEMMA FrameOffsets ==
  ASSUME Shapes, Chains, OffsetsAgree, NEW e \in Ends, ReceiveFrame(e)
  PROVE  Chains' /\ OffsetsAgree'
<1> DEFINE q == Other(e)
           f == Head(wire[q])
           i == f.stream
<1>1. /\ Consumed(e) /\ f \in Frames /\ i \in Ids /\ i \in streams[e] /\ Moved(e, i)
      /\ Gets(e, st[e][i], st'[e][i], f)
      /\ RemoveStream(e, i, cursor[e]) \/ UNCHANGED <<streams, order, cursor>>
  BY ReceiveFrameStream
<1>2. q \in Ends /\ q # e
  BY EndsPair
<1>3. highest' = highest
  BY Zenon DEF ReceiveFrame
<1>4. \A p \in Ends, j \in Ids : p # e \/ j # i => Keeps(p, j) /\ Expects(p, j)
  BY <1>1, KeepsSame DEF Moved
<1>5. Keeps(e, i)
  BY <1>1, KeepsOut DEF Gets
<1>6. \A p \in Ends, j \in Ids : Keeps(p, j)
  BY <1>4, <1>5
<1>7. \A p \in Ends, j \in Ids : Listening(p, j)' => Listening(p, j)
  BY <1>1, <1>3, StreamsShrink, SameListening
<1>8. wire[q][1] = f
  <2>1. wire[q] \in Seq(Frames) /\ wire[q] # <<>>
    BY <1>1, <1>2 DEF Consumed, Shapes
  <2> QED BY <2>1, HeadItem
<1>9. IF Bearing(f, i) THEN st'[e][i].nextIn = AfterFrame(f) ELSE Expects(e, i)
  <2> DEFINE s == st[e][i]
             t == st'[e][i]
  <2>1. CASE GetsData(s, t, f)
    BY <2>1 DEF GetsData, Bearing, AfterFrame
  <2>2. CASE GetsFin(s, t, f)
    BY <2>2 DEF GetsFin, Bearing, AfterFrame
  <2>3. CASE GetsCredit(e, s, t, f) \/ GetsOpened(e, s, t, f) \/ GetsReset(s, t, f)
    BY <2>3 DEF GetsCredit, GetsOpened, GetsReset, Bearing, Expects, SameIn
  <2> QED BY <1>1, <2>1, <2>2, <2>3 DEF Gets
<1>10. ASSUME NEW j \in Ids
       PROVE  IF Bearing(f, j) THEN st'[e][j].nextIn = AfterFrame(f) ELSE Expects(e, j)
  <2>1. CASE j = i
    BY <1>9, <2>1
  <2>2. CASE j # i
    BY <1>4, <2>2 DEF Bearing
  <2> QED BY <2>1, <2>2
<1>11. \A j \in Ids : Expects(q, j)
  BY <1>2, <1>4
<1> HIDE DEF q, f, i
<1>12. \A j \in Ids : Listening(e, j) =>
         IF Bearing(wire[Other(e)][1], j) THEN st'[e][j].nextIn = AfterFrame(wire[Other(e)][1])
         ELSE Expects(e, j)
  BY <1>8, <1>10 DEF q
<1> QED BY <1>1, <1>6, <1>7, <1>11, <1>12, ConsumeOffsets DEF q
LEMMA TakeOffsets ==
  ASSUME Shapes, Shapes', Scheduling, Orderly, Chains, OffsetsAgree, NEW e \in Ends, Take(e)
  PROVE  Chains' /\ OffsetsAgree'
<1>1. PICK c \in Nat, j \in Ids : \E a, m : Turn(e, c, j, a, m)
  BY TakeForm
<1>2. PICK a, m : Turn(e, c, j, a, m)
  BY <1>1
<1> DEFINE s == st[e][j]
           t == st'[e][j]
<1>3. highest' = highest
  BY Zenon DEF Take
<1>4. s \in StreamRecords /\ Ordered(s) /\ Chained(s)
  BY OneStream DEF Orderly, Chains
<1>5. /\ Takes(j, s, a, m, room[e] - FrameHeader, carrier[e] = "controls") /\ Moved(e, j)
      /\ (t = a \/ t = ClosedStream(a)) /\ wire'[Other(e)] = wire[Other(e)]
      /\ (RemoveStream(e, j, c + 1) \/ UNCHANGED streams)
  BY <1>2 DEF Turn
<1>6. Advances(j, s, a, m) /\ a \in StreamRecords /\ SameIn(s, a)
  BY <1>4, <1>5, TakesChain DEF Takes
<1>7. SameOut(a, t) /\ SameIn(a, t)
  <2>1. SameOut(a, a) /\ SameIn(a, a)
    BY DEF SameOut, SameIn
  <2> QED BY <1>5, <1>6, <2>1, ClosedStreamKeeps
<1>8. Chained(t) /\ Offset(t) = Offset(a) /\ t.nextIn = s.nextIn
  BY <1>6, <1>7, SameChain DEF Advances, SameOut, SameIn
<1>9. \A p \in Ends, i \in Ids : p # e \/ i # j => Keeps(p, i) /\ Expects(p, i)
  BY <1>5, KeepsSame DEF Moved
<1>10. \A p \in Ends, i \in Ids : Expects(p, i)
  BY <1>8, <1>9 DEF Expects
<1>11. \A p \in Ends, i \in Ids : Listening(p, i)' => Listening(p, i)
  BY <1>3, <1>5, StreamsShrink, SameListening
<1>12. CASE m = <<>> /\ wire' = wire
  <2>1. Keeps(e, j)
    BY <1>6, <1>8, <1>12 DEF Advances, Keeps
  <2> QED BY <1>9, <1>10, <1>11, <1>12, <2>1, SteadyStep
<1>13. ASSUME NEW f \in Frames, m = <<f>>, f.stream = j, wire'[e] = Append(wire[e], f)
       PROVE  Chains' /\ OffsetsAgree'
  <2>1. IF Bearing(f, j) THEN f.sequence = Offset(s) /\ Offset(t) = AfterFrame(f) ELSE Offset(t) = Offset(s)
    BY <1>6, <1>8, <1>13 DEF Advances
  <2>2. Chains'
    <3> SUFFICES ASSUME NEW p \in Ends, NEW i \in Ids PROVE Chained(st'[p][i])
      BY DEF Chains, Chained, AfterChunk, FirstQueued
    <3> QED BY <1>8, <1>9 DEF Chains, Keeps
  <2>3. OffsetsAgree'
    <3> SUFFICES ASSUME NEW p \in Ends, NEW i \in Ids, Listening(Other(p), i)'
                 PROVE  Linked(wire'[p], i, st'[Other(p)][i].nextIn, Offset(st'[p][i]))
      BY LinkedNext
    <3>1. Other(p) \in Ends /\ (p = e \/ p = Other(e))
      BY EndsPair
    <3>2. /\ Linked(wire[p], i, st[Other(p)][i].nextIn, Offset(st[p][i]))
          /\ st'[Other(p)][i].nextIn = st[Other(p)][i].nextIn
      BY <1>10, <1>11, <3>1 DEF OffsetsAgree, Expects
    <3>3. CASE p = Other(e)
      BY <1>5, <1>9, <3>1, <3>2, <3>3, EndsPair DEF Keeps
    <3>4. CASE p = e
      <4>1. wire[e] \in Seq(Frames) /\ Offset(st'[e][i]) \in Nat
        BY OffsetIsNat DEF Shapes, StreamTables
      <4>2. IF Bearing(f, i) THEN f.sequence = Offset(st[e][i]) /\ Offset(st'[e][i]) = AfterFrame(f)
            ELSE Offset(st'[e][i]) = Offset(st[e][i])
        <5>1. CASE i = j
          BY <2>1, <5>1
        <5>2. CASE i # j
          BY <1>9, <1>13, <5>2 DEF Keeps, Bearing
        <5> QED BY <5>1, <5>2
      <4>3. Linked(Append(wire[e], f), i, st[Other(e)][i].nextIn, Offset(st'[e][i]))
        BY <3>2, <3>4, <4>1, <4>2, LinkedAppend
      <4> QED BY <1>13, <3>2, <3>4, <4>3
    <3> QED BY <3>1, <3>3, <3>4
  <2> QED BY <2>2, <2>3
<1>14. \/ m = <<>> /\ wire' = wire
       \/ \E f \in Frames : m = <<f>> /\ f.stream = j /\ wire'[e] = Append(wire[e], f)
  BY <1>2, TurnWire
<1> QED BY <1>12, <1>13, <1>14

LEMMA OffsetsStep ==
  ASSUME Shapes, Shapes', Scheduling, Fresh, Orderly, Chains, OffsetsAgree, [Next]_vars
  PROVE  Chains' /\ OffsetsAgree'
<1> USE DEF pvars, cvars
<1> DEFINE Goal == Chains' /\ OffsetsAgree'
<1>1. ASSUME NEW i \in Ids, Open(i) PROVE Goal
  <2>1. /\ "client" \in Ends /\ Moved("client", i) /\ SameOut(NoStream, st'["client"][i])
        /\ SameIn(NoStream, st'["client"][i])
    BY <1>1, OpenStream DEF Ends
  <2>2. /\ i = highest["client"] + 1 /\ UNCHANGED wire
        /\ streams' = [streams EXCEPT !["client"] = @ \cup {i}]
        /\ highest' = [highest EXCEPT !["client"] = i]
    BY <1>1 DEF Open, AddStream
  <2>3. i > highest["client"]
    BY <2>1, <2>2, HighestIsNat
  <2>4. \A p \in Ends, j \in Ids : Keeps(p, j) /\ Expects(p, j)
    BY <2>1, <2>3, NewKeeps
  <2>5. \A p \in Ends, j \in Ids : Listening(p, j)' => Listening(p, j)
    BY <2>1, <2>2, <2>3, NewListening
  <2> QED BY <2>2, <2>4, <2>5, SteadyStep
<1>2. ASSUME NEW p \in Ends, NEW i \in Ids, LocalAction(p, i) \/ WriteFin(p, i),
             Moved(p, i), wire' = wire, \A e \in Ends, j \in Ids : Listening(e, j)' => Listening(e, j)
      PROVE Goal
  <2>1. Keeps(p, i) /\ Expects(p, i)
    BY <1>2, LocalChain DEF Keeps, Expects, Chains
  <2>2. \A e \in Ends, j \in Ids : Keeps(e, j) /\ Expects(e, j)
    BY <1>2, <2>1, KeepsSame DEF Moved
  <2> QED BY <1>2, <2>2, SteadyStep
<1>3. ASSUME NEW p \in Ends, NEW i \in Ids, LocalAction(p, i) PROVE Goal
  <2>1. LocalStep(p, i)
    BY <1>3, LocalActionIsLocal
  <2>2. UNCHANGED <<wire, streams, highest>> /\ Moved(p, i)
    BY <2>1 DEF LocalStep
  <2>3. \A e \in Ends, j \in Ids : Listening(e, j)' => Listening(e, j)
    BY <2>2 DEF Listening
  <2> QED BY <1>2, <1>3, <2>2, <2>3
<1>4. ASSUME NEW p \in Ends, NEW i \in Ids, WriteFin(p, i) PROVE Goal
  <2>1. Moved(p, i) /\ (RemoveStream(p, i, cursor[p]) \/ UNCHANGED <<streams, order, cursor>>)
    BY <1>4, WriteFinStream
  <2>2. UNCHANGED <<wire, highest>>
    BY <1>4, Zenon DEF WriteFin
  <2>3. \A e \in Ends, j \in Ids : Listening(e, j)' => Listening(e, j)
    BY <2>1, <2>2, StreamsShrink, SameListening
  <2> QED BY <1>2, <1>4, <2>1, <2>2, <2>3
<1>5. ASSUME NEW p \in Ends, ReceiveOpen(p) PROVE Goal
  BY <1>5, AcceptOffsets
<1>6. ASSUME NEW p \in Ends, ReceiveFrame(p) PROVE Goal
  BY <1>6, FrameOffsets
<1>7. ASSUME NEW p \in Ends, ReceiveRetired(p) PROVE Goal
  BY <1>7, SkipOffsets
<1>8. ASSUME NEW p \in Ends, Take(p) PROVE Goal
  BY <1>8, TakeOffsets
<1>9. ASSUME NEW p \in Ends, Close(p) PROVE Goal
  <2>1. UNCHANGED <<wire, streams, highest>>
    BY <1>9 DEF Close
  <2>2. \A e \in Ends, j \in Ids : Keeps(e, j) /\ Expects(e, j)
    <3> TAKE e \in Ends, j \in Ids
    <3>1. st'[e][j] = st[e][j] \/ st'[e][j] = ClosedStream(st[e][j])
      BY <1>9, CloseStreams
    <3>2. CASE st'[e][j] = st[e][j]
      BY <3>2, KeepsSame
    <3>3. CASE st'[e][j] = ClosedStream(st[e][j])
      <4>1. SameOut(st[e][j], st'[e][j]) /\ SameIn(st[e][j], st'[e][j])
        BY <3>3, OneStream, ClosedStreamKeeps
      <4> QED BY <4>1, KeepsOut DEF SameIn, Expects
    <3> QED BY <3>1, <3>2, <3>3
  <2>3. \A e \in Ends, j \in Ids : Listening(e, j)' => Listening(e, j)
    BY <2>1 DEF Listening
  <2> QED BY <2>1, <2>2, <2>3, SteadyStep
<1>10. ASSUME UNCHANGED <<st, wire, streams, highest>> PROVE Goal
  <2>1. \A e \in Ends, j \in Ids : Keeps(e, j) /\ Expects(e, j)
    BY <1>10, KeepsSame
  <2>2. \A e \in Ends, j \in Ids : Listening(e, j)' => Listening(e, j)
    BY <1>10 DEF Listening
  <2> QED BY <1>10, <2>1, <2>2, SteadyStep
<1>11. ASSUME NEW p \in Ends, CarrierCheck(p) \/ TakeEnd(p) PROVE Goal
  <2>1. UNCHANGED <<st, wire, streams, highest>>
    BY <1>11 DEF CarrierCheck, TakeEnd
  <2> QED BY <1>10, <2>1
<1>12. CASE UNCHANGED vars
  BY <1>10, <1>12 DEF vars
<1> QED
  BY <1>1, <1>3, <1>4, <1>5, <1>6, <1>7, <1>8, <1>9, <1>11, <1>12, NextCases

LEMMA OffsetsInit == ASSUME Init PROVE Chains /\ OffsetsAgree
<1>1. /\ \A p \in Ends : wire[p] = <<>>
      /\ \A p \in Ends, i \in Ids : st[p][i] = NoStream
  BY DEF Init
<1>2. /\ NoStream.output = <<>> /\ NoStream.pending = <<>> /\ NoStream.nextIn = 0 /\ NoStream.nextOut = 0
  BY DEF NoStream
<1>3. Chained(NoStream) /\ Offset(NoStream) = 0
  BY <1>2 DEF Chained, Offset, FirstQueued
<1>4. ASSUME NEW i \in Ids PROVE Linked(<<>>, i, 0, 0)
  <2> DEFINE g == [k \in 0..0 |-> 0]
  <2>1. Len(<<>>) = 0 /\ g \in [0..0 -> Nat] /\ g[0] = 0
    OBVIOUS
  <2>2. Path(<<>>, i, g)
    BY <2>1 DEF Path
  <2> HIDE DEF g
  <2> QED BY <2>1, <2>2 DEF Linked
<1>5. OffsetsAgree
  BY <1>1, <1>2, <1>3, <1>4, EndsPair DEF OffsetsAgree
<1> QED BY <1>1, <1>3, <1>5 DEF Chains
-----------------------------------------------------------------------------
(* Who opens. *)

\* Only the client opens streams and only the server acknowledges them.
Roles ==
  /\ \A i \in Ids : ~st["server"][i].open /\ ~st["client"][i].ack
  /\ \A k \in 1..Len(wire["server"]) : wire["server"][k].kind # "OPEN"
  /\ \A k \in 1..Len(wire["client"]) : wire["client"][k].kind # "OPENED"

\* No step but Open asks for an OPEN, none at the client for an OPENED.
Asks(p, i) ==
  /\ st'[p][i].open => st[p][i].open
  /\ p = "client" /\ st'[p][i].ack => st[p][i].ack

LEMMA AsksSame ==
  ASSUME NEW p, NEW i, st'[p][i] = st[p][i] \/ SameControl(st[p][i], st'[p][i]) PROVE Asks(p, i)
  BY DEF Asks, SameControl

LEMMA LocalAsks ==
  ASSUME Shapes, NEW p \in Ends, NEW i \in Ids, LocalAction(p, i) \/ WriteFin(p, i)
  PROVE  /\ st'[p][i].open = st[p][i].open /\ Asks(p, i)
         /\ p = "client" => st'[p][i].late = st[p][i].late
<1> DEFINE s == st[p][i]
           t == st'[p][i]
<1>1. ASSUME SameControl(s, t) PROVE t.open = s.open /\ t.late = s.late /\ Asks(p, i)
  BY <1>1, AsksSame DEF SameControl
<1>2. CASE p = "server" /\ \E ok \in BOOLEAN : Dialed(i, ok)
  BY <1>2, DialedStream DEF Asks
<1>3. CASE \E n \in 1..StreamChunk : ReadData(p, i, n)
  BY <1>1, <1>3, ReadDataStream
<1>4. CASE ReadQueue(p, i)
  BY <1>1, <1>4, ReadQueueStream
<1>5. CASE ReadDrop(p, i)
  BY <1>1, <1>5, ReadDropStream
<1>6. CASE ReadEOF(p, i)
  BY <1>1, <1>6, ReadEOFStream
<1>7. CASE ReadError(p, i)
  BY <1>1, <1>7, ReadErrorStream
<1>8. CASE WritePop(p, i)
  BY <1>1, <1>8, WritePopStream
<1>9. CASE WriteDone(p, i)
  BY <1>1, <1>9, WriteDoneStream
<1>10. CASE WriteError(p, i)
  BY <1>1, <1>10, WriteErrorStream
<1>11. CASE WriteFin(p, i)
  BY <1>1, <1>11, WriteFinStream
<1> QED
  BY <1>2, <1>3, <1>4, <1>5, <1>6, <1>7, <1>8, <1>9, <1>10, <1>11 DEF LocalAction

\* A stream whose OPEN has not left: take resets it, opens it or passes it over.
Opening(i, s, a, m) ==
  \/ s.reset /\ m = <<Frame("RESET", i, 0, 0)>> /\ a.open /\ a.late = s.late
  \/ ~s.reset /\ m = <<Frame("OPEN", i, 0, OpenBody[i])>> /\ ~a.open /\ a.late = s.late
  \/ ~s.reset /\ m = <<>> /\ a.open /\ a.late

\* What take sends tells what the stream was asked to send; an OPEN goes
\* before everything but a RESET.
Asked(i, s, a, m) ==
  /\ a.open => s.open
  /\ a.ack => s.ack
  /\ \A f : m = <<f>> => (f.kind = "OPEN" => s.open /\ ~a.open) /\ (f.kind = "OPENED" => s.ack)
  /\ s.open => Opening(i, s, a, m)
  /\ ~s.open => a.late = s.late

LEMMA TakesAsked ==
  ASSUME NEW i, NEW s \in StreamRecords, NEW a, NEW m, NEW space, NEW only,
         Takes(i, s, a, m, space, only)
  PROVE  Asked(i, s, a, m)
<1> DEFINE q == Pulled(s)
<1>1. CASE TakesReset(i, s, a, m)
  <2>1. a = s /\ s.reset /\ m = <<Frame("RESET", i, 0, 0)>>
    BY <1>1 DEF TakesReset
  <2>2. \A f : m = <<f>> => f.kind = "RESET"
    BY <2>1 DEF Frame
  <2> QED BY <2>1, <2>2 DEF Asked, Opening
<1>2. CASE TakesOpen(i, s, a, m)
  <2>1. /\ s.open /\ ~s.reset /\ a.open = FALSE /\ a.late = s.late /\ a.ack = s.ack
        /\ m = <<Frame("OPEN", i, 0, OpenBody[i])>>
    BY <1>2 DEF TakesOpen
  <2>2. \A f : m = <<f>> => f.kind = "OPEN"
    BY <2>1 DEF Frame
  <2> QED BY <2>1, <2>2 DEF Asked, Opening
<1>6. CASE TakesLate(i, s, a, m, space)
  <2>1. s.open /\ ~s.reset /\ m = <<>> /\ a.open = TRUE /\ a.late = TRUE /\ a.ack = s.ack
    BY <1>6 DEF TakesLate
  <2>2. \A f : m # <<f>>
    BY <2>1
  <2> QED BY <2>1, <2>2 DEF Asked, Opening
<1>3. CASE TakesOpened(i, s, a, m)
  <2>1. ~s.open /\ s.ack /\ a.open = s.open /\ a.late = s.late /\ a.ack = FALSE /\ m = <<Frame("OPENED", i, 0, 0)>>
    BY <1>3 DEF TakesOpened
  <2>2. \A f : m = <<f>> => f.kind = "OPENED"
    BY <2>1 DEF Frame
  <2> QED BY <2>1, <2>2 DEF Asked
<1>4. CASE TakesCredit(i, s, a, m)
  <2>1. ~s.open /\ a.open = s.open /\ a.late = s.late /\ a.ack = s.ack /\ m = <<Frame("CREDIT", i, 0, s.grant)>>
    BY <1>4 DEF TakesCredit, SameControl
  <2>2. \A f : m = <<f>> => f.kind = "CREDIT"
    BY <2>1 DEF Frame
  <2> QED BY <2>1, <2>2 DEF Asked
<1>5. CASE TakesQueue(s, q, a) /\ (\/ TakesNone(s, q, a, m, space, only)
                                   \/ TakesFin(i, s, q, a, m) \/ TakesData(i, s, q, a, m))
  <2> HIDE DEF q
  <2>1. ~s.open /\ a.open = s.open /\ a.late = s.late /\ a.ack = s.ack
    BY <1>5 DEF TakesQueue, SameControl
  <2>2. \A f : m = <<f>> => f.kind \in {"DATA", "FIN"}
    <3>1. CASE TakesNone(s, q, a, m, space, only)
      BY <3>1 DEF TakesNone
    <3>2. CASE TakesFin(i, s, q, a, m)
      BY <3>2 DEF TakesFin, Frame
    <3>3. CASE TakesData(i, s, q, a, m)
      BY <3>3 DEF TakesData, Frame
    <3> QED BY <1>5, <3>1, <3>2, <3>3
  <2> QED BY <2>1, <2>2 DEF Asked
<1> QED BY <1>1, <1>2, <1>3, <1>4, <1>5, <1>6 DEF Takes

LEMMA TurnAsked ==
  ASSUME Shapes, NEW e \in Ends, NEW c, NEW j \in Ids, NEW a, NEW m, Turn(e, c, j, a, m)
  PROVE  LET s == st[e][j]
             t == st'[e][j] IN
         /\ \A p \in Ends, i \in Ids : Asks(p, i)
         /\ \A f : m = <<f>> => (f.kind = "OPEN" => s.open /\ ~t.open) /\ (f.kind = "OPENED" => s.ack)
         /\ s.open => Opening(j, s, t, m)
         /\ ~s.open => t.late = s.late
         /\ t.open = a.open
<1> DEFINE s == st[e][j]
           t == st'[e][j]
<1>1. s \in StreamRecords
  BY OneStream
<1>2. /\ Takes(j, s, a, m, room[e] - FrameHeader, carrier[e] = "controls") /\ Moved(e, j)
      /\ (t = a \/ t = ClosedStream(a))
  BY DEF Turn
<1>3. t.open = a.open /\ t.late = a.late /\ t.ack = a.ack
  <2>1. a \in StreamRecords
    BY <1>2 DEF Takes
  <2> HIDE DEF t
  <2>2. CASE t = a
    BY <2>2
  <2>3. CASE t = ClosedStream(a)
    <3>1. SameControl(a, ClosedStream(a))
      BY <2>1, ClosedStreamKeeps
    <3> QED BY <2>3, <3>1 DEF SameControl
  <2> QED BY <1>2, <2>2, <2>3
<1>4. \A p \in Ends, i \in Ids : p # e \/ i # j => Asks(p, i)
  BY <1>2, AsksSame DEF Moved
<1> HIDE DEF s, t
<1>0. Asked(j, s, a, m)
  BY <1>1, <1>2, TakesAsked
<1>5. Asks(e, j)
  BY <1>0, <1>3 DEF Asks, Asked, s, t
<1>6. /\ \A f : m = <<f>> => (f.kind = "OPEN" => s.open /\ ~t.open) /\ (f.kind = "OPENED" => s.ack)
      /\ s.open => Opening(j, s, t, m)
      /\ ~s.open => t.late = s.late
  BY <1>0, <1>3 DEF Asked, Opening
<1> QED BY <1>3, <1>4, <1>5, <1>6 DEF s, t

LEMMA AppendItems ==
  ASSUME NEW w \in Seq(Frames), NEW f \in Frames, NEW v, v = Append(w, f)
  PROVE  /\ Len(w) \in Nat /\ Len(v) = Len(w) + 1 /\ v[Len(w) + 1] = f
         /\ \A k \in 1..Len(w) : v[k] = w[k] /\ k \in 1..Len(v)
         /\ \A k \in 1..Len(v) : k \in 1..Len(w) \/ k = Len(w) + 1
         /\ Len(w) + 1 \in 1..Len(v)
<1>1. /\ Len(w) \in Nat /\ Len(v) = Len(w) + 1 /\ v[Len(w) + 1] = f
      /\ \A k \in 1..Len(w) : v[k] = w[k]
  OBVIOUS
<1> QED BY <1>1

LEMMA RolesKept ==
  ASSUME Roles, \A p \in Ends : Drains(p), \A p \in Ends, i \in Ids : Asks(p, i)
  PROVE  Roles'
<1>1. "server" \in Ends /\ "client" \in Ends
  BY DEF Ends
<1>2. \A i \in Ids : ~st'["server"][i].open /\ ~st'["client"][i].ack
  BY <1>1 DEF Roles, Asks
<1>3. \A k \in 1..Len(wire'["server"]) : wire'["server"][k].kind # "OPEN"
  BY <1>1 DEF Roles, Drains
<1>4. \A k \in 1..Len(wire'["client"]) : wire'["client"][k].kind # "OPENED"
  BY <1>1 DEF Roles, Drains
<1> QED BY <1>2, <1>3, <1>4 DEF Roles

LEMMA TakeRoles ==
  ASSUME Shapes, Scheduling, Roles, NEW e \in Ends, Take(e)
  PROVE  Roles'
<1>1. PICK c \in Nat, j \in Ids : \E a, m : Turn(e, c, j, a, m)
  BY TakeForm
<1>2. PICK a, m : Turn(e, c, j, a, m)
  BY <1>1
<1>3. /\ \A p \in Ends, i \in Ids : Asks(p, i)
      /\ \A f : m = <<f>> => (f.kind = "OPEN" => st[e][j].open) /\ (f.kind = "OPENED" => st[e][j].ack)
  BY <1>2, TurnAsked
<1>4. wire'[Other(e)] = wire[Other(e)]
  BY <1>2 DEF Turn
<1>5. CASE m = <<>> /\ wire' = wire
  <2>1. \A p \in Ends : Drains(p)
    BY <1>5, DrainsKept DEF Shapes
  <2> QED BY <1>3, <2>1, RolesKept
<1>6. ASSUME NEW f \in Frames, m = <<f>>, wire'[e] = Append(wire[e], f) PROVE Roles'
  <2>0. "server" \in Ends /\ "client" \in Ends /\ Other("server") = "client" /\ Other("client") = "server"
    BY DEF Ends, Other
  <2>1. wire[e] \in Seq(Frames)
    BY DEF Shapes
  <2>2. \A k \in 1..Len(wire'[e]) : (k \in 1..Len(wire[e]) /\ wire'[e][k] = wire[e][k]) \/ wire'[e][k] = f
    BY <1>6, <2>1, AppendItems
  <2>3. \A i \in Ids : ~st'["server"][i].open /\ ~st'["client"][i].ack
    BY <1>3, <2>0 DEF Roles, Asks
  <2>4. \A k \in 1..Len(wire'["server"]) : wire'["server"][k].kind # "OPEN"
    <3>1. CASE e = "server"
      BY <1>3, <1>6, <2>2, <3>1 DEF Roles
    <3>2. CASE e = "client"
      BY <1>4, <2>0, <3>2 DEF Roles
    <3> QED BY <3>1, <3>2 DEF Ends
  <2>5. \A k \in 1..Len(wire'["client"]) : wire'["client"][k].kind # "OPENED"
    <3>1. CASE e = "client"
      BY <1>3, <1>6, <2>2, <3>1 DEF Roles
    <3>2. CASE e = "server"
      BY <1>4, <2>0, <3>2 DEF Roles
    <3> QED BY <3>1, <3>2 DEF Ends
  <2> QED BY <2>3, <2>4, <2>5 DEF Roles
<1>7. \/ m = <<>> /\ wire' = wire
      \/ \E f \in Frames : m = <<f>> /\ f.stream = j /\ wire'[e] = Append(wire[e], f)
  BY <1>2, TurnWire
<1> QED BY <1>5, <1>6, <1>7

LEMMA RolesStep ==
  ASSUME Shapes, Scheduling, Roles, [Next]_vars
  PROVE  Roles'
<1> USE DEF pvars, cvars
<1>0. "server" \in Ends /\ "client" \in Ends /\ "server" # "client"
  BY DEF Ends
<1>1. ASSUME wire' = wire PROVE \A p \in Ends : Drains(p)
  BY <1>1, DrainsKept DEF Shapes
<1>2. ASSUME NEW i \in Ids, Open(i) PROVE Roles'
  <2>1. Moved("client", i) /\ st'["client"][i].ack = FALSE /\ wire' = wire
    BY <1>2, OpenStream DEF Open
  <2>2. \A j \in Ids : ~st'["server"][j].open /\ ~st'["client"][j].ack
    BY <1>0, <2>1 DEF Roles, Moved
  <2> QED BY <2>1, <2>2 DEF Roles
<1>3. ASSUME NEW p \in Ends, NEW i \in Ids, LocalAction(p, i) PROVE Roles'
  <2>1. LocalStep(p, i)
    BY <1>3, LocalActionIsLocal
  <2>2. wire' = wire /\ Moved(p, i)
    BY <2>1 DEF LocalStep
  <2>3. \A e \in Ends, j \in Ids : Asks(e, j)
    BY <1>3, <2>2, LocalAsks, AsksSame DEF Moved
  <2> QED BY <1>1, <2>2, <2>3, RolesKept
<1>4. ASSUME NEW p \in Ends, NEW i \in Ids, WriteFin(p, i) PROVE Roles'
  <2>1. wire' = wire
    BY <1>4, Zenon DEF WriteFin
  <2>2. Moved(p, i)
    BY <1>4, WriteFinStream
  <2>3. \A e \in Ends, j \in Ids : Asks(e, j)
    BY <1>4, <2>2, LocalAsks, AsksSame DEF Moved
  <2> QED BY <1>1, <2>1, <2>3, RolesKept
<1>5. ASSUME NEW p \in Ends, ReceiveOpen(p) PROVE Roles'
  <2> DEFINE i == Head(wire["client"]).stream
  <2>1. /\ Consumed("server") /\ i \in Ids /\ Moved("server", i)
        /\ st'["server"][i].open = FALSE /\ st'["server"][i].ack = FALSE
    BY <1>5, ReceiveOpenStream
  <2>2. \A e \in Ends, j \in Ids : Asks(e, j)
    <3> TAKE e \in Ends, j \in Ids
    <3>1. CASE e = "server" /\ j = i
      BY <2>1, <3>1 DEF Asks
    <3>2. CASE e # "server" \/ j # i
      BY <2>1, <3>2, AsksSame DEF Moved
    <3> QED BY <3>1, <3>2
  <2> QED BY <1>0, <2>1, <2>2, DrainsConsumed, RolesKept
<1>6. ASSUME NEW p \in Ends, ReceiveFrame(p) PROVE Roles'
  <2> DEFINE i == Head(wire[Other(p)]).stream
  <2>1. Consumed(p) /\ i \in Ids /\ Moved(p, i) /\ SameControl(st[p][i], st'[p][i])
    BY <1>6, ReceiveFrameStream DEF Gets
  <2>2. \A e \in Ends, j \in Ids : Asks(e, j)
    BY <2>1, AsksSame DEF Moved
  <2> QED BY <2>1, <2>2, DrainsConsumed, RolesKept
<1>7. ASSUME NEW p \in Ends, ReceiveRetired(p) PROVE Roles'
  <2>1. Arriving(p) /\ Consume(p) /\ st' = st
    BY <1>7 DEF ReceiveRetired
  <2>2. \A e \in Ends, j \in Ids : Asks(e, j)
    BY <2>1, AsksSame
  <2> QED BY <2>1, <2>2, ConsumeForm, DrainsConsumed, RolesKept
<1>8. ASSUME NEW p \in Ends, Take(p) PROVE Roles'
  BY <1>8, TakeRoles
<1>9. ASSUME NEW p \in Ends, Close(p) PROVE Roles'
  <2>1. wire' = wire
    BY <1>9 DEF Close
  <2>2. \A e \in Ends, j \in Ids : Asks(e, j)
    <3> TAKE e \in Ends, j \in Ids
    <3>1. st'[e][j] = st[e][j] \/ st'[e][j] = ClosedStream(st[e][j])
      BY <1>9, CloseStreams
    <3> QED BY <3>1, OneStream, ClosedStreamKeeps, AsksSame
  <2> QED BY <1>1, <2>1, <2>2, RolesKept
<1>10. ASSUME NEW p \in Ends, CarrierCheck(p) \/ TakeEnd(p) PROVE Roles'
  <2>1. UNCHANGED <<st, wire>>
    BY <1>10 DEF CarrierCheck, TakeEnd
  <2> QED BY <2>1 DEF Roles
<1>11. CASE UNCHANGED vars
  BY <1>11 DEF vars, Roles
<1> QED
  BY <1>2, <1>3, <1>4, <1>5, <1>6, <1>7, <1>8, <1>9, <1>10, <1>11, NextCases

LEMMA RolesInit == ASSUME Init PROVE Roles
<1>1. /\ wire["client"] = <<>> /\ wire["server"] = <<>>
      /\ \A i \in Ids : st["client"][i] = NoStream /\ st["server"][i] = NoStream
  BY DEF Init, Ends
<1>2. NoStream.open = FALSE /\ NoStream.ack = FALSE
  BY DEF NoStream
<1> QED BY <1>1, <1>2 DEF Roles
-----------------------------------------------------------------------------
(* What is on the way fits. *)

\* The bytes the receiver of a stream still takes.
Limit(p, i) == IF i \in streams[p] THEN st[p][i].budget ELSE Window(p)

\* The data on its way to a stream fits its receive budget, the credit on its
\* way its window. CreditConserved says more, but only while both ends have the
\* stream; these hold until the last frame has arrived.
DataFits ==
  \A p \in Ends, i \in Ids : Listening(p, i) => Carried(wire[Other(p)], "DATA", i) <= Limit(p, i)
CreditFits ==
  \A p \in Ends, i \in Ids : i \in streams[p] =>
    st[p][i].credit + Carried(wire[Other(p)], "CREDIT", i) <= Window(Other(p))

LEMMA FitTypes ==
  ASSUME Shapes, NEW p \in Ends, NEW i \in Ids
  PROVE  /\ Limit(p, i) \in Nat /\ st[p][i].credit \in Nat /\ Window(p) \in Nat
         /\ \A kind : Carried(wire[p], kind, i) \in Nat
<1>1. st[p][i] \in StreamRecords /\ wire[p] \in Seq(Frames)
  BY OneStream DEF Shapes
<1>2. st[p][i].budget \in Nat /\ st[p][i].credit \in Nat /\ Window(p) \in Nat
  BY <1>1, Amounts, WindowIsNat
<1> QED BY <1>1, <1>2, CarriedIsNat DEF Limit

LEMMA FitTypesNext ==
  ASSUME Shapes', NEW p \in Ends, NEW i \in Ids
  PROVE  /\ Limit(p, i)' \in Nat /\ st'[p][i].credit \in Nat
         /\ \A kind : Carried(wire'[p], kind, i) \in Nat
<1>1. st'[p][i] \in StreamRecords /\ wire'[p] \in Seq(Frames)
  BY DEF Shapes, StreamTables
<1>2. st'[p][i].budget \in Nat /\ st'[p][i].credit \in Nat /\ Window(p) \in Nat
  BY <1>1, Amounts, WindowIsNat
<1> QED BY <1>1, <1>2, CarriedIsNat DEF Limit

\* While both ends have the stream, the window bounds all there is.
LEMMA SharedFits ==
  ASSUME Shapes, CreditConserved, NEW p \in Ends, NEW q \in Ends, q = Other(p), NEW i \in Ids, Shared(p, i)
  PROVE  /\ st[p][i].credit + Carried(wire[p], "DATA", i) <= Limit(q, i)
         /\ st[p][i].credit + st[q][i].grant + Carried(wire[q], "CREDIT", i) <= Window(q)
<1> DEFINE r == st[q][i]
           a == st[p][i].credit
           D == Carried(wire[p], "DATA", i)
           C == Carried(wire[q], "CREDIT", i)
           x == r.input
           y == r.writing
           z == r.grant
           b == r.budget
           w == Window(q)
<1>1. /\ a + D + x + y + z + C = w /\ (i \in streams[q] => b + x + y = w)
  BY DEF CreditConserved, InFlight
<1>2. r \in StreamRecords /\ st[p][i] \in StreamRecords
  BY OneStream
<1>3. /\ a \in Nat /\ D \in Nat /\ C \in Nat /\ x \in Nat /\ y \in Nat /\ z \in Nat /\ b \in Nat /\ w \in Nat
  BY <1>2, Amounts, FitTypes
<1>4. Limit(q, i) = IF i \in streams[q] THEN b ELSE w
  BY DEF Limit
<1> HIDE DEF a, D, C, x, y, z, b, w
<1>5. a + D <= w /\ a + z + C <= w /\ (b + x + y = w => a + D <= b)
  BY ONLY <1>1, <1>3
<1> QED BY <1>1, <1>4, <1>5 DEF a, D, C, z, w

\* A step keeps the bounds when nothing on the way grows by more than what it
\* may take up, or when the new bounds hold for another reason.
LEMMA FitsNext ==
  ASSUME Shapes, Shapes', DataFits, CreditFits,
         \A p \in Ends, i \in Ids : Listening(p, i)' =>
           \/ /\ Listening(p, i)
              /\ Limit(p, i) + Carried(wire'[Other(p)], "DATA", i)
                   <= Limit(p, i)' + Carried(wire[Other(p)], "DATA", i)
           \/ Carried(wire'[Other(p)], "DATA", i) <= Limit(p, i)',
         \A p \in Ends, i \in Ids : i \in streams'[p] =>
           \/ /\ i \in streams[p]
              /\ st'[p][i].credit + Carried(wire'[Other(p)], "CREDIT", i)
                   <= st[p][i].credit + Carried(wire[Other(p)], "CREDIT", i)
           \/ st'[p][i].credit + Carried(wire'[Other(p)], "CREDIT", i) <= Window(Other(p))
  PROVE  DataFits' /\ CreditFits'
<1>1. DataFits'
  <2> SUFFICES ASSUME NEW p \in Ends, NEW i \in Ids, Listening(p, i)'
               PROVE  Carried(wire'[Other(p)], "DATA", i) <= Limit(p, i)'
    BY DEF DataFits
  <2> DEFINE l == Limit(p, i)
             ll == Limit(p, i)'
             c == Carried(wire[Other(p)], "DATA", i)
             cc == Carried(wire'[Other(p)], "DATA", i)
  <2>1. l \in Nat /\ ll \in Nat /\ c \in Nat /\ cc \in Nat
    BY FitTypes, FitTypesNext, EndsPair
  <2>2. (Listening(p, i) /\ l + cc <= ll + c) \/ cc <= ll
    OBVIOUS
  <2>3. Listening(p, i) => c <= l
    BY DEF DataFits
  <2> HIDE DEF l, ll, c, cc
  <2>4. cc <= ll
    BY <2>1, <2>2, <2>3
  <2> QED BY <2>4 DEF ll, cc
<1>2. CreditFits'
  <2> SUFFICES ASSUME NEW p \in Ends, NEW i \in Ids, i \in streams'[p]
               PROVE  st'[p][i].credit + Carried(wire'[Other(p)], "CREDIT", i) <= Window(Other(p))
    BY DEF CreditFits
  <2> DEFINE a == st[p][i].credit
             aa == st'[p][i].credit
             c == Carried(wire[Other(p)], "CREDIT", i)
             cc == Carried(wire'[Other(p)], "CREDIT", i)
             w == Window(Other(p))
  <2>1. a \in Nat /\ aa \in Nat /\ c \in Nat /\ cc \in Nat /\ w \in Nat
    BY FitTypes, FitTypesNext, EndsPair
  <2>2. (i \in streams[p] /\ aa + cc <= a + c) \/ aa + cc <= w
    OBVIOUS
  <2>3. i \in streams[p] => a + c <= w
    BY DEF CreditFits
  <2> HIDE DEF a, aa, c, cc, w
  <2>4. aa + cc <= w
    BY <2>1, <2>2, <2>3
  <2> QED BY <2>4 DEF aa, cc, w
<1> QED BY <1>1, <1>2

\* A receiver that keeps its budget, and its stream or nothing.
LEMMA LimitKept ==
  ASSUME Shapes, Shapes', Scheduling, highest' = highest, \A e \in Ends : streams'[e] \subseteq streams[e],
         NEW p \in Ends, NEW i \in Ids, Listening(p, i)'
  PROVE  /\ Listening(p, i)
         /\ st[p][i].budget <= st'[p][i].budget => Limit(p, i) <= Limit(p, i)'
         /\ i \in streams[p] => i \in streams'[p]
<1>1. highest[p] \in Nat /\ i \in Nat
  BY HighestIsNat, IdIsNat
<1>2. Listening(p, i) /\ (i \in streams[p] <=> i \in streams'[p])
  <2>1. CASE i \in streams'[p]
    BY <2>1 DEF Listening
  <2>2. CASE i \notin streams'[p]
    <3>1. i > highest[p]
      BY <2>2 DEF Listening
    <3>2. i \notin streams[p]
      BY <1>1, <3>1 DEF Scheduling, Listed
    <3> QED BY <2>2, <3>1, <3>2 DEF Listening
  <2> QED BY <2>1, <2>2
<1>3. Window(p) \in Nat
  BY WindowIsNat
<1> QED BY <1>2, <1>3 DEF Limit

\* The wires stay and no stream gains credit or loses budget.
LEMMA QuietFits ==
  ASSUME Shapes, Shapes', Scheduling, DataFits, CreditFits, wire' = wire, highest' = highest,
         \A e \in Ends : streams'[e] \subseteq streams[e],
         \A p \in Ends, i \in Ids :
           st'[p][i].credit = st[p][i].credit /\ st[p][i].budget <= st'[p][i].budget
  PROVE  DataFits' /\ CreditFits'
<1>1. ASSUME NEW p \in Ends, NEW i \in Ids, Listening(p, i)'
      PROVE  /\ Listening(p, i)
             /\ Limit(p, i) + Carried(wire'[Other(p)], "DATA", i)
                  <= Limit(p, i)' + Carried(wire[Other(p)], "DATA", i)
  <2> DEFINE c == Carried(wire[Other(p)], "DATA", i)
  <2>1. Listening(p, i) /\ Limit(p, i) <= Limit(p, i)'
    BY <1>1, LimitKept
  <2>2. Limit(p, i) \in Nat /\ Limit(p, i)' \in Nat /\ c \in Nat
    BY FitTypes, FitTypesNext, EndsPair
  <2> HIDE DEF c
  <2>3. Limit(p, i) + c <= Limit(p, i)' + c
    BY <2>1, <2>2
  <2> QED BY <2>1, <2>3 DEF c
<1>2. ASSUME NEW p \in Ends, NEW i \in Ids, i \in streams'[p]
      PROVE  /\ i \in streams[p]
             /\ st'[p][i].credit + Carried(wire'[Other(p)], "CREDIT", i)
                  <= st[p][i].credit + Carried(wire[Other(p)], "CREDIT", i)
  <2> DEFINE c == Carried(wire[Other(p)], "CREDIT", i)
  <2>1. i \in streams[p] /\ st'[p][i].credit = st[p][i].credit
    BY <1>2
  <2>2. st[p][i].credit \in Nat /\ c \in Nat
    BY FitTypes, EndsPair
  <2> HIDE DEF c
  <2>3. st'[p][i].credit + c <= st[p][i].credit + c
    BY <2>1, <2>2
  <2> QED BY <2>1, <2>3 DEF c
<1> QED BY <1>1, <1>2, FitsNext

LEMMA LocalBudget ==
  ASSUME Shapes, NEW p \in Ends, NEW i \in Ids, LocalAction(p, i) \/ WriteFin(p, i)
  PROVE  st'[p][i].credit = st[p][i].credit /\ st[p][i].budget <= st'[p][i].budget
<1> DEFINE s == st[p][i]
           t == st'[p][i]
<1>0. s.budget \in Nat /\ s.writing \in Nat
  BY OneStream, Amounts
<1>1. ASSUME SameAmounts(s, t) PROVE t.credit = s.credit /\ s.budget <= t.budget
  BY <1>0, <1>1 DEF SameAmounts
<1>2. CASE p = "server" /\ \E ok \in BOOLEAN : Dialed(i, ok)
  BY <1>1, <1>2, DialedStream
<1>3. CASE \E n \in 1..StreamChunk : ReadData(p, i, n)
  BY <1>1, <1>3, ReadDataStream
<1>4. CASE ReadQueue(p, i)
  BY <1>1, <1>4, ReadQueueStream
<1>5. CASE ReadDrop(p, i)
  BY <1>1, <1>5, ReadDropStream
<1>6. CASE ReadEOF(p, i)
  BY <1>1, <1>6, ReadEOFStream
<1>7. CASE ReadError(p, i)
  BY <1>1, <1>7, ReadErrorStream
<1>8. CASE WritePop(p, i)
  <2>1. t.credit = s.credit /\ t.budget = s.budget
    BY <1>8, WritePopStream
  <2> QED BY <1>0, <2>1
<1>9. CASE WriteDone(p, i)
  <2>1. t.credit = s.credit /\ t.budget = s.budget + s.writing
    BY <1>9, WriteDoneStream
  <2> QED BY <1>0, <2>1
<1>10. CASE WriteError(p, i)
  BY <1>1, <1>10, WriteErrorStream
<1>11. CASE WriteFin(p, i)
  BY <1>1, <1>11, WriteFinStream
<1> QED
  BY <1>2, <1>3, <1>4, <1>5, <1>6, <1>7, <1>8, <1>9, <1>10, <1>11 DEF LocalAction
LEMMA FrameFits ==
  ASSUME Shapes, Shapes', Scheduling, DataFits, CreditFits, NEW e \in Ends, ReceiveFrame(e)
  PROVE  DataFits' /\ CreditFits'
<1>1. PICK j \in Ids : j = Head(wire[Other(e)]).stream
  BY ReceiveFrameStream
<1>2. /\ Consumed(e) /\ Moved(e, j)
      /\ RemoveStream(e, j, cursor[e]) \/ UNCHANGED <<streams, order, cursor>>
  BY <1>1, ReceiveFrameStream
<1>3. highest' = highest
  BY Zenon DEF ReceiveFrame
<1>4. FrameFlows(e, j, st[e][j], st'[e][j])
  BY <1>1, FrameFlow
<1>5. \A d \in Ends : streams'[d] \subseteq streams[d]
  BY <1>2, StreamsShrink
<1>6. wire'[e] = wire[e]
  BY <1>2 DEF Consumed
<1>7. ASSUME NEW p \in Ends, NEW i \in Ids, p # e \/ i # j
      PROVE  /\ st'[p][i] = st[p][i]
             /\ \A kind : Carried(wire'[Other(p)], kind, i) = Carried(wire[Other(p)], kind, i)
  <2>1. st'[p][i] = st[p][i]
    BY <1>2, <1>7 DEF Moved
  <2>2. CASE p = e
    BY <1>4, <1>7, <2>1, <2>2 DEF FrameFlows
  <2>3. CASE p = Other(e)
    BY <1>6, <2>1, <2>3, EndsPair
  <2> QED BY <2>2, <2>3, EndsPair
<1>8. ASSUME NEW p \in Ends, NEW i \in Ids, Listening(p, i)'
      PROVE  /\ Listening(p, i)
             /\ Limit(p, i) + Carried(wire'[Other(p)], "DATA", i)
                  <= Limit(p, i)' + Carried(wire[Other(p)], "DATA", i)
  <2> DEFINE c == Carried(wire[Other(p)], "DATA", i)
             cc == Carried(wire'[Other(p)], "DATA", i)
             l == Limit(p, i)
             ll == Limit(p, i)'
  <2>1. /\ Listening(p, i) /\ (st[p][i].budget <= st'[p][i].budget => l <= ll)
        /\ i \in streams[p] => i \in streams'[p]
    BY <1>3, <1>5, <1>8, LimitKept
  <2>2. l \in Nat /\ ll \in Nat /\ c \in Nat /\ cc \in Nat
    BY FitTypes, FitTypesNext, EndsPair
  <2>3. CASE p # e \/ i # j
    <3>1. st'[p][i].budget = st[p][i].budget /\ st[p][i].budget \in Nat /\ cc = c
      BY <1>7, <2>3, OneStream, Amounts
    <3>2. l <= ll
      BY <2>1, <3>1
    <3> HIDE DEF l, ll, c, cc
    <3>3. l + cc <= ll + c
      BY <2>2, <3>1, <3>2
    <3> QED BY <2>1, <3>3 DEF l, ll, c, cc
  <2>4. CASE p = e /\ i = j
    <3> DEFINE b == st[e][j].budget
               bb == st'[e][j].budget
               x == st[e][j].input
               xx == st'[e][j].input
    <3>1. j \in streams[e]
      BY <1>1, ReceiveFrameStream
    <3>2. l = b /\ ll = bb
      BY <2>1, <2>4, <3>1 DEF Limit
    <3>3. xx + cc = x + c /\ bb + xx = b + x
      BY <1>4, <2>4 DEF FrameFlows
    <3>4. x \in Nat /\ xx \in Nat
      <4>1. st[e][j] \in StreamRecords /\ st'[e][j] \in StreamRecords
        BY OneStream DEF Shapes, StreamTables
      <4> QED BY <4>1, Amounts
    <3> HIDE DEF l, ll, c, cc, b, bb, x, xx
    <3>5. l + cc <= ll + c
      BY <2>2, <3>2, <3>3, <3>4
    <3> QED BY <2>1, <3>5 DEF l, ll, c, cc
  <2> QED BY <2>3, <2>4
<1>9. ASSUME NEW p \in Ends, NEW i \in Ids, i \in streams'[p]
      PROVE  /\ i \in streams[p]
             /\ st'[p][i].credit + Carried(wire'[Other(p)], "CREDIT", i)
                  <= st[p][i].credit + Carried(wire[Other(p)], "CREDIT", i)
  <2> DEFINE a == st[p][i].credit
             aa == st'[p][i].credit
             c == Carried(wire[Other(p)], "CREDIT", i)
             cc == Carried(wire'[Other(p)], "CREDIT", i)
  <2>1. i \in streams[p]
    BY <1>5, <1>9
  <2>2. a \in Nat /\ aa \in Nat /\ c \in Nat /\ cc \in Nat
    BY FitTypes, FitTypesNext, EndsPair
  <2>3. aa + cc = a + c
    <3>1. CASE p # e \/ i # j
      BY <1>7, <3>1
    <3>2. CASE p = e /\ i = j
      BY <1>4, <3>2 DEF FrameFlows
    <3> QED BY <3>1, <3>2
  <2> HIDE DEF a, aa, c, cc
  <2>4. aa + cc <= a + c
    BY <2>2, <2>3
  <2> QED BY <2>1, <2>4 DEF a, aa, c, cc
<1> QED BY <1>8, <1>9, FitsNext

LEMMA SkipFits ==
  ASSUME Shapes, Shapes', Scheduling, DataFits, CreditFits, NEW e \in Ends, ReceiveRetired(e)
  PROVE  DataFits' /\ CreditFits'
<1>1. Arriving(e) /\ Consume(e) /\ UNCHANGED <<streams, st, highest>>
  BY DEF ReceiveRetired, pvars
<1>2. Consumed(e)
  BY <1>1, ConsumeForm
<1>3. ASSUME NEW p \in Ends, NEW i \in Ids, NEW kind
      PROVE  Carried(wire'[Other(p)], kind, i) <= Carried(wire[Other(p)], kind, i)
  <2> DEFINE c == Carried(wire[Other(p)], kind, i)
             cc == Carried(wire'[Other(p)], kind, i)
  <2>1. c \in Nat /\ cc \in Nat
    BY FitTypes, FitTypesNext, EndsPair
  <2>2. CASE p = Other(e)
    <3>1. Other(p) = e
      BY <2>2, EndsPair
    <3>2. cc = c
      BY <1>2, <3>1 DEF Consumed
    <3> HIDE DEF c, cc
    <3>3. cc <= c
      BY <2>1, <3>2
    <3> QED BY <3>3 DEF c, cc
  <2>3. CASE p = e
    <3> DEFINE u == Weight(Head(wire[Other(e)]), kind, i)
    <3>1. c = u + cc /\ Head(wire[Other(e)]) \in Frames
      BY <1>2, <2>3, ConsumedCarried
    <3>2. u \in Nat
      BY <3>1 DEF Weight, Frames
    <3> HIDE DEF c, cc, u
    <3>3. cc <= c
      BY <2>1, <3>1, <3>2
    <3> QED BY <3>3 DEF c, cc
  <2> QED BY <2>2, <2>3, EndsPair
<1>4. ASSUME NEW p \in Ends, NEW i \in Ids, Listening(p, i)'
      PROVE  /\ Listening(p, i)
             /\ Limit(p, i) + Carried(wire'[Other(p)], "DATA", i)
                  <= Limit(p, i)' + Carried(wire[Other(p)], "DATA", i)
  <2> DEFINE c == Carried(wire[Other(p)], "DATA", i)
             cc == Carried(wire'[Other(p)], "DATA", i)
             l == Limit(p, i)
             ll == Limit(p, i)'
  <2>1. Listening(p, i) /\ ll = l /\ cc <= c
    BY <1>1, <1>3, <1>4 DEF Listening, Limit
  <2>2. l \in Nat /\ c \in Nat /\ cc \in Nat
    BY FitTypes, FitTypesNext, EndsPair
  <2> HIDE DEF l, ll, c, cc
  <2>3. l + cc <= ll + c
    BY <2>1, <2>2
  <2> QED BY <2>1, <2>3 DEF l, ll, c, cc
<1>5. ASSUME NEW p \in Ends, NEW i \in Ids, i \in streams'[p]
      PROVE  /\ i \in streams[p]
             /\ st'[p][i].credit + Carried(wire'[Other(p)], "CREDIT", i)
                  <= st[p][i].credit + Carried(wire[Other(p)], "CREDIT", i)
  <2> DEFINE a == st[p][i].credit
             aa == st'[p][i].credit
             c == Carried(wire[Other(p)], "CREDIT", i)
             cc == Carried(wire'[Other(p)], "CREDIT", i)
  <2>1. i \in streams[p] /\ aa = a /\ cc <= c
    BY <1>1, <1>3, <1>5
  <2>2. a \in Nat /\ c \in Nat /\ cc \in Nat
    BY FitTypes, FitTypesNext, EndsPair
  <2> HIDE DEF a, aa, c, cc
  <2>3. aa + cc <= a + c
    BY <2>1, <2>2
  <2> QED BY <2>1, <2>3 DEF a, aa, c, cc
<1> QED BY <1>4, <1>5, FitsNext

LEMMA TakeFits ==
  ASSUME Shapes, Shapes', Scheduling, Orderly, CreditConserved, DataFits, CreditFits,
         NEW e \in Ends, Take(e)
  PROVE  DataFits' /\ CreditFits'
<1>1. PICK c \in Nat, j \in Ids : \E a, m : Turn(e, c, j, a, m)
  BY TakeForm
<1>2. PICK a, m : Turn(e, c, j, a, m)
  BY <1>1
<1>3. highest' = highest
  BY Zenon DEF Take
<1>4. /\ Moved(e, j) /\ wire'[Other(e)] = wire[Other(e)] /\ j \in streams[e]
      /\ RemoveStream(e, j, c + 1) \/ UNCHANGED streams
      /\ Takes(j, st[e][j], a, m, room[e] - FrameHeader, carrier[e] = "controls")
  BY <1>2 DEF Turn
<1>5. TurnFlows(e, j, st[e][j], a) /\ SameAmounts(a, st'[e][j])
  BY <1>2, TurnFlow
<1>6. \A d \in Ends : streams'[d] \subseteq streams[d]
  BY <1>4, StreamsShrink
<1>7. a.credit <= st[e][j].credit
  <2>1. st[e][j] \in StreamRecords /\ Ordered(st[e][j])
    BY OneStream DEF Orderly
  <2> QED BY <1>4, <2>1, TakenBytes
<1>8. \A p \in Ends, i \in Ids : p # e \/ i # j => st'[p][i] = st[p][i]
  BY <1>4 DEF Moved
<1>9. \A p \in Ends, i \in Ids : st'[p][i].budget = st[p][i].budget
  BY <1>5, <1>8 DEF TurnFlows, SameAmounts
<1>10. ASSUME NEW p \in Ends, NEW i \in Ids, p = e \/ i # j
       PROVE  \A kind : Carried(wire'[Other(p)], kind, i) = Carried(wire[Other(p)], kind, i)
  <2>1. CASE p = e
    BY <1>4, <2>1
  <2>2. CASE p # e /\ i # j
    <3>1. Other(p) = e
      BY <2>2, EndsPair
    <3> QED BY <1>5, <2>2, <3>1 DEF TurnFlows
  <2> QED BY <1>10, <2>1, <2>2
<1>11. ASSUME NEW p \in Ends, NEW i \in Ids, Listening(p, i)'
       PROVE  \/ /\ Listening(p, i)
                 /\ Limit(p, i) + Carried(wire'[Other(p)], "DATA", i)
                      <= Limit(p, i)' + Carried(wire[Other(p)], "DATA", i)
              \/ Carried(wire'[Other(p)], "DATA", i) <= Limit(p, i)'
  <2> DEFINE d == Carried(wire[Other(p)], "DATA", i)
             dd == Carried(wire'[Other(p)], "DATA", i)
             l == Limit(p, i)
             ll == Limit(p, i)'
  <2>0. st[p][i].budget \in Nat
    BY OneStream, Amounts
  <2>1. Listening(p, i) /\ l <= ll
    BY <1>3, <1>6, <1>9, <1>11, <2>0, LimitKept
  <2>2. l \in Nat /\ ll \in Nat /\ d \in Nat /\ dd \in Nat
    BY FitTypes, FitTypesNext, EndsPair
  <2>3. CASE p = e \/ i # j
    <3>1. dd = d
      BY <1>10, <2>3
    <3> HIDE DEF l, ll, d, dd
    <3>2. l + dd <= ll + d
      BY <2>1, <2>2, <3>1
    <3> QED BY <2>1, <3>2 DEF l, ll, d, dd
  <2>4. CASE p # e /\ i = j
    <3> DEFINE x == st[e][j].credit
               xx == a.credit
    <3>1. Other(p) = e /\ p = Other(e)
      BY <2>4, EndsPair
    <3>2. Shared(e, j)
      BY <1>4, <2>1, <2>4, <3>1 DEF Shared, Listening
    <3>3. x + d <= l
      BY <2>4, <3>1, <3>2, SharedFits
    <3>4. xx + dd = x + d
      BY <1>5, <2>4, <3>1 DEF TurnFlows
    <3>5. x \in Nat /\ xx \in Nat
      <4>1. st[e][j] \in StreamRecords /\ a \in StreamRecords
        BY <1>4, OneStream DEF Takes
      <4> QED BY <4>1, Amounts
    <3> HIDE DEF l, ll, d, dd, x, xx
    <3>6. dd <= ll
      BY <2>1, <2>2, <3>3, <3>4, <3>5
    <3> QED BY <3>6 DEF ll, dd
  <2> QED BY <2>3, <2>4
<1>12. ASSUME NEW p \in Ends, NEW i \in Ids, i \in streams'[p]
       PROVE  \/ /\ i \in streams[p]
                 /\ st'[p][i].credit + Carried(wire'[Other(p)], "CREDIT", i)
                      <= st[p][i].credit + Carried(wire[Other(p)], "CREDIT", i)
              \/ st'[p][i].credit + Carried(wire'[Other(p)], "CREDIT", i) <= Window(Other(p))
  <2> DEFINE x == st[p][i].credit
             xx == st'[p][i].credit
             d == Carried(wire[Other(p)], "CREDIT", i)
             dd == Carried(wire'[Other(p)], "CREDIT", i)
             w == Window(Other(p))
  <2>1. i \in streams[p]
    BY <1>6, <1>12
  <2>2. x \in Nat /\ xx \in Nat /\ d \in Nat /\ dd \in Nat /\ w \in Nat
    BY FitTypes, FitTypesNext, EndsPair
  <2>3. CASE p = e \/ i # j
    <3>1. dd = d
      BY <1>10, <2>3
    <3>2. xx <= x
      <4>1. CASE p = e /\ i = j
        BY <1>5, <1>7, <4>1 DEF SameAmounts
      <4>2. CASE p # e \/ i # j
        <5>1. st'[p][i] = st[p][i]
          BY <1>8, <4>2
        <5> QED BY <2>2, <5>1
      <4> QED BY <4>1, <4>2
    <3> HIDE DEF x, xx, d, dd
    <3>3. xx + dd <= x + d
      BY <2>2, <3>1, <3>2
    <3> QED BY <2>1, <3>3 DEF x, xx, d, dd
  <2>4. CASE p # e /\ i = j
    <3> DEFINE g == st[e][j].grant
               gg == a.grant
    <3>1. Other(p) = e /\ p = Other(e)
      BY <2>4, EndsPair
    <3>2. Shared(p, j)
      BY <1>4, <2>1, <2>4, <3>1 DEF Shared
    <3>3. x + g + d <= w
      BY <2>4, <3>1, <3>2, SharedFits
    <3>4. gg + dd = g + d
      BY <1>5, <2>4, <3>1 DEF TurnFlows
    <3>5. g \in Nat /\ gg \in Nat
      <4>1. st[e][j] \in StreamRecords /\ a \in StreamRecords
        BY <1>4, OneStream DEF Takes
      <4> QED BY <4>1, Amounts
    <3>6. xx = x
      BY <1>8, <2>4
    <3> HIDE DEF x, xx, d, dd, g, gg, w
    <3>7. xx + dd <= w
      BY <2>2, <3>3, <3>4, <3>5, <3>6
    <3> QED BY <3>7 DEF xx, dd, w
  <2> QED BY <2>3, <2>4
<1> QED BY <1>11, <1>12, FitsNext
\* A new stream starts with the whole windows.
LEMMA NewFits ==
  ASSUME Shapes, Shapes', Scheduling, DataFits, CreditFits, NEW e \in Ends, NEW i \in Ids, i > highest[e],
         Moved(e, i), st'[e][i].budget = Window(e), st'[e][i].credit = Window(Other(e)),
         streams' = [streams EXCEPT ![e] = @ \cup {i}], highest' = [highest EXCEPT ![e] = i],
         Carried(wire[Other(e)], "CREDIT", i) = 0,
         \A p \in Ends, j \in Ids : \A kind \in {"DATA", "CREDIT"} :
           Carried(wire'[p], kind, j) = Carried(wire[p], kind, j)
  PROVE  DataFits' /\ CreditFits'
<1>1. \A p \in Ends, j \in Ids : Listening(p, j)' => Listening(p, j)
  BY NewListening
<1>2. i \notin streams[e] /\ i \in streams'[e]
  <2>1. highest[e] \in Nat /\ i \in Nat
    BY HighestIsNat, IdIsNat
  <2> QED BY <2>1 DEF Scheduling, Listed, Shapes
<1>3. \A p \in Ends, j \in Ids : p # e \/ j # i =>
        st'[p][j] = st[p][j] /\ (j \in streams'[p] <=> j \in streams[p])
  BY DEF Moved, Shapes
<1>4. \A p \in Ends, j \in Ids : Limit(p, j)' = Limit(p, j)
  <2> TAKE p \in Ends, j \in Ids
  <2>1. CASE p = e /\ j = i
    BY <1>2, <2>1 DEF Limit
  <2>2. CASE p # e \/ j # i
    BY <1>3, <2>2 DEF Limit
  <2> QED BY <2>1, <2>2
<1>5. ASSUME NEW p \in Ends, NEW j \in Ids, Listening(p, j)'
      PROVE  /\ Listening(p, j)
             /\ Limit(p, j) + Carried(wire'[Other(p)], "DATA", j)
                  <= Limit(p, j)' + Carried(wire[Other(p)], "DATA", j)
  <2> DEFINE c == Carried(wire[Other(p)], "DATA", j)
             cc == Carried(wire'[Other(p)], "DATA", j)
             l == Limit(p, j)
             ll == Limit(p, j)'
  <2>1. Listening(p, j) /\ ll = l /\ cc = c
    BY <1>1, <1>4, <1>5, EndsPair
  <2>2. l \in Nat /\ c \in Nat
    BY FitTypes, EndsPair
  <2> HIDE DEF l, ll, c, cc
  <2>3. l + cc <= ll + c
    BY <2>1, <2>2
  <2> QED BY <2>1, <2>3 DEF l, ll, c, cc
<1>6. ASSUME NEW p \in Ends, NEW j \in Ids, j \in streams'[p]
      PROVE  \/ /\ j \in streams[p]
                /\ st'[p][j].credit + Carried(wire'[Other(p)], "CREDIT", j)
                     <= st[p][j].credit + Carried(wire[Other(p)], "CREDIT", j)
             \/ st'[p][j].credit + Carried(wire'[Other(p)], "CREDIT", j) <= Window(Other(p))
  <2> DEFINE a == st[p][j].credit
             aa == st'[p][j].credit
             c == Carried(wire[Other(p)], "CREDIT", j)
             cc == Carried(wire'[Other(p)], "CREDIT", j)
             w == Window(Other(p))
  <2>1. cc = c
    BY EndsPair
  <2>2. a \in Nat /\ c \in Nat /\ w \in Nat
    BY FitTypes, EndsPair
  <2>3. CASE p = e /\ j = i
    <3>1. aa = w /\ cc = 0
      BY <2>1, <2>3
    <3> HIDE DEF a, aa, c, cc, w
    <3>2. aa + cc <= w
      BY <2>2, <3>1
    <3> QED BY <3>2 DEF aa, cc, w
  <2>4. CASE p # e \/ j # i
    <3>1. j \in streams[p] /\ aa = a
      BY <1>3, <1>6, <2>4
    <3> HIDE DEF a, aa, c, cc
    <3>2. aa + cc <= a + c
      BY <2>1, <2>2, <3>1
    <3> QED BY <3>1, <3>2 DEF a, aa, c, cc
  <2> QED BY <2>3, <2>4
<1> QED BY <1>5, <1>6, FitsNext

LEMMA OpenFits ==
  ASSUME Shapes, Shapes', Scheduling, Wires, DataFits, CreditFits, NEW i \in Ids, Open(i)
  PROVE  DataFits' /\ CreditFits'
<1>0. "client" \in Ends /\ "server" \in Ends /\ Other("client") = "server"
  BY DEF Ends, Other
<1>1. /\ Moved("client", i) /\ st'["client"][i].budget = Window("client")
      /\ st'["client"][i].credit = Window("server")
  BY OpenStream
<1>2. /\ i = highest["client"] + 1 /\ wire' = wire
      /\ streams' = [streams EXCEPT !["client"] = @ \cup {i}]
      /\ highest' = [highest EXCEPT !["client"] = i]
  BY DEF Open, AddStream
<1>3. highest["client"] \in Nat /\ highest["server"] \in Nat
  BY <1>0, HighestIsNat
<1>4. i > highest["client"]
  BY <1>2, <1>3
<1>5. Carried(wire["server"], "CREDIT", i) = 0
  <2>1. wire["server"] \in Seq(Frames)
    BY <1>0 DEF Shapes
  <2>2. ASSUME NEW k \in 1..Len(wire["server"]) PROVE wire["server"][k].stream # i
    <3>1. wire["server"][k].stream \in Nat /\ wire["server"][k].stream <= highest["server"]
      BY <1>0, <2>1, <2>2, FrameAt DEF Wires
    <3>2. highest["server"] <= highest["client"]
      BY DEF Wires
    <3> QED BY <1>2, <1>3, <3>1, <3>2
  <2> QED BY <2>1, <2>2, CarriedNone
<1> QED BY <1>0, <1>1, <1>2, <1>4, <1>5, NewFits

LEMMA AcceptFits ==
  ASSUME Shapes, Shapes', Scheduling, Fresh, DataFits, CreditFits, NEW e \in Ends, ReceiveOpen(e)
  PROVE  DataFits' /\ CreditFits'
<1> DEFINE f == Head(wire["client"])
           i == f.stream
<1>0. /\ "client" \in Ends /\ "server" \in Ends /\ Other("server") = "client"
      /\ \A p \in Ends : p = "client" \/ p = "server"
  BY DEF Ends, Other
<1>1. /\ e = "server" /\ Consumed("server") /\ f.kind = "OPEN" /\ i \in Ids /\ i > highest["server"]
      /\ Moved("server", i) /\ st'["server"][i].budget = Window("server")
      /\ st'["server"][i].credit = Window("client")
  BY ReceiveOpenStream
<1>2. /\ streams' = [streams EXCEPT !["server"] = @ \cup {i}]
      /\ highest' = [highest EXCEPT !["server"] = i]
  BY <1>0, <1>1 DEF ReceiveOpen, AddStream
<1>3. Carried(wire["client"], "CREDIT", i) = 0
  BY <1>1 DEF Fresh, Untouched
<1>4. ASSUME NEW p \in Ends, NEW j \in Ids, NEW kind \in {"DATA", "CREDIT"}
      PROVE  Carried(wire'[p], kind, j) = Carried(wire[p], kind, j)
  <2>1. CASE p = "server"
    BY <1>1, <2>1 DEF Consumed
  <2>2. CASE p = "client"
    <3>1. /\ Carried(wire["client"], kind, j) = Weight(f, kind, j) + Carried(wire'["client"], kind, j)
          /\ Carried(wire'["client"], kind, j) \in Nat
      BY <1>0, <1>1, ConsumedCarried
    <3>2. Weight(f, kind, j) = 0
      BY <1>1, <1>4 DEF Weight
    <3> QED BY <2>2, <3>1, <3>2
  <2> QED BY <1>0, <2>1, <2>2
<1> QED BY <1>0, <1>1, <1>2, <1>3, <1>4, NewFits

LEMMA FitsStep ==
  ASSUME Shapes, Shapes', Scheduling, Wires, Fresh, Orderly, CreditConserved, DataFits, CreditFits,
         [Next]_vars
  PROVE  DataFits' /\ CreditFits'
<1> USE DEF pvars, cvars
<1> DEFINE Goal == DataFits' /\ CreditFits'
<1>1. ASSUME NEW p \in Ends, NEW i \in Ids, LocalAction(p, i) \/ WriteFin(p, i),
             Moved(p, i), wire' = wire, highest' = highest, \A e \in Ends : streams'[e] \subseteq streams[e]
      PROVE  Goal
  <2>1. ASSUME NEW e \in Ends, NEW j \in Ids
        PROVE  st'[e][j].credit = st[e][j].credit /\ st[e][j].budget <= st'[e][j].budget
    <3>1. CASE e = p /\ j = i
      BY <1>1, <3>1, LocalBudget
    <3>2. CASE e # p \/ j # i
      <4>1. st'[e][j] = st[e][j] /\ st[e][j].budget \in Nat
        BY <1>1, <3>2, OneStream, Amounts DEF Moved
      <4> QED BY <4>1
    <3> QED BY <3>1, <3>2
  <2> QED BY <1>1, <2>1, QuietFits
<1>2. ASSUME NEW i \in Ids, Open(i) PROVE Goal
  BY <1>2, OpenFits
<1>3. ASSUME NEW p \in Ends, NEW i \in Ids, LocalAction(p, i) PROVE Goal
  <2>1. LocalStep(p, i)
    BY <1>3, LocalActionIsLocal
  <2>2. UNCHANGED <<wire, streams, highest>> /\ Moved(p, i)
    BY <2>1 DEF LocalStep
  <2> QED BY <1>1, <1>3, <2>2
<1>4. ASSUME NEW p \in Ends, NEW i \in Ids, WriteFin(p, i) PROVE Goal
  <2>1. Moved(p, i) /\ (RemoveStream(p, i, cursor[p]) \/ UNCHANGED <<streams, order, cursor>>)
    BY <1>4, WriteFinStream
  <2>2. UNCHANGED <<wire, highest>>
    BY <1>4, Zenon DEF WriteFin
  <2>3. \A e \in Ends : streams'[e] \subseteq streams[e]
    BY <2>1, StreamsShrink
  <2> QED BY <1>1, <1>4, <2>1, <2>2, <2>3
<1>5. ASSUME NEW p \in Ends, ReceiveOpen(p) PROVE Goal
  BY <1>5, AcceptFits
<1>6. ASSUME NEW p \in Ends, ReceiveFrame(p) PROVE Goal
  BY <1>6, FrameFits
<1>7. ASSUME NEW p \in Ends, ReceiveRetired(p) PROVE Goal
  BY <1>7, SkipFits
<1>8. ASSUME NEW p \in Ends, Take(p) PROVE Goal
  BY <1>8, TakeFits
<1>9. ASSUME NEW p \in Ends, Close(p) PROVE Goal
  <2>1. UNCHANGED <<wire, streams, highest>>
    BY <1>9 DEF Close
  <2>2. ASSUME NEW e \in Ends, NEW j \in Ids
        PROVE  st'[e][j].credit = st[e][j].credit /\ st[e][j].budget <= st'[e][j].budget
    <3>1. st'[e][j] = st[e][j] \/ st'[e][j] = ClosedStream(st[e][j])
      BY <1>9, CloseStreams
    <3>2. st[e][j] \in StreamRecords /\ st[e][j].budget \in Nat
      BY OneStream, Amounts
    <3>3. CASE st'[e][j] = ClosedStream(st[e][j])
      <4>1. SameAmounts(st[e][j], st'[e][j])
        BY <3>2, <3>3, ClosedStreamKeeps
      <4> QED BY <3>2, <4>1 DEF SameAmounts
    <3> QED BY <3>1, <3>2, <3>3
  <2> QED BY <2>1, <2>2, QuietFits
<1>10. ASSUME UNCHANGED <<st, wire, streams, highest>> PROVE Goal
  <2>1. \A e \in Ends, j \in Ids :
          st'[e][j].credit = st[e][j].credit /\ st[e][j].budget <= st'[e][j].budget
    BY <1>10, OneStream, Amounts
  <2> QED BY <1>10, <2>1, QuietFits
<1>11. ASSUME NEW p \in Ends, CarrierCheck(p) \/ TakeEnd(p) PROVE Goal
  <2>1. UNCHANGED <<st, wire, streams, highest>>
    BY <1>11 DEF CarrierCheck, TakeEnd
  <2> QED BY <1>10, <2>1
<1>12. CASE UNCHANGED vars
  BY <1>10, <1>12 DEF vars
<1> QED
  BY <1>2, <1>3, <1>4, <1>5, <1>6, <1>7, <1>8, <1>9, <1>11, <1>12, NextCases

LEMMA FitsInit == ASSUME Init PROVE DataFits /\ CreditFits
<1>1. /\ \A p \in Ends : wire[p] = <<>> /\ streams[p] = {}
  BY DEF Init
<1>2. ASSUME NEW i \in Ids PROVE Carried(<<>>, "DATA", i) = 0
  <2>1. <<>> \in Seq(Frames) /\ \A k \in 1..Len(<<>>) : (<<>>)[k].stream # i
    OBVIOUS
  <2> QED BY <2>1, CarriedNone
<1>3. \A p : Window(p) \in Nat
  BY WindowIsNat
<1>4. DataFits
  BY <1>1, <1>2, <1>3, EndsPair DEF DataFits, Limit
<1> QED BY <1>1, <1>4 DEF CreditFits
-----------------------------------------------------------------------------
(* OPEN frames that take does not pass over leave in the order of the ids. *)

\* The OPEN of stream i has not left, and its turn has not come yet.
Waiting(i) == st["client"][i].open /\ ~st["client"][i].late
WaitsOn(i) == st'["client"][i].open /\ ~st'["client"][i].late

\* The scheduler has the client's streams in the order they were opened, and
\* those whose OPEN waits for its turn are in front of the cursor.
Opens ==
  /\ \A j, k \in 1..Len(order["client"]) : j < k => order["client"][j] < order["client"][k]
  /\ \A k \in 1..Len(order["client"]) : Waiting(order["client"][k]) => k > cursor["client"]

LEMMA ClientTypes ==
  ASSUME Shapes
  PROVE  /\ "client" \in Ends /\ "server" \in Ends /\ Other("client") = "server" /\ Other("server") = "client"
         /\ "client" # "server" /\ \A p \in Ends : p = "client" \/ p = "server"
         /\ order["client"] \in Seq(Ids) /\ cursor["client"] \in Nat /\ Len(order["client"]) \in Nat
         /\ \A k \in 1..Len(order["client"]) : order["client"][k] \in Ids /\ order["client"][k] \in Nat
         /\ wire["client"] \in Seq(Frames) /\ streams["client"] \subseteq Ids
         /\ highest["client"] \in Nat /\ highest["server"] \in Nat
<1>1. "client" \in Ends /\ "server" \in Ends /\ Other("client") = "server" /\ Other("server") = "client"
      /\ "client" # "server" /\ \A p \in Ends : p = "client" \/ p = "server"
  BY DEF Ends, Other
<1>2. order["client"] \in Seq(Ids) /\ cursor["client"] \in Nat /\ wire["client"] \in Seq(Frames)
      /\ streams["client"] \subseteq Ids
  BY <1>1 DEF Shapes
<1>3. Len(order["client"]) \in Nat /\ \A k \in 1..Len(order["client"]) : order["client"][k] \in Ids
  BY <1>2
<1>4. \A i \in Ids : i \in Nat
  BY IdIsNat
<1> QED BY <1>1, <1>2, <1>3, <1>4, HighestIsNat

LEMMA OpensKept ==
  ASSUME Opens, order'["client"] = order["client"], cursor'["client"] = cursor["client"],
         \A k \in 1..Len(order["client"]) : Waiting(order["client"][k])' => Waiting(order["client"][k])
  PROVE  Opens'
  BY DEF Opens, Waiting

\* Without the stream at position k, in front of the cursor or behind it.
LEMMA PositionAfter ==
  ASSUME NEW n \in Nat, NEW k \in 1..n, NEW from \in Nat, NEW m \in 1..n, m > from, m # k
  PROVE  LET c == IF k - 1 < from THEN from - 1 ELSE from IN
         (IF m < k THEN m ELSE m - 1) > (IF c >= n - 1 THEN 0 ELSE c)
  OBVIOUS

LEMMA RemoveOpens ==
  ASSUME Shapes, Scheduling, Opens, NEW i \in streams["client"], NEW from \in Nat,
         RemoveStream("client", i, from), \A j \in Ids : Waiting(j)' => Waiting(j),
         \A m \in 1..Len(order["client"]) :
           Waiting(order["client"][m]) /\ order["client"][m] # i => m > from
  PROVE  Opens'
<1> DEFINE o == order["client"]
           v == order'["client"]
           n == Len(o)
<1>1. "client" \in Ends /\ n \in Nat /\ (\A k \in 1..n : o[k] \in Ids /\ o[k] \in Nat)
  BY ClientTypes
<1>2. Listed("client")
  BY <1>1 DEF Scheduling
<1>3. PICK k \in 1..n : Removes("client", i, k, from)
  BY <1>1, <1>2, RemoveStreamForm
<1>4. Len(v) = n - 1 /\ \A j \in 1..n - 1 : v[j] = IF j < k THEN o[j] ELSE o[j + 1]
  <2>1. Shortened("client", i, k)
    BY <1>1, <1>3, RemovedTables
  <2> QED BY <2>1 DEF Shortened
<1>5. /\ o[k] = i
      /\ cursor'["client"] = LET c == IF k - 1 < from THEN from - 1 ELSE from IN IF c >= n - 1 THEN 0 ELSE c
  BY <1>3 DEF Removes
<1>6. /\ \A j, l \in 1..n : j < l => o[j] < o[l]
      /\ \A j, l \in 1..n : o[j] = o[l] => j = l
  BY <1>2 DEF Opens, Listed
<1> HIDE DEF o, v, n
<1>7. ASSUME NEW j \in 1..Len(v), NEW l \in 1..Len(v), j < l PROVE v[j] < v[l]
  <2> DEFINE jj == IF j < k THEN j ELSE j + 1
             ll == IF l < k THEN l ELSE l + 1
  <2>1. jj \in 1..n /\ ll \in 1..n /\ jj < ll /\ j \in 1..n - 1 /\ l \in 1..n - 1
    BY <1>1, <1>4, <1>7
  <2>2. v[j] = o[jj] /\ v[l] = o[ll]
    BY <1>4, <2>1
  <2> HIDE DEF jj, ll
  <2> QED BY <1>6, <2>1, <2>2
<1>8. ASSUME NEW l \in 1..Len(v), WaitsOn(v[l]) PROVE l > cursor'["client"]
  <2> DEFINE m == IF l < k THEN l ELSE l + 1
  <2>1. m \in 1..n /\ m # k /\ l = (IF m < k THEN m ELSE m - 1) /\ l \in 1..n - 1
    BY <1>1, <1>4
  <2>2. v[l] = o[m]
    BY <1>4, <2>1
  <2> HIDE DEF m
  <2>3. Waiting(o[m]) /\ o[m] # i
    <3>1. o[m] \in Ids /\ WaitsOn(o[m])
      BY <1>1, <1>8, <2>1, <2>2
    <3>2. Waiting(o[m])
      BY <3>1 DEF Waiting, WaitsOn
    <3>3. o[m] # i
      BY <1>5, <1>6, <2>1
    <3> QED BY <3>2, <3>3
  <2>4. m > from
    BY <2>1, <2>3 DEF o, n
  <2>5. LET c == IF k - 1 < from THEN from - 1 ELSE from IN l > (IF c >= n - 1 THEN 0 ELSE c)
    BY <1>1, <2>1, <2>4, PositionAfter
  <2> QED BY <1>5, <2>5
<1> QED BY <1>7, <1>8 DEF Opens, Waiting, WaitsOn, v

LEMMA TakeOpens ==
  ASSUME Shapes, Scheduling, Opens, NEW e \in Ends, Take(e)
  PROVE  Opens'
<1>1. PICK c \in Nat, j \in Ids : \E a, m : Turn(e, c, j, a, m)
  BY TakeForm
<1>2. PICK a, m : Turn(e, c, j, a, m)
  BY <1>1
<1> DEFINE o == order["client"]
           n == Len(o)
           d == cursor["client"]
<1>0. /\ "client" \in Ends /\ "server" \in Ends /\ n \in Nat /\ d \in Nat
      /\ (\A k \in 1..n : o[k] \in Ids /\ o[k] \in Nat) /\ streams["client"] \subseteq Ids
  BY ClientTypes
<1>3. /\ \A p \in Ends, i \in Ids : Asks(p, i)
      /\ st[e][j].open => Opening(j, st[e][j], st'[e][j], m)
  BY <1>2, TurnAsked
<1>9. Moved(e, j)
  BY <1>2 DEF Turn
<1>4. \A i \in Ids : Waiting(i)' => Waiting(i)
  <2> TAKE i \in Ids
  <2>1. CASE e = "client" /\ i = j
    BY <1>0, <1>3, <2>1 DEF Asks, Opening, Waiting
  <2>2. CASE e # "client" \/ i # j
    BY <1>0, <1>9, <2>2 DEF Moved, Waiting
  <2> QED BY <2>1, <2>2
<1>5. /\ c \in 0..Len(order[e]) - 1 /\ (c = cursor[e] \/ (c = 0 /\ cursor[e] = Len(order[e])))
      /\ j = order[e][c + 1] /\ j \in streams[e] /\ ~closed[e] /\ Moved(e, j)
      /\ \/ RemoveStream(e, j, c + 1)
         \/ /\ UNCHANGED <<streams, order>> /\ cursor' = [cursor EXCEPT ![e] = c + 1]
            /\ ~st[e][j].reset
  BY <1>2 DEF Turn, Leaves
<1>6. CASE e # "client"
  <2>1. order'["client"] = o /\ cursor'["client"] = d
    <3>1. CASE RemoveStream(e, j, c + 1)
      BY <1>0, <1>5, <1>6, <3>1, Removal
    <3>2. CASE UNCHANGED <<streams, order>> /\ cursor' = [cursor EXCEPT ![e] = c + 1]
      BY <1>0, <1>6, <3>2 DEF Shapes
    <3> QED BY <1>5, <3>1, <3>2
  <2> QED BY <1>0, <1>4, <2>1, OpensKept
<1>7. CASE e = "client"
  <2>1. /\ c \in 0..n - 1 /\ (c = d \/ (c = 0 /\ d = n)) /\ j = o[c + 1] /\ j \in streams["client"]
        /\ ~closed["client"]
    BY <1>5, <1>7
  <2>2. \A l \in 1..n : Waiting(o[l]) => l > d
    BY DEF Opens
  <2>3. \A l, k \in 1..n : o[l] = o[k] => l = k
    BY <1>0 DEF Scheduling, Listed
  <2> HIDE DEF o, n, d
  <2>4. \A l \in 1..n : Waiting(o[l]) => c = d /\ l > c
    BY <1>0, <2>1, <2>2
  <2>5. ASSUME NEW l \in 1..n, Waiting(o[l]), o[l] # j PROVE l > c + 1
    BY <1>0, <2>1, <2>4, <2>5
  <2>6. CASE RemoveStream(e, j, c + 1)
    <3>1. c + 1 \in Nat
      BY <2>1
    <3> QED BY <1>4, <1>7, <2>1, <2>5, <2>6, <3>1, RemoveOpens DEF o, n
  <2>7. CASE /\ UNCHANGED <<streams, order>> /\ cursor' = [cursor EXCEPT ![e] = c + 1]
             /\ ~st[e][j].reset
    <3>1. order'["client"] = o /\ cursor'["client"] = c + 1
      BY <1>0, <1>7, <2>7 DEF Shapes, o
    <3>2. ~(st'["client"][j].open /\ ~st'["client"][j].late)
      BY <1>0, <1>3, <1>7, <2>7 DEF Asks, Opening
    <3>3. ASSUME NEW l \in 1..n, WaitsOn(o[l]) PROVE l > c + 1
      <4>1. o[l] \in Ids /\ o[l] # j
        BY <1>0, <3>2, <3>3 DEF WaitsOn
      <4>2. Waiting(o[l])
        BY <1>4, <3>3, <4>1 DEF Waiting, WaitsOn
      <4> QED BY <2>5, <4>1, <4>2
    <3> QED BY <3>1, <3>3 DEF Opens, Waiting, WaitsOn, o, n
  <2> QED BY <1>5, <2>6, <2>7
<1> QED BY <1>6, <1>7
\* A stream retires outside take, or none does.
LEMMA RetireOpens ==
  ASSUME Shapes, Scheduling, Opens, NEW p \in Ends, NEW i \in Ids, \A j \in Ids : Waiting(j)' => Waiting(j),
         (i \in streams[p] /\ RemoveStream(p, i, cursor[p])) \/ UNCHANGED <<streams, order, cursor>>
  PROVE  Opens'
<1>0. "client" \in Ends /\ cursor[p] \in Nat /\ \A k \in 1..Len(order["client"]) : order["client"][k] \in Ids
  BY ClientTypes DEF Shapes
<1>1. CASE UNCHANGED <<streams, order, cursor>>
  BY <1>0, <1>1, OpensKept
<1>2. CASE i \in streams[p] /\ RemoveStream(p, i, cursor[p]) /\ p # "client"
  <2>1. order'["client"] = order["client"] /\ cursor'["client"] = cursor["client"]
    BY <1>0, <1>2, Removal
  <2> QED BY <1>0, <2>1, OpensKept
<1>3. CASE i \in streams[p] /\ RemoveStream(p, i, cursor[p]) /\ p = "client"
  <2>1. \A m \in 1..Len(order["client"]) : Waiting(order["client"][m]) => m > cursor["client"]
    BY DEF Opens
  <2> QED BY <1>0, <1>3, <2>1, RemoveOpens
<1> QED BY <1>1, <1>2, <1>3

LEMMA NewOpens ==
  ASSUME Shapes, Scheduling, Opens, NEW i \in Ids, Open(i)
  PROVE  Opens'
<1> DEFINE o == order["client"]
           n == Len(o)
           v == order'["client"]
<1>0. /\ "client" \in Ends /\ n \in Nat /\ (\A k \in 1..n : o[k] \in Ids /\ o[k] \in Nat)
      /\ o \in Seq(Ids) /\ cursor["client"] \in Nat /\ highest["client"] \in Nat
  BY ClientTypes
<1>1. Moved("client", i)
  BY OpenStream
<1>2. i = highest["client"] + 1 /\ order' = [order EXCEPT !["client"] = Append(@, i)] /\ cursor' = cursor
  BY DEF Open, AddStream
<1>3. v = Append(o, i)
  BY <1>0, <1>2 DEF Shapes
<1>4. /\ \A k \in 1..n : o[k] <= highest["client"]
      /\ cursor["client"] <= n /\ \A j, k \in 1..n : j < k => o[j] < o[k]
      /\ \A k \in 1..n : Waiting(o[k]) => k > cursor["client"]
  BY <1>0 DEF Scheduling, Listed, Opens
<1> HIDE DEF o, v, n
<1>5. Len(v) = n + 1 /\ v[n + 1] = i /\ \A k \in 1..n : v[k] = o[k]
  BY <1>0, <1>3 DEF n
<1>6. ASSUME NEW j \in 1..Len(v), NEW k \in 1..Len(v), j < k PROVE v[j] < v[k]
  <2>1. j \in 1..n /\ v[j] = o[j] /\ o[j] \in Nat /\ o[j] <= highest["client"] /\ (k = n + 1 \/ k \in 1..n)
    BY <1>0, <1>4, <1>5, <1>6
  <2>2. CASE k = n + 1
    BY <1>0, <1>2, <1>5, <2>1, <2>2
  <2>3. CASE k \in 1..n
    BY <1>4, <1>5, <1>6, <2>1, <2>3
  <2> QED BY <2>1, <2>2, <2>3
<1>7. ASSUME NEW k \in 1..Len(v), WaitsOn(v[k]) PROVE k > cursor'["client"]
  <2>1. CASE k = n + 1
    BY <1>0, <1>2, <1>4, <2>1
  <2>2. CASE k # n + 1
    <3>1. k \in 1..n /\ v[k] = o[k]
      BY <1>0, <1>5, <2>2
    <3>2. o[k] # i /\ o[k] \in Ids
      BY <1>0, <1>2, <1>4, <3>1
    <3>3. Waiting(o[k])
      <4>1. st'["client"][o[k]] = st["client"][o[k]]
        BY <1>0, <1>1, <3>2 DEF Moved
      <4> QED BY <1>7, <3>1, <4>1 DEF Waiting, WaitsOn
    <3> QED BY <1>2, <1>4, <3>1, <3>3
  <2> QED BY <2>1, <2>2
<1> QED BY <1>6, <1>7 DEF Opens, Waiting, WaitsOn, v

LEMMA OpensStep ==
  ASSUME Shapes, Scheduling, Opens, [Next]_vars
  PROVE  Opens'
<1> USE DEF pvars, cvars
<1>0. /\ "client" \in Ends /\ "server" \in Ends /\ "client" # "server"
      /\ \A k \in 1..Len(order["client"]) : order["client"][k] \in Ids
  BY ClientTypes
<1>1. ASSUME \A i \in Ids : /\ st'["client"][i].open = st["client"][i].open
                            /\ st'["client"][i].late = st["client"][i].late
      PROVE  \A i \in Ids : Waiting(i)' => Waiting(i)
  BY <1>1 DEF Waiting
<1>2. ASSUME NEW i \in Ids, Open(i) PROVE Opens'
  BY <1>2, NewOpens
<1>3. ASSUME NEW p \in Ends, NEW i \in Ids, LocalAction(p, i) \/ WriteFin(p, i), Moved(p, i)
      PROVE  \A j \in Ids : Waiting(j)' => Waiting(j)
  <2>1. st'[p][i].open = st[p][i].open /\ (p = "client" => st'[p][i].late = st[p][i].late)
    BY <1>3, LocalAsks
  <2>2. \A j \in Ids : /\ st'["client"][j].open = st["client"][j].open
                       /\ st'["client"][j].late = st["client"][j].late
    BY <1>0, <1>3, <2>1 DEF Moved
  <2> QED BY <1>1, <2>2
<1>4. ASSUME NEW p \in Ends, NEW i \in Ids, LocalAction(p, i) PROVE Opens'
  <2>1. LocalStep(p, i)
    BY <1>4, LocalActionIsLocal
  <2>2. Moved(p, i) /\ UNCHANGED <<streams, order, cursor>>
    BY <2>1 DEF LocalStep
  <2>3. \A j \in Ids : Waiting(j)' => Waiting(j)
    BY <1>3, <1>4, <2>2
  <2> QED BY <2>2, <2>3, RetireOpens
<1>5. ASSUME NEW p \in Ends, NEW i \in Ids, WriteFin(p, i) PROVE Opens'
  <2>1. /\ Moved(p, i)
        /\ (i \in streams[p] /\ RemoveStream(p, i, cursor[p])) \/ UNCHANGED <<streams, order, cursor>>
    BY <1>5, WriteFinStream
  <2>2. \A j \in Ids : Waiting(j)' => Waiting(j)
    BY <1>3, <1>5, <2>1
  <2> QED BY <2>1, <2>2, RetireOpens
<1>6. ASSUME NEW p \in Ends, ReceiveOpen(p) PROVE Opens'
  <2> DEFINE i == Head(wire["client"]).stream
  <2>1. p = "server" /\ i \in Ids /\ Moved("server", i)
    BY <1>6, ReceiveOpenStream
  <2>2. order' = [order EXCEPT !["server"] = Append(@, i)] /\ cursor' = cursor
    BY <1>6, <2>1 DEF ReceiveOpen, AddStream, Other
  <2>3. order'["client"] = order["client"]
    BY <1>0, <2>2 DEF Shapes
  <2>4. \A j \in Ids : st'["client"][j] = st["client"][j]
    BY <1>0, <2>1 DEF Moved
  <2>5. \A j \in Ids : Waiting(j)' => Waiting(j)
    BY <1>1, <2>4
  <2> QED BY <1>0, <2>2, <2>3, <2>5, OpensKept
<1>7. ASSUME NEW p \in Ends, ReceiveFrame(p) PROVE Opens'
  <2> DEFINE i == Head(wire[Other(p)]).stream
  <2>1. /\ i \in Ids /\ Moved(p, i) /\ Gets(p, st[p][i], st'[p][i], Head(wire[Other(p)]))
        /\ i \in streams[p]
        /\ RemoveStream(p, i, cursor[p]) \/ UNCHANGED <<streams, order, cursor>>
    BY <1>7, ReceiveFrameStream
  <2>2. st'[p][i].open = st[p][i].open /\ st'[p][i].late = st[p][i].late
    BY <2>1 DEF Gets, SameControl
  <2> HIDE DEF i
  <2>3. \A j \in Ids : /\ st'["client"][j].open = st["client"][j].open
                       /\ st'["client"][j].late = st["client"][j].late
    BY <1>0, <2>1, <2>2 DEF Moved
  <2>4. \A j \in Ids : Waiting(j)' => Waiting(j)
    BY <1>1, <2>3
  <2> QED BY <2>1, <2>4, RetireOpens
<1>8. ASSUME UNCHANGED <<st, order, cursor>> PROVE Opens'
  BY <1>8 DEF Opens, Waiting
<1>9. ASSUME NEW p \in Ends, ReceiveRetired(p) PROVE Opens'
  <2>1. UNCHANGED <<st, order, cursor>>
    BY <1>9 DEF ReceiveRetired
  <2> QED BY <1>8, <2>1
<1>10. ASSUME NEW p \in Ends, Take(p) PROVE Opens'
  BY <1>10, TakeOpens
<1>11. ASSUME NEW p \in Ends, Close(p) PROVE Opens'
  <2>1. UNCHANGED <<order, cursor>>
    BY <1>11 DEF Close
  <2>2. ASSUME NEW j \in Ids
        PROVE  /\ st'["client"][j].open = st["client"][j].open
               /\ st'["client"][j].late = st["client"][j].late
    <3>1. st'["client"][j] = st["client"][j] \/ st'["client"][j] = ClosedStream(st["client"][j])
      BY <1>0, <1>11, CloseStreams
    <3>2. st["client"][j] \in StreamRecords
      BY <1>0, OneStream
    <3> QED BY <3>1, <3>2, ClosedStreamKeeps DEF SameControl
  <2>3. \A j \in Ids : Waiting(j)' => Waiting(j)
    BY <1>1, <2>2
  <2> QED BY <1>0, <2>1, <2>3, OpensKept
<1>12. ASSUME NEW p \in Ends, CarrierCheck(p) \/ TakeEnd(p) PROVE Opens'
  <2>1. UNCHANGED <<st, order, cursor>>
    BY <1>12 DEF CarrierCheck, TakeEnd
  <2> QED BY <1>8, <2>1
<1>13. CASE UNCHANGED vars
  BY <1>8, <1>13 DEF vars
<1> QED
  BY <1>2, <1>4, <1>5, <1>6, <1>7, <1>9, <1>10, <1>11, <1>12, <1>13, NextCases
LEMMA OpensInit == ASSUME Init PROVE Opens
<1>1. order["client"] = <<>>
  BY DEF Init, Ends
<1> QED BY <1>1 DEF Opens
-----------------------------------------------------------------------------
(* OPEN comes first of a stream's frames, but for the RESET of a stream that
   never opened, and in the order of the ids, but for those passed over. *)

\* The receiver has seen the OPEN of stream i, or it is among the first n of
\* the frames w on their way; h is the highest id seen.
Known(w, n, h, i) == i <= h \/ \E k \in 1..n : w[k].kind = "OPEN" /\ w[k].stream = i

\* The frames w with respect to the streams whose OPEN waits for its turn,
\* those whose OPEN was sent, those whose OPEN was passed over once and those
\* that have left with their OPEN unsent.
InOrder(w, h, waiting, sent, late, broken) ==
  /\ \A j, k \in 1..Len(w) :
       j < k /\ w[j].kind = "OPEN" /\ w[k].kind = "OPEN" /\ w[k].stream \notin late
         => w[j].stream < w[k].stream
  /\ \A k \in 1..Len(w) : w[k].kind = "OPEN" /\ w[k].stream \notin late => w[k].stream > h
  /\ \A k \in 1..Len(w) : w[k].kind = "OPEN" => \A i \in waiting : w[k].stream < i
  /\ \A k \in 1..Len(w) : w[k].kind # "OPEN" =>
       Known(w, k - 1, h, w[k].stream) \/ (w[k].kind = "RESET" /\ w[k].stream \in broken)
  /\ \A i \in waiting : i > h
  /\ \A i \in sent : Known(w, Len(w), h, i)

LEMMA FewerInOrder ==
  ASSUME NEW w, NEW h, NEW W, NEW N, NEW L, NEW B, InOrder(w, h, W, N, L, B),
         NEW V, NEW M, NEW K, NEW A, V \subseteq W, M \subseteq N, L \subseteq K, B \subseteq A
  PROVE  InOrder(w, h, V, M, K, A)
  BY DEF InOrder

LEMMA TailInOrder ==
  ASSUME NEW w \in Seq(Frames), w # <<>>, NEW h \in Nat, NEW W \in SUBSET Ids, NEW N \in SUBSET Ids,
         NEW L, NEW B, InOrder(w, h, W, N, L, B), w[1].kind = "OPEN" => w[1].stream > h,
         NEW g, g = IF w[1].kind = "OPEN" THEN w[1].stream ELSE h
  PROVE  InOrder(Tail(w), g, W, N, L, B)
<1> DEFINE v == Tail(w)
<1>1. /\ v \in Seq(Frames) /\ Len(w) \in Nat \ {0} /\ Len(v) = Len(w) - 1
      /\ \A k \in 1..Len(w) - 1 : v[k] = w[k + 1]
  BY HeadItem
<1>2. \A k \in 1..Len(w) : w[k].stream \in Nat
  BY FrameAt
<1>3. \A i \in Ids : i \in Nat
  BY IdIsNat
<1> HIDE DEF v
<1>4. 1 \in 1..Len(w) /\ \A k \in 1..Len(v) : k + 1 \in 1..Len(w) /\ v[k] = w[k + 1] /\ k \in Nat
  BY <1>1
<1>5. g \in Nat /\ h <= g
  BY <1>2, <1>4
<1>6. ASSUME NEW n \in 1..Len(w), NEW i \in Nat, Known(w, n, h, i) PROVE Known(v, n - 1, g, i)
  <2>1. CASE i <= h
    BY <1>5, <2>1 DEF Known
  <2>2. ASSUME NEW k \in 1..n, w[k].kind = "OPEN", w[k].stream = i PROVE Known(v, n - 1, g, i)
    <3>1. CASE k = 1
      BY <1>5, <2>2, <3>1 DEF Known
    <3>2. CASE k # 1
      <4>1. k - 1 \in 1..n - 1 /\ k - 1 \in 1..Len(v) /\ (k - 1) + 1 = k
        BY <1>1, <3>2
      <4>2. v[k - 1] = w[k]
        BY <1>4, <4>1
      <4> QED BY <2>2, <4>1, <4>2 DEF Known
    <3> QED BY <3>1, <3>2
  <2> QED BY <1>6, <2>1, <2>2 DEF Known
<1>7. ASSUME NEW j \in 1..Len(v), NEW k \in 1..Len(v), j < k, v[j].kind = "OPEN", v[k].kind = "OPEN",
             v[k].stream \notin L
      PROVE  v[j].stream < v[k].stream
  <2>1. j + 1 < k + 1 /\ j + 1 \in 1..Len(w) /\ k + 1 \in 1..Len(w)
    BY <1>4, <1>7
  <2> QED BY <1>4, <1>7, <2>1 DEF InOrder
<1>8. ASSUME NEW k \in 1..Len(v), v[k].kind = "OPEN"
      PROVE  (v[k].stream \notin L => v[k].stream > g) /\ \A i \in W : v[k].stream < i
  <2>1. 1 < k + 1 /\ k + 1 \in 1..Len(w) /\ v[k] = w[k + 1]
    BY <1>4
  <2>2. w[1].kind = "OPEN" /\ v[k].stream \notin L => w[1].stream < v[k].stream
    BY <1>4, <1>8, <2>1 DEF InOrder
  <2>3. (v[k].stream \notin L => v[k].stream > h) /\ \A i \in W : v[k].stream < i
    BY <1>8, <2>1 DEF InOrder
  <2> QED BY <1>2, <1>4, <2>1, <2>2, <2>3
<1>9. ASSUME NEW k \in 1..Len(v), v[k].kind # "OPEN", ~(v[k].kind = "RESET" /\ v[k].stream \in B)
      PROVE  Known(v, k - 1, g, v[k].stream)
  <2>1. k + 1 \in 1..Len(w) /\ v[k] = w[k + 1] /\ (k + 1) - 1 = k /\ k \in 1..Len(w)
    BY <1>1, <1>4
  <2>2. Known(w, k, h, v[k].stream)
    BY <1>9, <2>1 DEF InOrder
  <2> QED BY <1>2, <1>6, <2>1, <2>2
<1>10. \A i \in W : i > g
  BY <1>4 DEF InOrder
<1>11. ASSUME NEW i \in N PROVE Known(v, Len(v), g, i)
  <2>1. Known(w, Len(w), h, i) /\ Len(w) \in 1..Len(w) /\ Len(v) = Len(w) - 1 /\ i \in Nat
    BY <1>1, <1>3 DEF InOrder
  <2> QED BY <1>6, <2>1
<1> QED BY <1>7, <1>8, <1>9, <1>10, <1>11 DEF InOrder, v
\* One frame more at the end of w: what was known still is.
LEMMA KnownLonger ==
  ASSUME NEW w \in Seq(Frames), NEW f \in Frames, NEW v, v = Append(w, f), NEW n \in 0..Len(w),
         NEW h, NEW i, Known(w, n, h, i)
  PROVE  Known(v, n, h, i)
<1>1. \A k \in 1..Len(w) : v[k] = w[k]
  BY AppendItems
<1>2. \A k \in 1..n : k \in 1..Len(w)
  OBVIOUS
<1> QED BY <1>1, <1>2 DEF Known

LEMMA SendInOrder ==
  ASSUME NEW w \in Seq(Frames), NEW f \in Frames, NEW h \in Nat, NEW W \in SUBSET Ids, NEW N \in SUBSET Ids,
         NEW L, NEW B, InOrder(w, h, W, N, L, B), f.kind # "OPEN",
         f.stream \in N \/ (f.kind = "RESET" /\ f.stream \in B)
  PROVE  InOrder(Append(w, f), h, W, N, L, B)
<1> DEFINE v == Append(w, f)
           n == Len(w)
<1>1. /\ n \in Nat /\ Len(v) = n + 1 /\ v[n + 1] = f
      /\ \A k \in 1..n : v[k] = w[k] /\ k \in 1..Len(v)
      /\ \A k \in 1..Len(v) : k \in 1..n \/ k = n + 1
  BY AppendItems
<1>2. \A k \in 0..n, i \in Ids : Known(w, k, h, i) => Known(v, k, h, i)
  BY KnownLonger
<1>3. \A k \in 1..n : w[k].stream \in Ids
  BY FrameAt
<1> HIDE DEF v, n
<1>4. \A k \in 1..Len(v) : v[k].kind = "OPEN" => k \in 1..n /\ v[k] = w[k]
  BY <1>1
<1>5. \A j, k \in 1..Len(v) :
        j < k /\ v[j].kind = "OPEN" /\ v[k].kind = "OPEN" /\ v[k].stream \notin L
          => v[j].stream < v[k].stream
  BY <1>4 DEF InOrder, n
<1>6. \A k \in 1..Len(v) : v[k].kind = "OPEN" =>
        (v[k].stream \notin L => v[k].stream > h) /\ \A i \in W : v[k].stream < i
  BY <1>4 DEF InOrder, n
<1>7. ASSUME NEW k \in 1..Len(v), v[k].kind # "OPEN", ~(v[k].kind = "RESET" /\ v[k].stream \in B)
      PROVE  Known(v, k - 1, h, v[k].stream)
  <2>1. CASE k \in 1..n
    <3>1. k - 1 \in 0..n /\ v[k] = w[k] /\ v[k].stream \in Ids
      BY <1>1, <1>3, <2>1
    <3>2. Known(w, k - 1, h, v[k].stream)
      BY <1>7, <2>1, <3>1 DEF InOrder, n
    <3> QED BY <1>2, <3>1, <3>2
  <2>2. CASE k = n + 1
    <3>0. f.stream \in N
      BY <1>1, <1>7, <2>2
    <3>1. Known(w, n, h, f.stream) /\ n \in 0..n /\ k - 1 = n /\ f.stream \in Ids
      BY <1>1, <2>2, <3>0 DEF InOrder, n
    <3> QED BY <1>1, <1>2, <2>2, <3>1
  <2> QED BY <1>1, <2>1, <2>2
<1>8. ASSUME NEW i \in N PROVE Known(v, Len(v), h, i)
  <2>1. Known(w, n, h, i) /\ n \in 0..n /\ i \in Ids
    BY <1>1 DEF InOrder, n
  <2>2. Known(v, n, h, i)
    BY <1>2, <2>1
  <2>3. \A k \in 1..n : k \in 1..Len(v)
    BY <1>1
  <2> QED BY <2>2, <2>3 DEF Known
<1>9. \A i \in W : i > h
  BY DEF InOrder
<1> QED BY <1>5, <1>6, <1>7, <1>8, <1>9 DEF InOrder, v

LEMMA OpenInOrder ==
  ASSUME NEW w \in Seq(Frames), NEW f \in Frames, NEW h \in Nat, NEW W \in SUBSET Ids, NEW N \in SUBSET Ids,
         NEW L, NEW B, InOrder(w, h, W, N, L, B), f.kind = "OPEN", f.stream \in W \/ f.stream \in L,
         \A i \in W : i # f.stream => f.stream < i
  PROVE  InOrder(Append(w, f), h, W \ {f.stream}, N \cup {f.stream}, L, B)
<1> DEFINE v == Append(w, f)
           n == Len(w)
           W1 == W \ {f.stream}
           N1 == N \cup {f.stream}
<1>1. /\ n \in Nat /\ Len(v) = n + 1 /\ v[n + 1] = f
      /\ \A k \in 1..n : v[k] = w[k] /\ k \in 1..Len(v)
      /\ \A k \in 1..Len(v) : k \in 1..n \/ k = n + 1
  BY AppendItems
<1>2. \A k \in 0..n, i \in Ids : Known(w, k, h, i) => Known(v, k, h, i)
  BY KnownLonger
<1>3. \A k \in 1..n : w[k].stream \in Ids
  BY FrameAt
<1> HIDE DEF v, n
<1>5. ASSUME NEW j \in 1..Len(v), NEW k \in 1..Len(v), j < k, v[j].kind = "OPEN", v[k].kind = "OPEN",
             v[k].stream \notin L
      PROVE  v[j].stream < v[k].stream
  <2>0. j \in 1..n /\ v[j] = w[j]
    BY <1>1, <1>5
  <2>1. CASE k \in 1..n
    BY <1>1, <1>5, <2>0, <2>1 DEF InOrder, n
  <2>2. CASE k = n + 1
    BY <1>1, <1>5, <2>0, <2>2 DEF InOrder, n
  <2> QED BY <1>1, <2>1, <2>2
<1>6. ASSUME NEW k \in 1..Len(v), v[k].kind = "OPEN"
      PROVE  (v[k].stream \notin L => v[k].stream > h) /\ \A i \in W1 : v[k].stream < i
  <2>1. CASE k \in 1..n
    BY <1>1, <1>6, <2>1 DEF InOrder, n
  <2>2. CASE k = n + 1
    BY <1>1, <2>2 DEF InOrder
  <2> QED BY <1>1, <2>1, <2>2
<1>7. ASSUME NEW k \in 1..Len(v), v[k].kind # "OPEN", ~(v[k].kind = "RESET" /\ v[k].stream \in B)
      PROVE  Known(v, k - 1, h, v[k].stream)
  <2>1. k \in 1..n
    BY <1>1, <1>7
  <2>2. k - 1 \in 0..n /\ v[k] = w[k] /\ v[k].stream \in Ids
    BY <1>1, <1>3, <2>1
  <2>3. Known(w, k - 1, h, v[k].stream)
    BY <1>7, <2>1, <2>2 DEF InOrder, n
  <2> QED BY <1>2, <2>2, <2>3
<1>8. ASSUME NEW i \in N1 PROVE Known(v, Len(v), h, i)
  <2>1. CASE i \in N
    <3>1. Known(w, n, h, i) /\ n \in 0..n /\ i \in Ids
      BY <1>1, <2>1 DEF InOrder, n
    <3>2. Known(v, n, h, i)
      BY <1>2, <3>1
    <3>3. \A k \in 1..n : k \in 1..Len(v)
      BY <1>1
    <3> QED BY <3>2, <3>3 DEF Known
  <2>2. CASE i = f.stream
    <3>1. n + 1 \in 1..Len(v)
      BY <1>1
    <3> QED BY <1>1, <2>2, <3>1 DEF Known
  <2> QED BY <2>1, <2>2
<1>9. \A i \in W1 : i > h
  BY DEF InOrder
<1> QED BY <1>5, <1>6, <1>7, <1>8, <1>9 DEF InOrder, v

LEMMA NewInOrder ==
  ASSUME NEW w, NEW h, NEW W, NEW N, NEW L, NEW B, InOrder(w, h, W, N, L, B), NEW i, i > h,
         \A k \in 1..Len(w) : w[k].stream < i /\ w[k].stream # i
  PROVE  InOrder(w, h, W \cup {i}, N, L \ {i}, B \ {i})
  BY DEF InOrder

\* The client's streams whose OPEN waits for its turn, those whose OPEN has
\* left, those take has passed over and those that are gone without an OPEN.
Waits == {i \in streams["client"] : Waiting(i)}
Sent == {i \in streams["client"] : ~st["client"][i].open}
Lates == {i \in Ids : st["client"][i].late}
Broken == {i \in Ids \ streams["client"] : st["client"][i].open}
OpenFrames == InOrder(wire["client"], highest["server"], Waits, Sent, Lates, Broken)

LEMMA OpenFramesInit == ASSUME Init PROVE OpenFrames
<1>1. wire["client"] = <<>> /\ streams["client"] = {}
  BY DEF Init, Ends
<1>2. Waits = {} /\ Sent = {} /\ Len(<<>>) = 0
  BY <1>1 DEF Waits, Sent
<1> QED BY <1>1, <1>2 DEF OpenFrames, InOrder

\* What no OPEN frame or waiting stream notices.
LEMMA OpenFramesKept ==
  ASSUME OpenFrames, wire'["client"] = wire["client"], highest'["server"] = highest["server"],
         streams["client"] \subseteq Ids, streams'["client"] \subseteq streams["client"],
         \A i \in Ids : /\ st'["client"][i].open = st["client"][i].open
                        /\ st'["client"][i].late = st["client"][i].late
  PROVE  OpenFrames'
<1>1. Waits' \subseteq Waits /\ Sent' \subseteq Sent /\ Lates \subseteq Lates' /\ Broken \subseteq Broken'
  BY DEF Waits, Sent, Lates, Broken, Waiting
<1> QED BY <1>1, FewerInOrder DEF OpenFrames
LEMMA OpenSetsTypes ==
  ASSUME Shapes
  PROVE  Waits \in SUBSET Ids /\ Sent \in SUBSET Ids /\ wire["client"] \in Seq(Frames)
         /\ highest["server"] \in Nat
  BY ClientTypes DEF Waits, Sent

\* The server receives a frame of the client.
LEMMA OpenFramesConsumed ==
  ASSUME Shapes, OpenFrames, wire["client"] # <<>>, wire'["client"] = Tail(wire["client"]),
         wire["client"][1].kind = "OPEN" => wire["client"][1].stream > highest["server"],
         highest'["server"] = (IF wire["client"][1].kind = "OPEN" THEN wire["client"][1].stream
                               ELSE highest["server"]),
         streams'["client"] = streams["client"],
         \A i \in Ids : st'["client"][i] = st["client"][i]
  PROVE  OpenFrames'
<1>1. Waits' = Waits /\ Sent' = Sent /\ Lates' = Lates /\ Broken' = Broken
  BY ClientTypes DEF Waits, Sent, Lates, Broken, Waiting
<1>2. InOrder(Tail(wire["client"]), highest'["server"], Waits, Sent, Lates, Broken)
  BY OpenSetsTypes, TailInOrder DEF OpenFrames
<1> QED BY <1>1, <1>2 DEF OpenFrames

\* The stream whose turn it is comes before all others whose OPEN waits.
LEMMA NextToOpen ==
  ASSUME Shapes, Scheduling, Opens, NEW c, NEW j \in Ids, NEW a, NEW m, Turn("client", c, j, a, m),
         NEW i \in streams["client"], Waiting(i), i # j
  PROVE  j < i
<1> DEFINE o == order["client"]
           n == Len(o)
           d == cursor["client"]
<1>0. "client" \in Ends /\ n \in Nat /\ d \in Nat /\ (\A k \in 1..n : o[k] \in Nat)
  BY ClientTypes
<1>1. c \in 0..n - 1 /\ (c = d \/ (c = 0 /\ d = n)) /\ j = o[c + 1]
  BY DEF Turn
<1>2. PICK k \in 1..n : o[k] = i
  BY <1>0 DEF Scheduling, Listed
<1>3. c + 1 \in 1..n
  BY <1>0, <1>1
<1>4. k > d /\ k # c + 1
  BY <1>1, <1>2, <1>3 DEF Opens
<1>5. c + 1 < k
  <2> HIDE DEF n, d, o
  <2> QED BY <1>0, <1>1, <1>2, <1>3, <1>4
<1> QED BY <1>1, <1>2, <1>3, <1>5 DEF Opens

LEMMA TakeOpenFrames ==
  ASSUME Shapes, Scheduling, Opens, OpenFrames, NEW e \in Ends, Take(e)
  PROVE  OpenFrames'
<1>1. PICK c \in Nat, j \in Ids : \E a, m : Turn(e, c, j, a, m)
  BY TakeForm
<1>2. PICK a, m : Turn(e, c, j, a, m)
  BY <1>1
<1> DEFINE w == wire["client"]
           h == highest["server"]
           s == st["client"][j]
           t == st'["client"][j]
<1>0. /\ "client" \in Ends /\ "server" \in Ends /\ streams["client"] \subseteq Ids
      /\ Other("server") = "client" /\ e \in {"client", "server"} /\ "client" # "server"
  BY ClientTypes
<1>3. /\ \A f : m = <<f>> => (f.kind = "OPEN" => st[e][j].open /\ ~st'[e][j].open)
      /\ st[e][j].open => Opening(j, st[e][j], st'[e][j], m)
      /\ ~st[e][j].open => st'[e][j].late = st[e][j].late
      /\ \A i \in Ids : Asks(e, i)
  BY <1>2, TurnAsked
<1>4. highest' = highest
  BY Zenon DEF Take
<1>5. /\ j \in streams[e] /\ Moved(e, j) /\ wire'[Other(e)] = wire[Other(e)]
      /\ RemoveStream(e, j, c + 1) \/ (UNCHANGED streams /\ ~st[e][j].reset)
  BY <1>2 DEF Turn, Leaves
<1>6. streams'["client"] \subseteq streams["client"]
  BY <1>0, <1>5, StreamsShrink
<1>7. ASSUME NEW i \in Ids, e # "client" \/ i # j PROVE st'["client"][i] = st["client"][i]
  BY <1>0, <1>5, <1>7 DEF Moved
<1>8. CASE e = "server"
  <2>1. wire'["client"] = w
    BY <1>0, <1>5, <1>8
  <2>2. \A i \in Ids : /\ st'["client"][i].open = st["client"][i].open
                       /\ st'["client"][i].late = st["client"][i].late
    BY <1>0, <1>7, <1>8
  <2> QED BY <1>0, <1>4, <2>1, <2>2, <1>6, OpenFramesKept
<1>9. ASSUME e = "client", s.late => t.late
      PROVE  Lates \subseteq Lates' /\ Broken \subseteq Broken'
  <2>1. j \notin Broken
    BY <1>5, <1>9 DEF Broken
  <2>2. Broken \subseteq Broken'
    BY <1>6, <1>7, <2>1 DEF Broken
  <2>3. Lates \subseteq Lates'
    BY <1>7, <1>9 DEF Lates
  <2> QED BY <2>2, <2>3
<1>10. ASSUME e = "client", NEW f, m = <<f>> PROVE f \in Frames /\ wire'["client"] = Append(w, f)
  <2>1. m # <<>>
    BY <1>10
  <2>2. PICK g \in Frames : m = <<g>> /\ wire'["client"] = Append(w, g)
    <3>1. \/ m = <<>>
          \/ \E g \in Frames : m = <<g>> /\ g.stream = j /\ wire'[e] = Append(wire[e], g)
      BY <1>2, TurnWire
    <3> QED BY <1>10, <2>1, <3>1
  <2>3. g = f
    <3>1. <<g>>[1] = <<f>>[1]
      BY <1>10, <2>2
    <3> QED BY <3>1
  <2> QED BY <2>2, <2>3
<1>11. CASE e = "client" /\ s.open /\ s.reset
  <2> DEFINE f == Frame("RESET", j, 0, 0)
  <2>1. m = <<f>> /\ t.open /\ t.late = s.late
    BY <1>3, <1>11 DEF Opening
  <2>2. f \in Frames /\ wire'["client"] = Append(w, f) /\ f.kind = "RESET" /\ f.stream = j
    BY <1>10, <1>11, <2>1 DEF Frame
  <2> HIDE DEF f
  <2>3. j \notin streams'["client"] /\ j \in Broken'
    <3>1. streams' = [streams EXCEPT !["client"] = @ \ {j}]
      BY <1>5, <1>11, Zenon DEF RemoveStream
    <3>2. j \notin streams'["client"]
      BY <1>0, <3>1 DEF Shapes
    <3> QED BY <2>1, <3>2 DEF Broken
  <2>4. Waits' \subseteq Waits /\ Sent' \subseteq Sent
    BY <1>0, <1>6, <1>7, <2>3 DEF Waits, Sent, Waiting
  <2>5. Lates \subseteq Lates' /\ Broken \subseteq Broken'
    BY <1>9, <1>11, <2>1
  <2>6. InOrder(w, h, Waits, Sent, Lates', Broken')
    BY <2>5, FewerInOrder DEF OpenFrames
  <2>7. InOrder(Append(w, f), h, Waits, Sent, Lates', Broken')
    BY <2>2, <2>3, <2>6, OpenSetsTypes, SendInOrder
  <2> QED BY <1>4, <2>2, <2>4, <2>7, FewerInOrder DEF OpenFrames
<1>12. CASE e = "client" /\ s.open /\ ~s.reset /\ m # <<>>
  <2> DEFINE f == Frame("OPEN", j, 0, OpenBody[j])
  <2>1. m = <<f>> /\ ~t.open /\ t.late = s.late
    BY <1>3, <1>12 DEF Opening
  <2>2. f \in Frames /\ wire'["client"] = Append(w, f) /\ f.kind = "OPEN" /\ f.stream = j
    BY <1>10, <1>12, <2>1 DEF Frame
  <2> HIDE DEF f
  <2>3. /\ j \in Waits \/ j \in Lates
        /\ \A i \in Waits : i # j => j < i
    BY <1>2, <1>5, <1>12, NextToOpen DEF Waits, Lates, Waiting
  <2>4. InOrder(Append(w, f), h, Waits \ {j}, Sent \cup {j}, Lates, Broken)
    <3>1. /\ f.stream \in Waits \/ f.stream \in Lates
          /\ \A i \in Waits : i # f.stream => f.stream < i
      BY <2>2, <2>3
    <3>2. InOrder(Append(w, f), h, Waits \ {f.stream}, Sent \cup {f.stream}, Lates, Broken)
      BY <2>2, <3>1, OpenSetsTypes, OpenInOrder DEF OpenFrames
    <3> QED BY <2>2, <3>2
  <2>5. Waits' \subseteq Waits \ {j} /\ Sent' \subseteq Sent \cup {j}
    BY <1>0, <1>6, <1>7, <2>1 DEF Waits, Sent, Waiting
  <2>6. Lates \subseteq Lates' /\ Broken \subseteq Broken'
    BY <1>9, <1>12, <2>1
  <2> QED BY <1>4, <2>2, <2>4, <2>5, <2>6, FewerInOrder DEF OpenFrames
<1>13. CASE e = "client" /\ s.open /\ ~s.reset /\ m = <<>>
  <2>1. t.open /\ t.late
    <3>1. \A f : <<f>> # <<>>
      OBVIOUS
    <3> QED BY <1>3, <1>13, <3>1 DEF Opening
  <2>2. wire'["client"] = w
    <3>1. \A f : <<f>> # <<>>
      OBVIOUS
    <3>2. \/ wire' = wire
          \/ \E f \in Frames : m = <<f>> /\ f.stream = j /\ wire'[e] = Append(wire[e], f)
      BY <1>2, TurnWire
    <3> QED BY <1>13, <3>1, <3>2
  <2>3. Waits' \subseteq Waits /\ Sent' \subseteq Sent
    BY <1>0, <1>6, <1>7, <2>1 DEF Waits, Sent, Waiting
  <2>4. Lates \subseteq Lates' /\ Broken \subseteq Broken'
    BY <1>9, <1>13, <2>1
  <2> QED BY <1>4, <2>2, <2>3, <2>4, FewerInOrder DEF OpenFrames
<1>14. CASE e = "client" /\ ~s.open
  <2>1. ~t.open /\ ~s.open /\ t.late = s.late
    BY <1>3, <1>14 DEF Asks
  <2>2. Waits' \subseteq Waits /\ Sent' \subseteq Sent
    BY <1>0, <1>6, <1>7, <2>1 DEF Waits, Sent, Waiting
  <2>3. Lates \subseteq Lates' /\ Broken \subseteq Broken'
    BY <1>9, <1>14, <2>1
  <2>4. CASE wire'["client"] = w
    BY <1>4, <2>2, <2>3, <2>4, FewerInOrder DEF OpenFrames
  <2>5. ASSUME NEW f \in Frames, m = <<f>>, f.stream = j, wire'["client"] = Append(w, f)
        PROVE  OpenFrames'
    <3>1. f.kind # "OPEN"
      BY <1>3, <1>14, <2>1, <2>5
    <3>2. f.stream \in Sent
      BY <1>5, <1>14, <2>5 DEF Sent
    <3>3. InOrder(Append(w, f), h, Waits, Sent, Lates, Broken)
      BY <3>1, <3>2, OpenSetsTypes, SendInOrder DEF OpenFrames
    <3> QED BY <1>4, <2>2, <2>3, <2>5, <3>3, FewerInOrder DEF OpenFrames
  <2> QED BY <1>2, <1>14, <2>4, <2>5, TurnWire
<1> QED BY <1>0, <1>8, <1>11, <1>12, <1>13, <1>14

LEMMA OpenFramesStep ==
  ASSUME Shapes, Scheduling, Wires, Opens, OpenFrames, [Next]_vars
  PROVE  OpenFrames'
<1> USE DEF pvars, cvars
<1>0. /\ "client" \in Ends /\ "server" \in Ends /\ "client" # "server" /\ streams["client"] \subseteq Ids
      /\ Other("client") = "server" /\ Other("server") = "client"
      /\ \A p \in Ends : p = "client" \/ p = "server"
  BY ClientTypes
<1>1. ASSUME NEW i \in Ids, Open(i) PROVE OpenFrames'
  <2>1. Moved("client", i) /\ st'["client"][i].open = TRUE /\ st'["client"][i].late = FALSE
    BY <1>1, OpenStream
  <2>2. /\ streams' = [streams EXCEPT !["client"] = @ \cup {i}] /\ wire' = wire
        /\ highest' = [highest EXCEPT !["client"] = i] /\ i = highest["client"] + 1
    BY <1>1 DEF Open, AddStream
  <2>3. streams'["client"] = streams["client"] \cup {i} /\ highest'["server"] = highest["server"]
    BY <1>0, <2>2 DEF Shapes
  <2>4. \A j \in Ids : j # i => st'["client"][j] = st["client"][j]
    BY <1>0, <2>1 DEF Moved
  <2>5. /\ i > highest["server"]
        /\ \A k \in 1..Len(wire["client"]) : wire["client"][k].stream < i /\ wire["client"][k].stream # i
    <3>1. /\ highest["client"] \in Nat /\ highest["server"] \in Nat /\ highest["server"] <= highest["client"]
          /\ \A k \in 1..Len(wire["client"]) :
               wire["client"][k].stream <= highest["client"] /\ wire["client"][k].stream \in Nat
      BY <1>0, ClientTypes, FrameAt DEF Wires
    <3> QED BY <2>2, <3>1
  <2>6. InOrder(wire["client"], highest["server"], Waits \cup {i}, Sent, Lates \ {i}, Broken \ {i})
    BY <2>5, NewInOrder DEF OpenFrames
  <2>7. /\ Waits' \subseteq Waits \cup {i} /\ Sent' \subseteq Sent
        /\ Lates \ {i} \subseteq Lates' /\ Broken \ {i} \subseteq Broken'
    BY <1>0, <2>1, <2>3, <2>4 DEF Waits, Sent, Lates, Broken, Waiting
  <2> QED BY <2>2, <2>3, <2>6, <2>7, FewerInOrder DEF OpenFrames
<1>2. ASSUME NEW p \in Ends, NEW i \in Ids, LocalAction(p, i) \/ WriteFin(p, i), Moved(p, i),
             streams'["client"] \subseteq streams["client"], UNCHANGED <<wire, highest>>
      PROVE  OpenFrames'
  <2>1. st'[p][i].open = st[p][i].open /\ (p = "client" => st'[p][i].late = st[p][i].late)
    BY <1>2, LocalAsks
  <2>2. \A j \in Ids : /\ st'["client"][j].open = st["client"][j].open
                       /\ st'["client"][j].late = st["client"][j].late
    BY <1>0, <1>2, <2>1 DEF Moved
  <2> QED BY <1>0, <1>2, <2>2, OpenFramesKept
<1>3. ASSUME NEW p \in Ends, NEW i \in Ids, LocalAction(p, i) PROVE OpenFrames'
  <2>1. LocalStep(p, i)
    BY <1>3, LocalActionIsLocal
  <2> QED BY <1>2, <1>3, <2>1 DEF LocalStep
<1>4. ASSUME NEW p \in Ends, NEW i \in Ids, WriteFin(p, i) PROVE OpenFrames'
  <2>1. Moved(p, i) /\ (RemoveStream(p, i, cursor[p]) \/ UNCHANGED <<streams, order, cursor>>)
    BY <1>4, WriteFinStream
  <2>2. UNCHANGED <<wire, highest>>
    BY <1>4, Zenon DEF WriteFin
  <2>3. streams'["client"] \subseteq streams["client"]
    BY <1>0, <2>1, StreamsShrink
  <2> QED BY <1>2, <1>4, <2>1, <2>2, <2>3
<1>5. ASSUME NEW p \in Ends, ReceiveOpen(p) PROVE OpenFrames'
  <2> DEFINE f == Head(wire["client"])
  <2>1. p = "server" /\ Consumed("server") /\ f.kind = "OPEN" /\ f.stream \in Ids /\ Moved("server", f.stream)
    BY <1>5, ReceiveOpenStream
  <2>2. /\ streams' = [streams EXCEPT !["server"] = @ \cup {f.stream}]
        /\ highest' = [highest EXCEPT !["server"] = f.stream] /\ f.stream > highest["server"]
    BY <1>5, <2>1 DEF ReceiveOpen, ValidOpen, AddStream, Other
  <2>3. /\ wire["client"] # <<>> /\ wire'["client"] = Tail(wire["client"])
    BY <1>0, <2>1 DEF Consumed
  <2>4. f = wire["client"][1]
    BY <2>3, ClientTypes, HeadItem
  <2>5. highest'["server"] = f.stream /\ streams'["client"] = streams["client"]
    BY <1>0, <2>2 DEF Shapes
  <2>6. \A i \in Ids : st'["client"][i] = st["client"][i]
    BY <1>0, <2>1 DEF Moved
  <2> HIDE DEF f
  <2> QED BY <2>1, <2>2, <2>3, <2>4, <2>5, <2>6, OpenFramesConsumed
<1>6. ASSUME NEW p \in Ends, Consumed(p), Head(wire[Other(p)]).kind # "OPEN", highest' = highest,
             \A e \in Ends : streams'[e] \subseteq streams[e],
             p = "server" => streams'["client"] = streams["client"],
             \A i \in Ids : /\ st'["client"][i].open = st["client"][i].open
                            /\ st'["client"][i].late = st["client"][i].late,
             p = "server" => \A i \in Ids : st'["client"][i] = st["client"][i]
      PROVE  OpenFrames'
  <2>1. CASE p = "client"
    <3>1. wire'["client"] = wire["client"]
      BY <1>6, <2>1 DEF Consumed
    <3> QED BY <1>0, <1>6, <3>1, OpenFramesKept
  <2>2. CASE p = "server"
    <3>1. wire["client"] # <<>> /\ wire'["client"] = Tail(wire["client"])
      BY <1>0, <1>6, <2>2 DEF Consumed
    <3>2. Head(wire["client"]) = wire["client"][1]
      BY <3>1, ClientTypes, HeadItem
    <3>3. wire["client"][1].kind # "OPEN"
      BY <1>0, <1>6, <2>2, <3>2
    <3> QED BY <1>0, <1>6, <2>2, <3>1, <3>3, OpenFramesConsumed
  <2> QED BY <1>0, <2>1, <2>2
<1>7. ASSUME NEW p \in Ends, ReceiveFrame(p) PROVE OpenFrames'
  <2> DEFINE i == Head(wire[Other(p)]).stream
  <2>1. /\ Consumed(p) /\ i \in Ids /\ Moved(p, i) /\ Gets(p, st[p][i], st'[p][i], Head(wire[Other(p)]))
        /\ i \in streams[p]
        /\ RemoveStream(p, i, cursor[p]) \/ UNCHANGED <<streams, order, cursor>>
    BY <1>7, ReceiveFrameStream
  <2>2. highest' = highest /\ Head(wire[Other(p)]).kind # "OPEN"
    BY <1>7, Zenon DEF ReceiveFrame
  <2>3. \A e \in Ends : streams'[e] \subseteq streams[e]
    BY <2>1, StreamsShrink
  <2>4. st'[p][i].open = st[p][i].open /\ st'[p][i].late = st[p][i].late
    BY <2>1 DEF Gets, SameControl
  <2> HIDE DEF i
  <2>5. \A j \in Ids : /\ st'["client"][j].open = st["client"][j].open
                       /\ st'["client"][j].late = st["client"][j].late
    BY <1>0, <2>1, <2>4 DEF Moved
  <2>6. p = "server" => \A j \in Ids : st'["client"][j] = st["client"][j]
    BY <1>0, <2>1 DEF Moved
  <2>7. p = "server" => streams'["client"] = streams["client"]
    <3>1. CASE RemoveStream(p, i, cursor[p])
      <4>1. streams' = [streams EXCEPT ![p] = @ \ {i}]
        BY <3>1, Zenon DEF RemoveStream
      <4> QED BY <1>0, <4>1 DEF Shapes
    <3>2. CASE UNCHANGED <<streams, order, cursor>>
      BY <3>2
    <3> QED BY <2>1, <3>1, <3>2
  <2> QED BY <1>6, <2>1, <2>2, <2>3, <2>5, <2>6, <2>7
<1>8. ASSUME NEW p \in Ends, ReceiveRetired(p) PROVE OpenFrames'
  <2>1. UNCHANGED <<st, streams, highest>> /\ Head(wire[Other(p)]).kind # "OPEN" /\ Arriving(p) /\ Consume(p)
    BY <1>8 DEF ReceiveRetired
  <2>2. Consumed(p)
    BY <2>1, ConsumeForm
  <2> QED BY <1>6, <2>1, <2>2
<1>9. ASSUME NEW p \in Ends, Take(p) PROVE OpenFrames'
  BY <1>9, TakeOpenFrames
<1>10. ASSUME NEW p \in Ends, Close(p) PROVE OpenFrames'
  <2>1. UNCHANGED <<streams, highest, wire>>
    BY <1>10 DEF Close
  <2>2. ASSUME NEW j \in Ids
        PROVE  /\ st'["client"][j].open = st["client"][j].open
               /\ st'["client"][j].late = st["client"][j].late
    <3>1. st'["client"][j] = st["client"][j] \/ st'["client"][j] = ClosedStream(st["client"][j])
      BY <1>0, <1>10, CloseStreams
    <3>2. st["client"][j] \in StreamRecords
      BY <1>0, OneStream
    <3> QED BY <3>1, <3>2, ClosedStreamKeeps DEF SameControl
  <2> QED BY <1>0, <2>1, <2>2, OpenFramesKept
<1>11. ASSUME UNCHANGED <<st, streams, highest, wire>> PROVE OpenFrames'
  BY <1>0, <1>11, OpenFramesKept
<1>12. ASSUME NEW p \in Ends, CarrierCheck(p) \/ TakeEnd(p) PROVE OpenFrames'
  <2>1. UNCHANGED <<st, streams, highest, wire>>
    BY <1>12 DEF CarrierCheck, TakeEnd
  <2> QED BY <1>11, <2>1
<1>13. CASE UNCHANGED vars
  BY <1>11, <1>13 DEF vars
<1> QED
  BY <1>1, <1>3, <1>4, <1>5, <1>7, <1>8, <1>9, <1>10, <1>12, <1>13, NextCases
-----------------------------------------------------------------------------
(* Which frames pass the checks of Receive. *)

\* The inductive invariant: the tables, the accounts of the two flow controls,
\* the half-closes, the offsets, the roles of the ends and the OPEN frames.
Protocol ==
  /\ Shapes /\ Scheduling /\ Wires /\ Idle /\ Fresh /\ CreditConserved
  /\ Orderly /\ Pipe /\ FinLast /\ FinGot
  /\ Chains /\ OffsetsAgree /\ Roles /\ DataFits /\ CreditFits
  /\ Opens /\ OpenFrames

LEMMA ProtocolInit == Init => Protocol
  BY ShapesInit, CreditInit, DeliveryInit, FinInit, OffsetsInit, RolesInit, FitsInit, OpensInit,
     OpenFramesInit DEF Protocol

LEMMA ProtocolStep == Protocol /\ [Next]_vars => Protocol'
<1> SUFFICES ASSUME Protocol, [Next]_vars PROVE Protocol'
  OBVIOUS
<1> USE DEF Protocol
<1>1. Shapes' /\ Scheduling' /\ Wires' /\ Idle' /\ Orderly' /\ Roles'
  BY ShapesStep, SchedulingStep, WiresStep, IdleStep, OrderlyStep, RolesStep
<1>2. Fresh'
  BY <1>1, FreshStep
<1>3. CreditConserved'
  BY <1>1, <1>2, CreditStep
<1>4. Pipe' /\ FinLast' /\ FinGot'
  BY <1>1, FinStep
<1>5. Chains' /\ OffsetsAgree'
  BY <1>1, OffsetsStep
<1>6. DataFits' /\ CreditFits'
  BY <1>1, FitsStep
<1>7. Opens' /\ OpenFrames'
  BY <1>1, OpensStep, OpenFramesStep
<1> QED BY <1>1, <1>2, <1>3, <1>4, <1>5, <1>6, <1>7

\* A frame of a stream its receiver has passes the checks of its kind.
LEMMA HeadIsValid ==
  ASSUME Protocol, NEW p \in Ends, wire[Other(p)] # <<>>, wire[Other(p)][1].kind # "OPEN",
         wire[Other(p)][1].stream \in streams[p]
  PROVE  Valid(p, wire[Other(p)][1])
<1> USE DEF Protocol
<1> DEFINE q == Other(p)
           w == wire[q]
           f == w[1]
           i == f.stream
           s == st[p][i]
<1>1. q \in Ends /\ Other(q) = p /\ w \in Seq(Frames) /\ w # <<>>
  BY EndsPair DEF Shapes
<1>2. 1 \in 1..Len(w)
  BY <1>1, HeadItem
<1>3. f \in Frames /\ i \in Ids /\ f.len \in Nat /\ f.kind \in Kinds
  BY <1>1, <1>2, FrameAt
<1>4. i \in streams[p] /\ f.kind # "OPEN" /\ Listening(p, i)
  BY DEF Listening
<1>5. s.credit \in Nat /\ s.budget \in Nat /\ Window(q) \in Nat
  BY <1>3, OneStream, Amounts, WindowIsNat
<1>6. /\ Carried(w, "DATA", i) <= s.budget /\ Carried(w, "DATA", i) \in Nat
      /\ s.credit + Carried(w, "CREDIT", i) <= Window(q) /\ Carried(w, "CREDIT", i) \in Nat
  BY <1>1, <1>3, <1>4, CarriedIsNat DEF DataFits, CreditFits, Limit
<1>7. Linked(w, i, s.nextIn, Offset(st[q][i]))
  BY <1>1, <1>3, <1>4 DEF OffsetsAgree
<1>8. s.remoteFin => ~Bearing(f, i)
  BY <1>1, <1>2, <1>3 DEF FinGot
<1>9. f.len <= Carried(w, f.kind, i)
  BY <1>1, <1>2, CarriedBounds
<1>10. f.kind = "OPENED" => p = "client"
  BY <1>2 DEF Roles, Other, Ends
<1> HIDE DEF q, w, f, Protocol
<1>11. CASE f.kind \in {"DATA", "FIN"}
  <2>1. Bearing(f, i)
    BY <1>11 DEF Bearing
  <2>2. ~s.remoteFin /\ f.sequence = s.nextIn
    BY <1>1, <1>7, <1>8, <2>1, LinkedHead DEF f
  <2>3. f.kind = "DATA" => f.len <= s.budget
    BY <1>3, <1>5, <1>6, <1>9
  <2>4. Valid(p, f)
    BY <1>11, <2>2, <2>3 DEF Valid
  <2> QED BY <2>4 DEF f, w, q
<1>12. CASE f.kind = "CREDIT"
  <2>1. f.len <= Window(q) - s.credit
    BY <1>3, <1>5, <1>6, <1>9, <1>12
  <2>2. Valid(p, f)
    BY <1>12, <2>1 DEF Valid, q
  <2> QED BY <2>2 DEF f, w, q
<1>13. CASE f.kind \in {"OPENED", "RESET"}
  <2>1. Valid(p, f)
    BY <1>10, <1>13 DEF Valid
  <2> QED BY <2>1 DEF f, w, q
<1> QED BY <1>3, <1>4, <1>11, <1>12, <1>13 DEF Kinds

\* What is left when the head of a wire is ahead of its receiver's highest id,
\* or an OPEN is not.
LEMMA HeadIsOrdered ==
  ASSUME Protocol, NEW p \in Ends, wire[Other(p)] # <<>>
  PROVE  LET f == wire[Other(p)][1] IN
         /\ f.kind = "OPEN" => /\ p = "server" /\ f.stream \in Ids
                               /\ f.stream > highest[p] \/ st["client"][f.stream].late
         /\ f.kind # "OPEN" =>
              \/ f.stream <= highest[p]
              \/ p = "server" /\ f.kind = "RESET" /\ f.stream \in Broken
<1> USE DEF Protocol
<1> DEFINE w == wire[Other(p)]
           f == w[1]
<1>0. /\ "client" \in Ends /\ "server" \in Ends /\ Other("client") = "server" /\ Other("server") = "client"
      /\ \A e \in Ends : e = "client" \/ e = "server"
  BY ClientTypes
<1>1. w \in Seq(Frames) /\ w # <<>>
  BY EndsPair DEF Shapes
<1>2. 1 \in 1..Len(w) /\ f.stream \in Nat /\ f.stream \in Ids
  BY <1>1, HeadItem, FrameAt
<1>3. CASE p = "server"
  <2>1. InOrder(w, highest["server"], Waits, Sent, Lates, Broken)
    BY <1>0, <1>3 DEF OpenFrames
  <2>2. f.kind # "OPEN" =>
          Known(w, 0, highest["server"], f.stream) \/ (f.kind = "RESET" /\ f.stream \in Broken)
    <3>1. 1 - 1 = 0
      OBVIOUS
    <3> QED BY <1>2, <2>1, <3>1 DEF InOrder
  <2>3. f.kind = "OPEN" => f.stream > highest["server"] \/ f.stream \in Lates
    BY <1>2, <2>1 DEF InOrder
  <2>4. Known(w, 0, highest["server"], f.stream) => f.stream <= highest["server"]
    BY DEF Known
  <2>5. f.stream \in Lates => st["client"][f.stream].late
    BY DEF Lates
  <2> QED BY <1>2, <1>3, <2>2, <2>3, <2>4, <2>5
<1>4. CASE p = "client"
  <2>1. f.kind # "OPEN" /\ f.stream <= highest["server"] /\ highest["server"] <= highest["client"]
    BY <1>0, <1>2, <1>4 DEF Roles, Wires
  <2>2. highest["server"] \in Nat /\ highest["client"] \in Nat
    BY ClientTypes
  <2>3. f.stream <= highest["client"]
    <3> HIDE DEF f
    <3> QED BY <1>2, <2>1, <2>2
  <2> QED BY <1>4, <2>1, <2>3
<1> QED BY <1>0, <1>3, <1>4

LEMMA RefusedHead ==
  ASSUME Protocol, NEW p \in Ends, Refused(p)
  PROVE  LET f == Head(wire[Other(p)]) IN
         /\ p = "server" /\ wire["client"] # <<>> /\ f = wire["client"][1] /\ f.stream \in Ids
         /\ \/ f.kind = "OPEN" /\ (Cardinality(streams[p]) >= MaxStreams \/ st["client"][f.stream].late)
            \/ f.kind = "RESET" /\ f.stream \in Broken
<1> DEFINE f == wire[Other(p)][1]
<1>0. wire[Other(p)] # <<>> /\ wire[Other(p)] \in Seq(Frames) /\ Other("server") = "client"
  BY EndsPair DEF Refused, Protocol, Shapes, Other
<1>1. Head(wire[Other(p)]) = f /\ 1 \in 1..Len(wire[Other(p)])
  BY <1>0, HeadItem
<1>2. f.stream \in Ids /\ f.stream \in Nat /\ highest[p] \in Nat
  BY <1>0, <1>1, FrameAt, HighestIsNat DEF Protocol
<1>3. /\ f.kind = "OPEN" => p = "server" /\ (f.stream > highest[p] \/ st["client"][f.stream].late)
      /\ f.kind # "OPEN" => \/ f.stream <= highest[p]
                            \/ p = "server" /\ f.kind = "RESET" /\ f.stream \in Broken
  BY <1>0, HeadIsOrdered
<1>4. f.kind # "OPEN" /\ f.stream \in streams[p] => Valid(p, f)
  BY <1>0, HeadIsValid
<1>5. IF f.kind = "OPEN" THEN ~ValidOpen(p, f)
      ELSE f.stream > highest[p] \/ (f.stream \in streams[p] /\ ~Valid(p, f))
  BY <1>1 DEF Refused
<1>6. MaxStreams \in Nat /\ Cardinality(streams[p]) \in Nat
  <2>1. streams[p] \subseteq Ids /\ IsFiniteSet(Ids)
    BY MuxAssumption, FS_Interval DEF Protocol, Shapes, Ids
  <2> QED BY <2>1, FS_Subset, FS_CardinalityType, MuxAssumption
<1> HIDE DEF f
<1>7. CASE f.kind = "OPEN"
  <2>1. Cardinality(streams[p]) >= MaxStreams \/ st["client"][f.stream].late
    BY <1>2, <1>3, <1>5, <1>6, <1>7 DEF ValidOpen
  <2> QED BY <1>0, <1>1, <1>2, <1>3, <1>7, <2>1 DEF f
<1>8. CASE f.kind # "OPEN"
  <2>1. p = "server" /\ f.kind = "RESET" /\ f.stream \in Broken
    BY <1>2, <1>3, <1>4, <1>5, <1>8
  <2> QED BY <1>0, <1>1, <1>2, <2>1 DEF f
<1> QED BY <1>7, <1>8

\* The Receive of a Peer refuses nothing that the other Peer sends but the
\* opening of a stream at the server, and that only when the table there is
\* full, when take has passed over this OPEN for want of room in a cell, or
\* when the stream failed at the client before its OPEN had left. Every other
\* frame (data within the budget and at the offset expected, half-close once
\* and last, credit within the window, OPENED to the client only, an OPEN at
\* its first turn above all ids before it) passes, for every number of
\* streams, window, chunk, authority and cell size.
THEOREM RefusalsExplained == Spec => []OnlyOpeningsRefused
<1>1. Protocol => OnlyOpeningsRefused
  <2> SUFFICES ASSUME Protocol, NEW p \in Ends, Refused(p)
               PROVE  LET f == Head(wire[Other(p)])
                          s == st["client"][f.stream]
                      IN /\ p = "server"
                         /\ \/ f.kind = "OPEN" /\ (Cardinality(streams[p]) >= MaxStreams \/ s.late)
                            \/ f.kind = "RESET" /\ s.open
    BY DEF OnlyOpeningsRefused
  <2> QED BY RefusedHead DEF Broken
<1> QED BY <1>1, ProtocolInit, ProtocolStep, PTL DEF Spec

\* Every OPEN left at its first turn: take has passed over none, and no stream
\* has left the client's table with its OPEN unsent.
PromptOpenings ==
  \A i \in Ids : /\ ~st["client"][i].late
                 /\ st["client"][i].open => i \in streams["client"]

\* As long as a session opens no more streams than the limit and each OPEN
\* leaves at its first turn, before its stream fails, its two Peers never make
\* each other's Receive fail.
THEOREM PeersAgree ==
  ASSUME MaxId <= MaxStreams
  PROVE  Spec => [](PromptOpenings => \A p \in Ends : ~Refused(p))
<1>1. Protocol => (PromptOpenings => \A p \in Ends : ~Refused(p))
  <2> SUFFICES ASSUME Protocol, PromptOpenings, NEW p \in Ends, Refused(p) PROVE FALSE
    OBVIOUS
  <2> DEFINE S == streams["server"]
             h == highest["server"]
             f == wire["client"][1]
             j == f.stream
  <2>1. /\ "server" \in Ends /\ Other("server") = "client" /\ h \in Nat
        /\ wire["client"] \in Seq(Frames)
    BY ClientTypes DEF Protocol
  <2>2. /\ p = "server" /\ wire["client"] # <<>> /\ j \in Ids
        /\ \/ f.kind = "OPEN" /\ (Cardinality(S) >= MaxStreams \/ st["client"][j].late)
           \/ f.kind = "RESET" /\ j \in Broken
    BY RefusedHead
  <2>3. ~st["client"][j].late /\ j \notin Broken
    BY <2>2 DEF PromptOpenings, Broken
  <2>4. f.kind = "OPEN" /\ Cardinality(S) >= MaxStreams
    BY <2>2, <2>3
  <2>5. j > h
    BY <2>1, <2>2, <2>3, <2>4, HeadIsOrdered
  <2>6. S \subseteq 1..h
    BY <2>1 DEF Protocol, Scheduling, Listed
  <2>7. IsFiniteSet(1..h) /\ Cardinality(1..h) = h
    <3>0. 1 \in Int /\ h \in Int
      BY <2>1
    <3>1. IsFiniteSet(1..h) /\ Cardinality(1..h) = IF 1 > h THEN 0 ELSE h - 1 + 1
      BY <3>0, FS_Interval
    <3> HIDE DEF h
    <3> QED BY <2>1, <3>1
  <2>8. IsFiniteSet(S) /\ Cardinality(S) <= Cardinality(1..h) /\ Cardinality(S) \in Nat
    BY <2>6, <2>7, FS_Subset, FS_CardinalityType
  <2> HIDE DEF S, h, j
  <2>9. MaxId \in Nat /\ MaxStreams \in Nat
    BY MuxAssumption
  <2>10. Cardinality(S) < MaxStreams
    BY <2>1, <2>2, <2>5, <2>7, <2>8, <2>9 DEF Ids
  <2> QED BY <2>4, <2>8, <2>9, <2>10
<1> QED BY <1>1, ProtocolInit, ProtocolStep, PTL DEF Spec
=============================================================================
