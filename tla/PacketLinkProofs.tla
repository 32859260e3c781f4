-------------------------- MODULE PacketLinkProofs --------------------------
(***************************************************************************)
(* packet.Conn, its handlers and a client that follows the delivery        *)
(* contract, over a network that loses, repeats, reorders and cuts: the    *)
(* composition implements two reliable streams (ReliableStream), for every *)
(* window, replay limit and number of blocks, requests and responses.      *)
(*                                                                         *)
(* Every step of PacketLink is a step of PacketConn for the connection, so *)
(* the invariant of PacketConnProofs holds here; what follows relates the  *)
(* connection to what the client and the network hold.                     *)
(***************************************************************************)
EXTENDS PacketLink, PacketConnProofs

Requests == [sequence : Nat, cursor : Nat]
Replies == [next : Nat, sequence : Nat]
Gets == [generation : Generations, cursor : Nat]
Entries == [generation : Nat, block : Block]

LinkTypes ==
  /\ cUploadNext \in 0..ClientBlocks /\ cAcked \in Nat /\ cReceipted \subseteq Nat
  /\ cGeneration \in Nat /\ cCursor \in Nat /\ cGot \in Seq(Nat)
  /\ read \in Seq(Bodies)
  /\ uploads \subseteq Requests /\ handling \subseteq Requests
  /\ replies \subseteq Replies /\ gets \subseteq Gets
  /\ wire \in [Downloads -> Seq(Entries)]

-----------------------------------------------------------------------------
(* The upload direction. *)

\* The client's window contains the connection's cursor.
UploadCursors ==
  /\ cAcked <= uploadNext /\ uploadNext <= cUploadNext
  /\ cUploadNext <= cAcked + UploadSlots
  /\ consumed <= uploadNext
  /\ \A r \in uploads \cup handling : r.sequence < cUploadNext
  /\ \A r \in replies : r.next <= uploadNext

\* What is stored, recorded or read under a number is the client's block.
UploadContent ==
  /\ \A s \in DOMAIN pending : s < cUploadNext /\ pending[s] = Body(s)
  /\ \A s \in DOMAIN receipts : receipts[s] = Body(s)
  /\ \A i \in 1..Len(input) : input[i] = Body(consumed + i - 1)
  /\ Len(read) = consumed
  /\ \A k \in 1..Len(read) : read[k] = Body(k - 1)

Stored(s) == s < uploadNext \/ s \in DOMAIN pending

Receipts ==
  ~closed => /\ \A s \in cReceipted : Stored(s)
             /\ \A r \in replies : Stored(r.sequence)

-----------------------------------------------------------------------------
(* The download direction. *)

DownloadCursors ==
  /\ outputNext <= MaxSeq
  /\ outputFloor <= cCursor /\ cCursor <= outputNext
  /\ \A r \in uploads \cup handling : r.cursor <= cCursor
  /\ \A g \in gets : g.cursor <= cCursor /\ g.generation <= cGeneration

\* Bytes reach the client only through the response of its latest request,
\* and once that is attached no earlier request counts.
Attachment ==
  /\ \A d \in Downloads : \A j \in 1..Len(wire[d]) :
       attached /\ wire[d][j].generation <= generation
  /\ \A g \in gets : ~Stale(g.generation) => g.cursor = cCursor

\* Only TLS writes, and what it has not put out yet follows what it has.
OneWriter ==
  /\ ~corked /\ cork = NoJob /\ job["cell"] = NoJob
  /\ mutex # "cell"
  /\ job["tls"].Left > 0 => job["tls"].From = emitted /\ emitted + job["tls"].Left = produced
  /\ job["tls"].Left = 0 /\ "tls" \notin failed => emitted = produced

Known(b) ==
  \/ \E i \in 1..Len(output) : b = output[i]
  \/ \E d \in Downloads : \E j \in 1..Len(wire[d]) : b = wire[d][j].block

\* The blocks in the replay buffer and on their way lie back to back, and the
\* client's bytes end where the block it waits for begins.
BlocksInPlace ==
  \A b \in Block : Known(b) =>
    /\ b.End = b.From + b.Size /\ b.End <= emitted /\ b.Sequence < outputNext
    /\ b.Sequence = outputNext - 1 => b.End = emitted
    /\ b.Sequence = cCursor => b.From = Len(cGot)
    /\ b.Sequence >= cCursor => Len(cGot) <= b.From
    /\ \A a \in Block : Known(a) =>
         /\ a.Sequence < b.Sequence => a.End <= b.From
         /\ a.Sequence + 1 = b.Sequence => a.End = b.From

ClientBytes ==
  /\ Len(cGot) <= emitted
  /\ cCursor = outputNext => Len(cGot) = emitted
  /\ \A k \in 1..Len(cGot) : cGot[k] = k - 1

UpInv == UploadCursors /\ UploadContent /\ Receipts
DownInv == DownloadCursors /\ Attachment /\ OneWriter /\ BlocksInPlace /\ ClientBytes

LinkInv == Inv /\ LinkTypes /\ UpInv /\ DownInv
-----------------------------------------------------------------------------
(* Steps of the composition are steps of the connection. *)

LEMMA InRange ==
  ASSUME LinkInv, NEW r, r \in uploads \cup handling
  PROVE  /\ r.sequence \in 0..MaxSeq /\ Body(r.sequence) \in Bodies
         /\ r.cursor \in 0..MaxSeq /\ r.cursor <= cCursor
         /\ r.sequence < cUploadNext
<1>1. /\ r.sequence \in Nat /\ r.cursor \in Nat /\ cUploadNext \in 0..ClientBlocks
      /\ ClientBlocks \in 0..MaxSeq /\ MaxSeq \in Nat /\ cCursor \in Nat /\ outputNext \in Nat
  BY MaxSeqAssumption, ClientBlocksAssumption DEF LinkInv, Inv, TypeOK, LinkTypes, Requests
<1>2. r.sequence < cUploadNext
  BY DEF LinkInv, UpInv, UploadCursors
<1>3. r.cursor <= cCursor /\ cCursor <= outputNext /\ outputNext <= MaxSeq
  BY DEF LinkInv, DownInv, DownloadCursors
<1>4. r.sequence \in 0..(ClientBlocks - 1)
  BY <1>1, <1>2
<1>5. Body(r.sequence) \in Bodies
  BY <1>4, BodyAssumption
<1>6. r.sequence \in 0..MaxSeq /\ r.cursor \in 0..MaxSeq
  BY <1>1, <1>2, <1>3
<1> QED BY <1>2, <1>3, <1>5, <1>6

LEMMA LinkStep == ASSUME LinkInv, [LinkNext]_lvars PROVE [Next]_vars
<1>1. CASE UNCHANGED lvars
  BY <1>1 DEF lvars
<1>2. ASSUME NEW s \in 0..MaxSeq, ClientUpload(s) PROVE UNCHANGED vars
  BY <1>2 DEF ClientUpload
<1>3. ASSUME NEW r \in replies, ClientReply(r) PROVE UNCHANGED vars
  BY <1>3 DEF ClientReply
<1>4. ASSUME ClientDownload PROVE UNCHANGED vars
  BY <1>4 DEF ClientDownload
<1>5. ASSUME NEW r \in uploads, UploadAck(r) PROVE [Next]_vars
  <2>1. r.cursor \in 0..MaxSeq
    BY InRange
  <2> QED BY <1>5, <2>1 DEF UploadAck, Next, Download, Lifetime
<1>6. ASSUME NEW r, LoseUpload(r) \/ LoseGet(r) PROVE UNCHANGED vars
  BY <1>6 DEF LoseUpload, LoseGet
<1>7. ASSUME NEW r \in handling, UploadPut(r) PROVE [Next]_vars
  <2>1. r.sequence \in 0..MaxSeq /\ Body(r.sequence) \in Bodies
    BY InRange
  <2> QED BY <1>7, <2>1 DEF UploadPut, Next, Upload, Lifetime
<1>8. ASSUME NEW g \in gets, NEW d \in Downloads, DownloadAttach(d, g) PROVE [Next]_vars
  <2>1. g.generation \in Generations /\ g.cursor \in Nat
    BY DEF LinkInv, LinkTypes, Gets
  <2>2. g.cursor <= cCursor /\ cCursor <= outputNext /\ outputNext <= MaxSeq
    BY DEF LinkInv, DownInv, DownloadCursors
  <2>3. cCursor \in Nat /\ outputNext \in Nat /\ MaxSeq \in Nat
    BY MaxSeqAssumption DEF LinkInv, LinkTypes, Inv, TypeOK
  <2>4. g.cursor \in 0..MaxSeq
    BY <2>1, <2>2, <2>3
  <2> QED BY <1>8, <2>1, <2>4 DEF DownloadAttach, Next, Download, Lifetime
<1>9. ASSUME NEW d \in Downloads,
             ClientReceive(d) \/ Cut(d) \/ DownloadWrite(d) \/ DownloadWait(d)
      PROVE  [Next]_vars
  BY <1>9 DEF ClientReceive, Cut, DownloadWrite, DownloadWait, Next, Download
<1>10. ASSUME LinkRead \/ LinkWrite \/ LinkLoop \/ LinkClose PROVE [Next]_vars
  BY <1>10 DEF LinkRead, LinkWrite, LinkLoop, LinkClose, Next, Writing, Writers, Lifetime
<1> QED
  BY <1>1, <1>2, <1>3, <1>4, <1>5, <1>6, <1>7, <1>8, <1>9, <1>10 DEF LinkNext

-----------------------------------------------------------------------------
(* What a step leaves alone. *)

LEMMA UpFrame ==
  ASSUME UpInv, uploads' \cup handling' \subseteq uploads \cup handling,
         UNCHANGED <<closed, uvars, cUploadNext, cAcked, cReceipted, read, replies>>
  PROVE  UpInv'
<1> USE DEF uvars
<1>1. UploadCursors'
  BY DEF UpInv, UploadCursors
<1>2. UploadContent'
  BY DEF UpInv, UploadContent
<1>3. Receipts'
  BY DEF UpInv, Receipts, Stored
<1> QED BY <1>1, <1>2, <1>3 DEF UpInv

LEMMA PlaceFrame ==
  ASSUME BlocksInPlace, ClientBytes, \A b \in Block : Known(b)' => Known(b),
         UNCHANGED <<outputNext, emitted, cCursor, cGot>>
  PROVE  BlocksInPlace' /\ ClientBytes'
<1>1. BlocksInPlace'
  BY DEF BlocksInPlace
<1> QED BY <1>1 DEF ClientBytes

LEMMA WriterFrame ==
  ASSUME OneWriter, UNCHANGED <<wvars, failed, emitted>>
  PROVE  OneWriter'
  BY DEF OneWriter, wvars

LEMMA KnownFrame ==
  ASSUME UNCHANGED <<output, wire>>, NEW b \in Block, Known(b)'
  PROVE  Known(b)
  BY DEF Known

LEMMA DownFrame ==
  ASSUME DownInv, uploads' \cup handling' \subseteq uploads \cup handling, gets' \subseteq gets,
         UNCHANGED <<ovars, wvars, failed, generation, attached, cCursor, cGot, cGeneration, wire>>
  PROVE  DownInv'
<1> USE DEF ovars
<1>1. DownloadCursors'
  BY DEF DownInv, DownloadCursors
<1>2. Attachment'
  BY DEF DownInv, Attachment, Stale
<1>3. OneWriter'
  BY WriterFrame DEF DownInv
<1>4. \A b \in Block : Known(b)' => Known(b)
  BY KnownFrame
<1>5. BlocksInPlace' /\ ClientBytes'
  BY <1>4, PlaceFrame DEF DownInv
<1> QED BY <1>1, <1>2, <1>3, <1>5 DEF DownInv
-----------------------------------------------------------------------------
(* Types. *)

LEMMA TypesFrame ==
  ASSUME LinkTypes, UNCHANGED <<cUploadNext, cAcked, cReceipted, cGeneration, cCursor, cGot>>,
         uploads' \subseteq Requests, handling' \subseteq Requests,
         replies' \subseteq Replies, gets' \subseteq Gets,
         wire' \in [Downloads -> Seq(Entries)], read' \in Seq(Bodies)
  PROVE  LinkTypes'
  BY DEF LinkTypes

\* The block a response takes is one of the replay buffer.
LEMMA ServedBlock ==
  ASSUME Inv, NEW d \in Downloads, NextServe(d)
  PROVE  /\ response[d].cursor - outputFloor + 1 \in 1..Len(output)
         /\ NextBlock(d) \in Block
         /\ attached /\ response[d].generation = generation
         /\ response[d].generation \in Nat
<1>1. /\ output \in Seq(Block) /\ outputFloor \in Nat /\ outputNext \in Nat
      /\ response[d].cursor \in Nat /\ response[d].generation \in Nat
  BY DEF Inv, TypeOK
<1>2. /\ ~closed /\ attached /\ response[d].generation = generation
      /\ response[d].cursor >= outputFloor /\ response[d].cursor < outputNext
  BY <1>1 DEF NextServe, NextError
<1>3. Len(output) = outputNext - outputFloor
  BY <1>2 DEF Inv, ReplayWindow
<1>4. response[d].cursor - outputFloor + 1 \in 1..Len(output)
  BY <1>1, <1>2, <1>3
<1>5. NextBlock(d) \in Block
  BY <1>1, <1>4 DEF NextBlock
<1> QED BY <1>1, <1>2, <1>4, <1>5

LEMMA TypesNext == ASSUME LinkInv, [LinkNext]_lvars PROVE LinkTypes'
<1> USE DEF cvars, nvars
<1>0. /\ cUploadNext \in 0..ClientBlocks /\ cAcked \in Nat /\ cReceipted \subseteq Nat
      /\ cGeneration \in Nat /\ cCursor \in Nat /\ cGot \in Seq(Nat)
      /\ read \in Seq(Bodies)
      /\ uploads \subseteq Requests /\ handling \subseteq Requests
      /\ replies \subseteq Replies /\ gets \subseteq Gets
      /\ wire \in [Downloads -> Seq(Entries)] /\ ClientBlocks \in Nat
  BY MaxSeqAssumption, ClientBlocksAssumption DEF LinkInv, LinkTypes
<1>t. LinkTypes /\ Inv
  BY DEF LinkInv
<1>i. Inv'
  BY LinkStep, InvNext DEF LinkInv
<1>1. CASE UNCHANGED lvars
  BY <1>1, <1>0, <1>t, TypesFrame DEF lvars
<1>2. ASSUME NEW s \in 0..MaxSeq, ClientUpload(s) PROVE LinkTypes'
  <2>1. s \in Nat
    BY MaxSeqAssumption
  <2>2. [sequence |-> s, cursor |-> cCursor] \in Requests
    BY <2>1, <1>0 DEF Requests
  <2>3. uploads' \subseteq Requests
    BY <1>0, <1>2, <2>2 DEF ClientUpload
  <2>4. cUploadNext' \in 0..ClientBlocks
    BY <1>0, <1>2, <2>1 DEF ClientUpload
  <2> QED BY <1>0, <1>2, <2>3, <2>4 DEF ClientUpload, LinkTypes
<1>3. ASSUME NEW r \in replies, ClientReply(r) PROVE LinkTypes'
  <2>1. r.next \in Nat /\ r.sequence \in Nat
    BY <1>0 DEF Replies
  <2>2. cAcked' \in Nat /\ cReceipted' \subseteq Nat
    BY <1>0, <1>3, <2>1 DEF ClientReply
  <2> QED BY <1>0, <1>3, <2>2 DEF ClientReply, LinkTypes
<1>4. ASSUME ClientDownload PROVE LinkTypes'
  <2>1. [generation |-> cGeneration + 1, cursor |-> cCursor] \in Gets
    BY <1>0, <1>4 DEF ClientDownload, Gets
  <2>2. gets' \subseteq Gets /\ cGeneration' \in Nat
    BY <1>0, <1>4, <2>1 DEF ClientDownload
  <2> QED BY <1>0, <1>4, <2>2 DEF ClientDownload, LinkTypes
<1>5. ASSUME NEW r \in uploads, UploadAck(r) \/ LoseUpload(r) PROVE LinkTypes'
  BY <1>5, <1>0, <1>t, TypesFrame DEF UploadAck, LoseUpload
<1>6. ASSUME NEW r \in handling, UploadPut(r) PROVE LinkTypes'
  <2>1. r.sequence \in Nat /\ uploadNext' \in Nat
    BY <1>0, <1>i DEF Requests, Inv, TypeOK
  <2>2. [next |-> uploadNext', sequence |-> r.sequence] \in Replies
    BY <2>1 DEF Replies
  <2>3. replies' \subseteq Replies
    BY <1>0, <1>6, <2>2 DEF UploadPut
  <2> QED BY <1>6, <2>3, <1>0, <1>t, TypesFrame DEF UploadPut
<1>7. ASSUME NEW g \in gets, LoseGet(g) \/ \E d \in Downloads : DownloadAttach(d, g)
      PROVE  LinkTypes'
  BY <1>7, <1>0, <1>t, TypesFrame DEF LoseGet, DownloadAttach
<1>8. ASSUME NEW d \in Downloads, ClientReceive(d) PROVE LinkTypes'
  <2> DEFINE b == Head(wire[d]).block
             f == [k \in 1..b.Size |-> b.From + k - 1]
  <2>1. wire[d] \in Seq(Entries) /\ wire[d] # <<>>
    BY <1>0, <1>8 DEF ClientReceive
  <2>2. Head(wire[d]) \in Entries /\ Tail(wire[d]) \in Seq(Entries)
    BY <2>1
  <2>3. b \in Block
    BY <2>2 DEF Entries
  <2>4. b.Size \in Nat /\ b.From \in Nat
    BY <2>3 DEF Block
  <2>5. cGot' = cGot \o f /\ cCursor' = cCursor + 1 /\ wire' = [wire EXCEPT ![d] = Tail(@)]
    BY <1>8 DEF ClientReceive
  <2> HIDE DEF b
  <2>6. f \in Seq(Nat)
    BY <2>4
  <2> HIDE DEF f
  <2>7. cGot' \in Seq(Nat) /\ cCursor' \in Nat
    BY <1>0, <2>5, <2>6
  <2>8. wire' \in [Downloads -> Seq(Entries)]
    BY <1>0, <2>2, <2>5
  <2> QED BY <1>0, <1>8, <2>7, <2>8 DEF ClientReceive, LinkTypes
<1>9. ASSUME NEW d \in Downloads, Cut(d) \/ DownloadWait(d) PROVE LinkTypes'
  <2>1. wire' \in [Downloads -> Seq(Entries)]
    <3>1. wire' = wire \/ wire' = [wire EXCEPT ![d] = <<>>]
      BY <1>9 DEF Cut, DownloadWait
    <3>2. <<>> \in Seq(Entries)
      OBVIOUS
    <3> QED BY <3>1, <3>2, <1>0
  <2> QED BY <1>9, <2>1, <1>0, <1>t, TypesFrame DEF Cut, DownloadWait
<1>10. ASSUME NEW d \in Downloads, DownloadWrite(d) PROVE LinkTypes'
  <2> DEFINE e == [generation |-> response[d].generation, block |-> NextBlock(d)]
  <2>1. e \in Entries
    BY <1>t, <1>10, ServedBlock DEF DownloadWrite, Entries
  <2>2. wire' = [wire EXCEPT ![d] = Append(@, e)]
    BY <1>10 DEF DownloadWrite
  <2> HIDE DEF e
  <2>3. wire' \in [Downloads -> Seq(Entries)]
    BY <1>0, <2>1, <2>2
  <2> QED BY <1>10, <2>3, <1>0, <1>t, TypesFrame DEF DownloadWrite
<1>11. ASSUME LinkRead PROVE LinkTypes'
  <2>1. input \in Seq(Bodies) /\ consumed \in Nat
    BY <1>t DEF Inv, TypeOK
  <2>2. consumed' > consumed => input # <<>>
    BY <2>1, <1>11 DEF LinkRead, Read, ReadData, ReadWait, ReadFail, uvars
  <2>3. read' \in Seq(Bodies)
    <3>1. CASE consumed' > consumed
      <4>1. Head(input) \in Bodies /\ read' = Append(read, Head(input))
        BY <2>1, <2>2, <3>1, <1>11 DEF LinkRead
      <4> QED BY <4>1, <1>0
    <3>2. CASE ~(consumed' > consumed)
      BY <3>2, <1>0, <1>11 DEF LinkRead
    <3> QED BY <3>1, <3>2
  <2> QED BY <1>11, <2>3, <1>0, <1>t, TypesFrame DEF LinkRead
<1>12. ASSUME LinkWrite \/ LinkLoop \/ LinkClose PROVE LinkTypes'
  BY <1>12, <1>0, <1>t, TypesFrame DEF LinkWrite, LinkLoop, LinkClose
<1> QED
  BY <1>1, <1>2, <1>3, <1>4, <1>5, <1>6, <1>7, <1>8, <1>9, <1>10, <1>11, <1>12 DEF LinkNext
-----------------------------------------------------------------------------
(* The upload direction, step by step. *)

LEMMA UpClient ==
  ASSUME LinkInv, NEW s \in 0..MaxSeq, ClientUpload(s)
  PROVE  UpInv'
<1>1. /\ s \in Nat /\ cUploadNext \in Nat /\ cAcked \in Nat /\ UploadSlots \in Nat
      /\ uploadNext \in Nat /\ Sequenced(pending)
      /\ \A r \in uploads \cup handling : r.sequence \in Nat
  BY MaxSeqAssumption, ClientBlocksAssumption, UploadSlotsAssumption
  DEF LinkInv, LinkTypes, Requests, Inv, TypeOK
<1>2. /\ s < cUploadNext' /\ cUploadNext <= cUploadNext' /\ cUploadNext' <= cAcked + UploadSlots
      /\ cUploadNext' \in Nat
  BY <1>1 DEF ClientUpload, LinkInv, UpInv, UploadCursors
<1>3. /\ UNCHANGED <<closed, uvars, cAcked, cReceipted, read, replies, handling>>
      /\ uploads' = uploads \cup {[sequence |-> s, cursor |-> cCursor]}
  BY DEF ClientUpload, vars
<1>4. UploadCursors'
  <2>1. \A r \in uploads' \cup handling' : r.sequence < cUploadNext'
    <3> SUFFICES ASSUME NEW r \in uploads' \cup handling' PROVE r.sequence < cUploadNext'
      OBVIOUS
    <3>1. CASE r \in uploads \cup handling
      BY <1>1, <1>2, <3>1 DEF LinkInv, UpInv, UploadCursors
    <3>2. CASE r = [sequence |-> s, cursor |-> cCursor]
      BY <1>2, <3>2
    <3> QED BY <1>3, <3>1, <3>2
  <2> QED BY <1>1, <1>2, <1>3, <2>1 DEF LinkInv, UpInv, UploadCursors, uvars
<1>5. UploadContent'
  <2>1. ASSUME NEW t \in DOMAIN pending' PROVE t < cUploadNext' /\ pending'[t] = Body(t)
    <3>1. t \in DOMAIN pending /\ pending' = pending
      BY <1>3, <2>1 DEF uvars
    <3>2. t \in Nat
      BY <1>1, <3>1 DEF Sequenced
    <3>3. t < cUploadNext /\ pending[t] = Body(t)
      BY <3>1 DEF LinkInv, UpInv, UploadContent
    <3> QED BY <1>1, <1>2, <3>1, <3>2, <3>3
  <2>2. UNCHANGED <<receipts, input, consumed, read>>
    BY <1>3 DEF uvars
  <2> QED BY <2>1, <2>2 DEF LinkInv, UpInv, UploadContent
<1>6. Receipts'
  BY <1>3 DEF LinkInv, UpInv, Receipts, Stored, uvars
<1> QED BY <1>4, <1>5, <1>6 DEF UpInv

\* An acknowledgement moves the end of the window forward.
LEMMA WindowGrows ==
  ASSUME NEW n \in Nat, NEW a \in Nat, NEW b \in Nat, NEW w \in Nat, n <= a + w, a <= b
  PROVE  n <= b + w
  OBVIOUS

LEMMA UpReply ==
  ASSUME LinkInv, NEW r \in replies, ClientReply(r)
  PROVE  UpInv'
<1>1. /\ r.next \in Nat /\ cUploadNext \in Nat /\ cAcked \in Nat /\ UploadSlots \in Nat
      /\ uploadNext \in Nat
  BY ClientBlocksAssumption, UploadSlotsAssumption DEF LinkInv, LinkTypes, Replies, Inv, TypeOK
<1>2. cAcked' >= cAcked /\ cAcked' <= uploadNext /\ cAcked' \in Nat
  BY <1>1 DEF ClientReply, LinkInv, UpInv, UploadCursors
<1>3. /\ UNCHANGED <<closed, uvars, cUploadNext, read, replies, handling, uploads>>
      /\ cReceipted' = cReceipted \cup {r.sequence}
  BY DEF ClientReply, vars, nvars
<1>4. UploadCursors'
  <2>1. cUploadNext <= cAcked' + UploadSlots
    <3>1. cUploadNext <= cAcked + UploadSlots
      BY DEF LinkInv, UpInv, UploadCursors
    <3>2. cAcked \in Nat /\ cAcked' \in Nat /\ cUploadNext \in Nat /\ UploadSlots \in Nat
      BY <1>1, <1>2
    <3>3. cAcked <= cAcked'
      BY <1>1, <1>2
    <3> QED BY <3>1, <3>2, <3>3, WindowGrows
  <2> QED BY <1>2, <1>3, <2>1 DEF LinkInv, UpInv, UploadCursors, uvars
<1>5. UploadContent'
  BY <1>3 DEF LinkInv, UpInv, UploadContent, uvars
<1>6. Receipts'
  BY <1>3 DEF LinkInv, UpInv, Receipts, Stored, uvars
<1> QED BY <1>4, <1>5, <1>6 DEF UpInv

\* Closing the session throws the stored blocks away and moves no cursor.
LEMMA UpClose ==
  ASSUME LinkInv, Close, uploads' \cup handling' \subseteq uploads \cup handling,
         UNCHANGED <<cUploadNext, cAcked, cReceipted, read, replies>>
  PROVE  UpInv'
<1>1. /\ closed' /\ input' = <<>> /\ pending' = <<>> /\ receipts' = <<>>
      /\ UNCHANGED <<uploadNext, consumed>>
  BY DEF Close
<1>2. UploadCursors'
  BY <1>1 DEF LinkInv, UpInv, UploadCursors
<1>3. UploadContent'
  BY <1>1 DEF LinkInv, UpInv, UploadContent
<1>4. Receipts'
  BY <1>1 DEF Receipts
<1> QED BY <1>2, <1>3, <1>4 DEF UpInv

\* Put stores the client's block: the cursor stays within what the client
\* has sent, and a block once stored stays so.
LEMMA UpStore ==
  ASSUME LinkInv, NEW s \in 0..MaxSeq, s < cUploadNext, Put(s, Body(s)),
         UNCHANGED cUploadNext
  PROVE  /\ uploadNext <= uploadNext' /\ uploadNext' <= cUploadNext /\ uploadNext' \in Nat
         /\ \A t \in DOMAIN pending' : t < cUploadNext /\ pending'[t] = Body(t)
         /\ \A t \in DOMAIN receipts' : receipts'[t] = Body(t)
         /\ \A i \in 1..Len(input') : input'[i] = Body(consumed + i - 1)
         /\ \A t \in Nat : Stored(t) \/ t = s => Stored(t)'
<1> DEFINE body == Body(s)
           pend == [t \in DOMAIN pending \cup {s} |-> IF t = s THEN body ELSE pending[t]]
<1>1. PICK m \in uploadNext..(uploadNext + UploadSlots) :
        /\ FirstMissing(pend, m)
        /\ input' = input \o [i \in 1..(m - uploadNext) |-> pend[uploadNext + i - 1]]
        /\ receipts' = [t \in {u \in DOMAIN receipts \cup uploadNext..(m - 1) :
                                 u + ReceiptCount >= m} |->
                          IF t < uploadNext THEN receipts[t] ELSE pend[t]]
        /\ pending' = [t \in {u \in DOMAIN pend : u >= m} |-> pend[t]]
        /\ uploadNext' = m
  BY DEF Put
<1>2. /\ uploadNext \in Nat /\ m \in Nat /\ s \in Nat /\ cUploadNext \in Nat /\ consumed \in Nat
      /\ input \in Seq(Bodies) /\ Sequenced(pending) /\ Sequenced(receipts) /\ ReceiptCount \in Nat
  BY <1>1, UploadSlotsAssumption, MaxSeqAssumption, ClientBlocksAssumption, ReceiptCountAssumption
  DEF LinkInv, LinkTypes, Inv, TypeOK
<1>3. ~closed
  BY DEF Put, PutResult, OutOfWindow
<1>4. /\ \A t \in DOMAIN pending : t < cUploadNext /\ pending[t] = Body(t)
      /\ \A t \in DOMAIN receipts : receipts[t] = Body(t)
      /\ \A i \in 1..Len(input) : input[i] = Body(consumed + i - 1)
      /\ uploadNext <= cUploadNext
  BY DEF LinkInv, UpInv, UploadContent, UploadCursors
<1>5. /\ consumed + Len(input) = uploadNext
      /\ \A t \in DOMAIN receipts : t < uploadNext
  BY <1>2, <1>3 DEF LinkInv, Inv, UploadExactlyOnce, UploadWindow
<1>6. \A t \in DOMAIN pend : t \in Nat /\ t < cUploadNext /\ pend[t] = Body(t)
  BY <1>2, <1>4 DEF Sequenced
<1>7. s \in DOMAIN pend /\ \A t \in DOMAIN pending : t \in DOMAIN pend
  OBVIOUS
<1> HIDE DEF pend
<1>8. \A t \in uploadNext..(m - 1) : t \in DOMAIN pend
  BY <1>1 DEF FirstMissing
<1>9. m <= cUploadNext
  <2>1. CASE m = uploadNext
    BY <2>1, <1>4
  <2>2. CASE m # uploadNext
    <3>1. m - 1 \in uploadNext..(m - 1)
      BY <2>2, <1>1, <1>2
    <3> QED BY <3>1, <1>2, <1>6, <1>8
  <2> QED BY <2>1, <2>2
<1>10. \A t \in DOMAIN pending' : t < cUploadNext /\ pending'[t] = Body(t)
  BY <1>1, <1>6
<1>11. \A t \in DOMAIN receipts' : receipts'[t] = Body(t)
  <2> SUFFICES ASSUME NEW t \in DOMAIN receipts' PROVE receipts'[t] = Body(t)
    OBVIOUS
  <2>1. /\ t \in DOMAIN receipts \/ t \in uploadNext..(m - 1)
        /\ receipts'[t] = IF t < uploadNext THEN receipts[t] ELSE pend[t]
    BY <1>1
  <2>2. CASE t \in DOMAIN receipts
    BY <2>1, <2>2, <1>4, <1>5
  <2>3. CASE t \in uploadNext..(m - 1)
    <3>1. ~(t < uploadNext)
      BY <2>3, <1>2
    <3> QED BY <2>1, <2>3, <3>1, <1>6, <1>8
  <2> QED BY <2>1, <2>2, <2>3
<1>12. \A i \in 1..Len(input') : input'[i] = Body(consumed + i - 1)
  <2> DEFINE f == [i \in 1..(m - uploadNext) |-> pend[uploadNext + i - 1]]
             R == {f[i] : i \in 1..(m - uploadNext)} \cup Bodies
             L == Len(input)
  <2>1. m - uploadNext \in Nat /\ L \in Nat
    BY <1>1, <1>2
  <2>2. f \in Seq(R) /\ Len(f) = m - uploadNext
    BY <2>1
  <2>3. \A i \in 1..(m - uploadNext) : f[i] = Body(uploadNext + i - 1)
    <3> SUFFICES ASSUME NEW i \in 1..(m - uploadNext) PROVE f[i] = Body(uploadNext + i - 1)
      OBVIOUS
    <3>1. uploadNext + i - 1 \in uploadNext..(m - 1)
      BY <1>2
    <3>2. f[i] = pend[uploadNext + i - 1]
      OBVIOUS
    <3> QED BY <3>1, <3>2, <1>6, <1>8
  <2>4. input' = input \o f
    BY <1>1
  <2>s. input \in Seq(R)
    BY <1>2
  <2> HIDE DEF f, R
  <2>5. Len(input') = L + (m - uploadNext)
    <3>1. Len(input \o f) = Len(input) + Len(f)
      BY <2>2, <2>s
    <3> QED BY <3>1, <2>2, <2>4
  <2> SUFFICES ASSUME NEW i \in 1..Len(input') PROVE input'[i] = Body(consumed + i - 1)
    OBVIOUS
  <2>6. CASE i <= L
    <3>1. i \in 1..L
      BY <2>1, <2>5, <2>6
    <3>2. input'[i] = input[i]
      BY <2>2, <2>4, <2>s, <3>1
    <3> QED BY <3>1, <3>2, <1>4
  <2>7. CASE i > L
    <3>1. i - L \in 1..(m - uploadNext) /\ i \in (L + 1)..Len(input')
      BY <2>1, <2>5, <2>7
    <3>2. input'[i] = f[i - L]
      BY <2>1, <2>2, <2>4, <2>s, <2>5, <3>1
    <3>3. uploadNext + (i - L) - 1 = consumed + i - 1
      BY <1>2, <1>5, <2>1, <3>1
    <3> QED BY <3>1, <3>2, <3>3, <2>3
  <2> QED BY <2>1, <2>5, <2>6, <2>7
<1>13. \A t \in Nat : Stored(t) \/ t = s => Stored(t)'
  <2> SUFFICES ASSUME NEW t \in Nat, Stored(t) \/ t = s PROVE Stored(t)'
    OBVIOUS
  <2>1. t < uploadNext \/ t \in DOMAIN pend
    BY <1>7 DEF Stored
  <2>2. t \in DOMAIN pend => t < m \/ t \in DOMAIN pending'
    BY <1>1, <1>2
  <2>3. uploadNext <= m /\ uploadNext' = m
    BY <1>1, <1>2
  <2> QED BY <2>1, <2>2, <2>3, <1>2 DEF Stored
<1>14. uploadNext <= uploadNext' /\ uploadNext' <= cUploadNext /\ uploadNext' \in Nat
  BY <1>1, <1>2, <1>9
<1> QED BY <1>10, <1>11, <1>12, <1>13, <1>14
LEMMA UpHandled ==
  ASSUME LinkInv, NEW r \in handling, UploadPut(r)
  PROVE  UpInv'
<1> DEFINE s == r.sequence
           result == PutResult(s, Body(s))
           reply == [next |-> uploadNext', sequence |-> s]
<1>1. /\ s \in 0..MaxSeq /\ s < cUploadNext /\ s \in Nat
  BY InRange, MaxSeqAssumption
<1>2. /\ UNCHANGED <<cUploadNext, cAcked, cReceipted, read, uploads>>
      /\ handling' \subseteq handling
  BY DEF UploadPut, cvars
<1>3. /\ uploadNext \in Nat /\ cAcked \in Nat /\ cUploadNext \in Nat /\ consumed \in Nat
      /\ \A q \in replies : q.next \in Nat /\ q.sequence \in Nat
      /\ cReceipted \subseteq Nat
  BY ClientBlocksAssumption DEF LinkInv, LinkTypes, Replies, Inv, TypeOK
<1>4. reply.next = uploadNext' /\ reply.sequence = s
  OBVIOUS
<1>5. CASE result = "new"
  <2>1. Put(s, Body(s)) /\ replies' = replies \cup {reply}
    BY <1>5 DEF UploadPut
  <2>2. /\ uploadNext <= uploadNext' /\ uploadNext' <= cUploadNext /\ uploadNext' \in Nat
        /\ \A t \in DOMAIN pending' : t < cUploadNext /\ pending'[t] = Body(t)
        /\ \A t \in DOMAIN receipts' : receipts'[t] = Body(t)
        /\ \A i \in 1..Len(input') : input'[i] = Body(consumed + i - 1)
        /\ \A t \in Nat : Stored(t) \/ t = s => Stored(t)'
    BY <1>1, <1>2, <2>1, UpStore
  <2>3. UNCHANGED <<closed, consumed>>
    BY <2>1 DEF Put
  <2> HIDE DEF reply, s, result
  <2>4. UploadCursors'
    <3>1. cAcked' <= uploadNext' /\ consumed' <= uploadNext'
      BY <1>2, <1>3, <2>2, <2>3 DEF LinkInv, UpInv, UploadCursors
    <3>2. \A q \in replies' : q.next <= uploadNext'
      BY <1>3, <1>4, <2>1, <2>2 DEF LinkInv, UpInv, UploadCursors
    <3> QED BY <1>2, <2>2, <3>1, <3>2 DEF LinkInv, UpInv, UploadCursors
  <2>5. UploadContent'
    BY <1>2, <2>2, <2>3 DEF LinkInv, UpInv, UploadContent
  <2>6. Receipts'
    <3> SUFFICES ASSUME ~closed' PROVE /\ \A t \in cReceipted' : Stored(t)'
                                       /\ \A q \in replies' : Stored(q.sequence)'
      BY DEF Receipts
    <3>1. /\ \A t \in cReceipted : Stored(t)
          /\ \A q \in replies : Stored(q.sequence)
      BY <2>3 DEF LinkInv, UpInv, Receipts
    <3>2. \A t \in cReceipted' : Stored(t)'
      BY <3>1, <1>2, <1>3, <2>2
    <3>3. ASSUME NEW q \in replies' PROVE Stored(q.sequence)'
      <4>1. CASE q \in replies
        BY <4>1, <3>1, <1>3, <2>2
      <4>2. CASE q = reply
        <5>1. q.sequence = s
          BY <4>2, <1>4
        <5>2. Stored(s)'
          BY <1>1, <2>2
        <5> QED BY <5>1, <5>2
      <4> QED BY <4>1, <4>2, <2>1
    <3> QED BY <3>2, <3>3
  <2> QED BY <2>4, <2>5, <2>6 DEF UpInv
<1>6. CASE result = "duplicate"
  <2>1. UNCHANGED vars /\ replies' = replies \cup {reply}
    BY <1>6 DEF UploadPut
  <2>2. Stored(s)
    BY <1>6 DEF PutResult, OutOfWindow, Stored
  <2>3. UNCHANGED <<closed, uvars>>
    BY <2>1 DEF vars
  <2> HIDE DEF reply, s, result
  <2>4. UploadCursors'
    <3>1. \A q \in replies' : q.next <= uploadNext'
      BY <1>3, <1>4, <2>1, <2>3 DEF LinkInv, UpInv, UploadCursors, uvars
    <3> QED BY <1>2, <2>3, <3>1 DEF LinkInv, UpInv, UploadCursors, uvars
  <2>5. UploadContent'
    BY <1>2, <2>3 DEF LinkInv, UpInv, UploadContent, uvars
  <2>6. Receipts'
    BY <1>2, <1>4, <2>1, <2>2, <2>3 DEF LinkInv, UpInv, Receipts, Stored, uvars
  <2> QED BY <2>4, <2>5, <2>6 DEF UpInv
<1>7. CASE result \in {"conflict", "sequence"}
  BY <1>2, <1>7, UpClose DEF UploadPut
<1>8. CASE result \notin {"new", "duplicate", "conflict", "sequence"}
  <2>1. UNCHANGED vars /\ replies' = replies
    BY <1>8 DEF UploadPut
  <2> QED BY <1>2, <2>1, UpFrame DEF vars, LinkInv
<1> QED BY <1>5, <1>6, <1>7, <1>8

\* A block the reader finishes is the next one of the client.
LEMMA UpRead == ASSUME LinkInv, LinkRead PROVE UpInv'
<1>1. /\ input \in Seq(Bodies) /\ consumed \in Nat /\ uploadNext \in Nat /\ read \in Seq(Bodies)
  BY DEF LinkInv, LinkTypes, Inv, TypeOK
<1>2. /\ UNCHANGED <<closed, pending, receipts, uploadNext, cUploadNext, cAcked, cReceipted, replies>>
      /\ UNCHANGED <<uploads, handling>>
  BY DEF LinkRead, Read, ReadData, ReadWait, ReadFail, uvars, cvars, nvars
<1>3. CASE consumed' = consumed
  <2>1. input' = input
    BY <1>1, <1>3 DEF LinkRead, Read, ReadData, ReadWait, ReadFail, uvars
  <2>2. read' = read
    BY <1>1, <1>3 DEF LinkRead
  <2>3. UploadCursors'
    BY <1>2, <1>3 DEF LinkInv, UpInv, UploadCursors
  <2>4. UploadContent'
    BY <1>2, <1>3, <2>1, <2>2 DEF LinkInv, UpInv, UploadContent
  <2>5. Receipts'
    BY <1>2 DEF LinkInv, UpInv, Receipts, Stored
  <2> QED BY <2>3, <2>4, <2>5 DEF UpInv
<1>4. CASE consumed' # consumed
  <2>1. input # <<>> /\ input' = Tail(input) /\ consumed' = consumed + 1 /\ ~closed
    BY <1>4 DEF LinkRead, Read, ReadData, ReadWait, ReadFail, uvars
  <2>2. read' = Append(read, Head(input))
    BY <1>1, <2>1 DEF LinkRead
  <2>3. Len(input) >= 1 /\ consumed + Len(input) = uploadNext
    BY <1>1, <2>1 DEF LinkInv, Inv, UploadExactlyOnce
  <2>4. UploadCursors'
    <3>1. consumed' <= uploadNext'
      BY <1>1, <1>2, <2>1, <2>3
    <3> QED BY <1>2, <3>1 DEF LinkInv, UpInv, UploadCursors
  <2>5. UploadContent'
    <3>1. /\ \A i \in 1..Len(input) : input[i] = Body(consumed + i - 1)
          /\ Len(read) = consumed
          /\ \A k \in 1..Len(read) : read[k] = Body(k - 1)
      BY DEF LinkInv, UpInv, UploadContent
    <3>2. /\ Len(input') = Len(input) - 1
          /\ \A i \in 1..Len(input') : input'[i] = input[i + 1] /\ i + 1 \in 1..Len(input)
      BY <1>1, <2>1
    <3>3. \A i \in 1..Len(input') : input'[i] = Body(consumed' + i - 1)
      <4> SUFFICES ASSUME NEW i \in 1..Len(input') PROVE input'[i] = Body(consumed' + i - 1)
        OBVIOUS
      <4>1. input'[i] = Body(consumed + (i + 1) - 1)
        BY <3>1, <3>2
      <4>2. consumed + (i + 1) - 1 = consumed' + i - 1
        BY <1>1, <2>1, <3>2
      <4> QED BY <4>1, <4>2
    <3>4. Head(input) = Body(consumed)
      <4>1. Head(input) = input[1] /\ 1 \in 1..Len(input)
        BY <1>1, <2>1, <2>3
      <4>2. consumed + 1 - 1 = consumed
        BY <1>1
      <4> QED BY <3>1, <4>1, <4>2
    <3>5. /\ Len(read') = Len(read) + 1 /\ read'[Len(read) + 1] = Head(input)
          /\ \A k \in 1..Len(read) : read'[k] = read[k]
          /\ Len(read) \in Nat
      <4>1. Head(input) \in Bodies
        BY <1>1, <2>1
      <4> QED BY <1>1, <2>2, <4>1
    <3>6. Len(read') = consumed'
      BY <3>1, <3>5, <2>1
    <3>7. \A k \in 1..Len(read') : read'[k] = Body(k - 1)
      <4> SUFFICES ASSUME NEW k \in 1..Len(read') PROVE read'[k] = Body(k - 1)
        OBVIOUS
      <4>1. CASE k = Len(read) + 1
        <5>1. k - 1 = consumed
          BY <4>1, <3>1, <1>1
        <5> QED BY <5>1, <4>1, <3>4, <3>5
      <4>2. CASE k # Len(read) + 1
        <5>1. k \in 1..Len(read)
          BY <4>2, <3>5
        <5> QED BY <5>1, <3>1, <3>5
      <4> QED BY <4>1, <4>2
    <3> QED BY <1>2, <3>3, <3>6, <3>7 DEF LinkInv, UpInv, UploadContent
  <2>6. Receipts'
    BY <1>2 DEF LinkInv, UpInv, Receipts, Stored
  <2> QED BY <2>4, <2>5, <2>6 DEF UpInv
<1> QED BY <1>3, <1>4

LEMMA UpNext == ASSUME LinkInv, [LinkNext]_lvars PROVE UpInv'
<1> USE DEF cvars, nvars
<1>0. UpInv
  BY DEF LinkInv
<1>1. CASE UNCHANGED lvars
  BY <1>0, <1>1, UpFrame DEF lvars, vars
<1>2. ASSUME ClientDownload PROVE UpInv'
  BY <1>0, <1>2, UpFrame DEF ClientDownload, vars
<1>3. ASSUME NEW r \in uploads, UploadAck(r) PROVE UpInv'
  <2>1. uploads' \cup handling' \subseteq uploads \cup handling
    BY <1>3 DEF UploadAck
  <2>2. CASE UNCHANGED vars \/ Ack(r.cursor)
    BY <1>0, <1>3, <2>1, <2>2, UpFrame DEF UploadAck, Ack, vars
  <2>3. CASE Close
    BY <1>3, <2>1, <2>3, UpClose DEF UploadAck
  <2> QED BY <1>3, <2>2, <2>3 DEF UploadAck
<1>4. ASSUME NEW r, LoseUpload(r) \/ LoseGet(r) PROVE UpInv'
  BY <1>0, <1>4, UpFrame DEF LoseUpload, LoseGet, vars
<1>5. ASSUME NEW g \in gets, NEW d \in Downloads, DownloadAttach(d, g) PROVE UpInv'
  <2>1. CASE Close
    BY <1>5, <2>1, UpClose DEF DownloadAttach
  <2>2. CASE Attach(d, g.generation, g.cursor)
    BY <1>0, <1>5, <2>2, UpFrame DEF DownloadAttach, Attach
  <2> QED BY <1>5, <2>1, <2>2 DEF DownloadAttach
<1>6. ASSUME NEW d \in Downloads, ClientReceive(d) \/ Cut(d) PROVE UpInv'
  BY <1>0, <1>6, UpFrame DEF ClientReceive, Cut, NextCancel, EndResponse, vars
<1>7. ASSUME NEW d \in Downloads, DownloadWrite(d) \/ DownloadWait(d) PROVE UpInv'
  BY <1>0, <1>7, UpFrame DEF DownloadWrite, DownloadWait, NextServe, NextWait, NextFail, EndResponse
<1>8. ASSUME LinkWrite \/ LinkLoop PROVE UpInv'
  BY <1>0, <1>8, UpFrame
  DEF LinkWrite, LinkLoop, Write, WriteLoop, WriteBlock, WriteWait, WriteFail, WriteResume
<1>9. ASSUME LinkClose PROVE UpInv'
  BY <1>9, UpClose DEF LinkClose
<1> QED
  BY <1>1, <1>2, <1>3, <1>4, <1>5, <1>6, <1>7, <1>8, <1>9, UpClient, UpReply, UpHandled, UpRead
  DEF LinkNext
-----------------------------------------------------------------------------
(* The download direction, step by step. *)

LEMMA DownUpload ==
  ASSUME LinkInv, NEW s \in 0..MaxSeq, ClientUpload(s)
  PROVE  DownInv'
<1>1. /\ UNCHANGED <<ovars, wvars, failed, generation, attached, cCursor, cGot, cGeneration, wire>>
      /\ UNCHANGED <<gets, handling>>
      /\ uploads' = uploads \cup {[sequence |-> s, cursor |-> cCursor]}
  BY DEF ClientUpload, vars, dvars
<1>2. cCursor \in Nat
  BY DEF LinkInv, LinkTypes
<1>3. DownloadCursors'
  <2>1. \A r \in uploads' \cup handling' : r.cursor <= cCursor
    <3> SUFFICES ASSUME NEW r \in uploads' \cup handling' PROVE r.cursor <= cCursor
      OBVIOUS
    <3>1. CASE r \in uploads \cup handling
      BY <3>1 DEF LinkInv, DownInv, DownloadCursors
    <3>2. CASE r = [sequence |-> s, cursor |-> cCursor]
      BY <1>2, <3>2
    <3> QED BY <1>1, <3>1, <3>2
  <2> QED BY <1>1, <2>1 DEF LinkInv, DownInv, DownloadCursors, ovars
<1>4. Attachment'
  BY <1>1 DEF LinkInv, DownInv, Attachment, Stale
<1>5. OneWriter'
  BY <1>1, WriterFrame DEF LinkInv, DownInv, ovars
<1>6. \A b \in Block : Known(b)' => Known(b)
  BY <1>1, KnownFrame DEF ovars
<1>7. BlocksInPlace' /\ ClientBytes'
  BY <1>1, <1>6, PlaceFrame DEF LinkInv, DownInv, ovars
<1> QED BY <1>3, <1>4, <1>5, <1>7 DEF DownInv

LEMMA DownAsk == ASSUME LinkInv, ClientDownload PROVE DownInv'
<1> DEFINE new == [generation |-> cGeneration + 1, cursor |-> cCursor]
<1>1. /\ UNCHANGED <<ovars, wvars, failed, generation, attached, cCursor, cGot, wire>>
      /\ UNCHANGED <<uploads, handling>>
      /\ gets' = gets \cup {new} /\ cGeneration' = cGeneration + 1
  BY DEF ClientDownload, vars, dvars
<1>2. /\ cCursor \in Nat /\ cGeneration \in Nat
      /\ \A g \in gets : g.cursor \in Nat /\ g.generation \in Nat
  BY GenerationsAssumption DEF LinkInv, LinkTypes, Gets
<1>3. new.cursor = cCursor /\ new.generation = cGeneration + 1
  OBVIOUS
<1> HIDE DEF new
<1>4. DownloadCursors'
  <2>1. \A g \in gets' : g.cursor <= cCursor /\ g.generation <= cGeneration'
    <3> SUFFICES ASSUME NEW g \in gets' PROVE g.cursor <= cCursor /\ g.generation <= cGeneration'
      OBVIOUS
    <3>1. CASE g \in gets
      <4>1. g.cursor <= cCursor /\ g.generation <= cGeneration
        BY <3>1 DEF LinkInv, DownInv, DownloadCursors
      <4> QED BY <3>1, <4>1, <1>1, <1>2
    <3>2. CASE g = new
      BY <1>1, <1>2, <1>3, <3>2
    <3> QED BY <1>1, <3>1, <3>2
  <2> QED BY <1>1, <2>1 DEF LinkInv, DownInv, DownloadCursors, ovars
<1>5. Attachment'
  BY <1>1, <1>3 DEF LinkInv, DownInv, Attachment, Stale
<1>6. OneWriter'
  BY <1>1, WriterFrame DEF LinkInv, DownInv, ovars
<1>7. \A b \in Block : Known(b)' => Known(b)
  BY <1>1, KnownFrame DEF ovars
<1>8. BlocksInPlace' /\ ClientBytes'
  BY <1>1, <1>7, PlaceFrame DEF LinkInv, DownInv, ovars
<1> QED BY <1>4, <1>5, <1>6, <1>8 DEF DownInv

\* The client's next block begins where its bytes end, and once it comes all
\* the requests still in the network are stale.
LEMMA DownReceive ==
  ASSUME LinkInv, NEW d \in Downloads, ClientReceive(d)
  PROVE  DownInv'
<1> DEFINE e == Head(wire[d])
           b == e.block
           f == [k \in 1..b.Size |-> b.From + k - 1]
<1>1. /\ UNCHANGED <<ovars, wvars, failed, generation, attached, cGeneration>>
      /\ UNCHANGED <<uploads, handling, gets>>
      /\ cCursor' = cCursor + 1 /\ wire' = [wire EXCEPT ![d] = Tail(@)]
      /\ wire[d] # <<>> /\ e.generation = cGeneration /\ b.Sequence = cCursor
      /\ cGot' = cGot \o f
  BY DEF ClientReceive, vars, dvars
<1>2. /\ wire \in [Downloads -> Seq(Entries)] /\ wire[d] \in Seq(Entries)
      /\ cCursor \in Nat /\ cGeneration \in Nat /\ generation \in Nat /\ cGot \in Seq(Nat)
      /\ outputNext \in Nat /\ emitted \in Nat /\ outputFloor \in Nat
      /\ \A g \in gets : g.cursor \in Nat /\ g.generation \in Nat
      /\ \A r \in uploads \cup handling : r.cursor \in Nat
  BY GenerationsAssumption DEF LinkInv, LinkTypes, Gets, Requests, Inv, TypeOK
<1>3. e = wire[d][1] /\ 1 \in 1..Len(wire[d]) /\ e \in Entries
  BY <1>1, <1>2
<1>4. b \in Block /\ e.generation \in Nat
  BY <1>3 DEF Entries
<1>5. Known(b)
  BY <1>3 DEF Known
<1>6. b.Sequence \in Nat /\ b.From \in Nat /\ b.Size \in Nat /\ b.End \in Nat
  BY <1>4 DEF Block
<1>7. attached /\ e.generation <= generation
  BY <1>3 DEF LinkInv, DownInv, Attachment
<1> HIDE DEF b, e
<1>8. /\ b.End = b.From + b.Size /\ b.End <= emitted /\ b.Sequence < outputNext
      /\ b.Sequence = outputNext - 1 => b.End = emitted
      /\ b.From = Len(cGot)
      /\ \A c \in Block : Known(c) => /\ b.Sequence < c.Sequence => b.End <= c.From
                                      /\ b.Sequence + 1 = c.Sequence => b.End = c.From
  BY <1>1, <1>4, <1>5 DEF LinkInv, DownInv, BlocksInPlace
<1>9. \A g \in gets : Stale(g.generation)
  <2> SUFFICES ASSUME NEW g \in gets PROVE Stale(g.generation)
    OBVIOUS
  <2>1. g.generation <= cGeneration
    BY DEF LinkInv, DownInv, DownloadCursors
  <2>2. g.generation <= generation
    BY <1>1, <1>2, <1>4, <1>7, <2>1
  <2> QED BY <2>2, <1>7 DEF Stale
<1>10. DownloadCursors'
  <2>1. /\ outputNext <= MaxSeq /\ outputFloor <= cCursor
        /\ \A r \in uploads \cup handling : r.cursor <= cCursor
        /\ \A g \in gets : g.cursor <= cCursor /\ g.generation <= cGeneration
    BY DEF LinkInv, DownInv, DownloadCursors
  <2>2. outputFloor <= cCursor' /\ cCursor' <= outputNext
    BY <1>1, <1>2, <1>6, <1>8, <2>1
  <2>3. \A r \in uploads \cup handling : r.cursor <= cCursor'
    BY <1>1, <1>2, <2>1
  <2>4. \A g \in gets : g.cursor <= cCursor'
    BY <1>1, <1>2, <2>1
  <2> QED BY <1>1, <2>1, <2>2, <2>3, <2>4 DEF DownloadCursors, ovars
<1>11. /\ \A o \in Downloads : o # d => wire'[o] = wire[o]
       /\ wire'[d] = Tail(wire[d])
  BY <1>1, <1>2
<1>12. /\ Len(wire'[d]) = Len(wire[d]) - 1
       /\ \A j \in 1..Len(wire'[d]) : wire'[d][j] = wire[d][j + 1] /\ j + 1 \in 1..Len(wire[d])
  BY <1>1, <1>2, <1>11
<1>13. \A o \in Downloads : \A j \in 1..Len(wire'[o]) :
         \E i \in 1..Len(wire[o]) : wire'[o][j] = wire[o][i]
  BY <1>11, <1>12
<1>14. Attachment'
  <2>1. \A o \in Downloads : \A j \in 1..Len(wire'[o]) :
          attached' /\ wire'[o][j].generation <= generation'
    BY <1>1, <1>13 DEF LinkInv, DownInv, Attachment
  <2>2. \A g \in gets' : Stale(g.generation)'
    BY <1>1, <1>9 DEF Stale
  <2> QED BY <2>1, <2>2 DEF Attachment
<1>15. OneWriter'
  BY <1>1, WriterFrame DEF LinkInv, DownInv, ovars
<1>16. \A c \in Block : Known(c)' => Known(c)
  BY <1>1, <1>13 DEF Known, ovars
<1>17. /\ Len(cGot') = b.End
       /\ \A k \in 1..Len(cGot') : cGot'[k] = k - 1
  <2>1. f \in Seq(Nat) /\ Len(f) = b.Size
    BY <1>6
  <2>2. \A k \in 1..b.Size : f[k] = b.From + k - 1
    OBVIOUS
  <2> HIDE DEF f
  <2>3. Len(cGot') = Len(cGot) + b.Size
    <3>0. cGot \in Seq(Nat) /\ f \in Seq(Nat)
      BY <1>2, <2>1
    <3>1. Len(cGot \o f) = Len(cGot) + Len(f)
      BY <3>0
    <3> QED BY <3>1, <2>1, <1>1
  <2>4. ASSUME NEW k \in 1..Len(cGot') PROVE cGot'[k] = k - 1
    <3>1. Len(cGot) \in Nat
      BY <1>2
    <3>2. CASE k <= Len(cGot)
      <4>1. k \in 1..Len(cGot)
        BY <3>1, <3>2, <2>3, <1>6
      <4>2. cGot'[k] = cGot[k]
        BY <1>1, <1>2, <2>1, <4>1
      <4> QED BY <4>1, <4>2 DEF LinkInv, DownInv, ClientBytes
    <3>3. CASE k > Len(cGot)
      <4>1. k - Len(cGot) \in 1..b.Size
        BY <3>1, <3>3, <2>3, <1>6
      <4>2. cGot'[k] = f[k - Len(cGot)]
        BY <1>1, <1>2, <2>1, <2>3, <3>1, <3>3
      <4>3. b.From + (k - Len(cGot)) - 1 = k - 1
        BY <1>6, <1>8, <2>3, <3>1
      <4> QED BY <4>1, <4>2, <4>3, <2>2
    <3> QED BY <3>1, <3>2, <3>3, <2>3, <1>6
  <2>5. Len(cGot') = b.End
    BY <1>8, <2>3
  <2> QED BY <2>4, <2>5
<1>18. ClientBytes'
  <2>1. Len(cGot') <= emitted'
    BY <1>1, <1>8, <1>17 DEF ovars
  <2>2. cCursor' = outputNext' => Len(cGot') = emitted'
    BY <1>1, <1>2, <1>6, <1>8, <1>17 DEF ovars
  <2> QED BY <2>1, <2>2, <1>17 DEF ClientBytes
<1>19. BlocksInPlace'
  <2> SUFFICES ASSUME NEW c \in Block, Known(c)'
               PROVE  /\ c.End = c.From + c.Size /\ c.End <= emitted' /\ c.Sequence < outputNext'
                      /\ c.Sequence = outputNext' - 1 => c.End = emitted'
                      /\ c.Sequence = cCursor' => c.From = Len(cGot')
                      /\ c.Sequence >= cCursor' => Len(cGot') <= c.From
                      /\ \A a \in Block : Known(a)' =>
                           /\ a.Sequence < c.Sequence => a.End <= c.From
                           /\ a.Sequence + 1 = c.Sequence => a.End = c.From
    BY DEF BlocksInPlace
  <2>1. Known(c) /\ c.Sequence \in Nat
    BY <1>16 DEF Block
  <2>2. /\ c.End = c.From + c.Size /\ c.End <= emitted /\ c.Sequence < outputNext
        /\ c.Sequence = outputNext - 1 => c.End = emitted
        /\ \A a \in Block : Known(a) =>
             /\ a.Sequence < c.Sequence => a.End <= c.From
             /\ a.Sequence + 1 = c.Sequence => a.End = c.From
    BY <2>1 DEF LinkInv, DownInv, BlocksInPlace
  <2>3. c.Sequence = cCursor' => c.From = Len(cGot')
    BY <1>1, <1>8, <1>17, <2>1
  <2>4. c.Sequence >= cCursor' => Len(cGot') <= c.From
    <3>1. c.Sequence >= cCursor' => b.Sequence < c.Sequence
      BY <1>1, <1>2, <2>1
    <3> QED BY <3>1, <1>8, <1>17, <2>1
  <2> QED BY <1>1, <1>16, <2>2, <2>3, <2>4 DEF ovars
<1> QED BY <1>10, <1>14, <1>15, <1>18, <1>19 DEF DownInv
\* What an acknowledgement leaves in the replay buffer was there before.
LEMMA ReleasedKnown ==
  ASSUME Inv, NEW next \in Nat, ReleaseBefore(next), UNCHANGED wire, NEW b \in Block, Known(b)'
  PROVE  Known(b)
<1>1. PICK k \in 0..Len(output) : output' = SubSeq(output, k + 1, Len(output))
  BY DEF ReleaseBefore
<1>2. output \in Seq(Block) /\ Len(output) \in Nat
  BY DEF Inv, TypeOK
<1>3. /\ Len(output') = Len(output) - k
      /\ \A i \in 1..(Len(output) - k) : output'[i] = output[k + i] /\ k + i \in 1..Len(output)
  BY <1>1, <1>2
<1> QED BY <1>3 DEF Known

LEMMA DownAck ==
  ASSUME LinkInv, NEW next \in Nat, next <= cCursor, ReleaseBefore(next),
         uploads' \cup handling' \subseteq uploads \cup handling, gets' \subseteq gets,
         UNCHANGED <<outputNext, emitted, wvars, failed, generation, attached,
                     cCursor, cGot, cGeneration, wire>>
  PROVE  DownInv'
<1>1. outputFloor' = next
  BY DEF ReleaseBefore
<1>2. DownloadCursors'
  BY <1>1 DEF LinkInv, DownInv, DownloadCursors
<1>3. Attachment'
  BY DEF LinkInv, DownInv, Attachment, Stale
<1>4. OneWriter'
  BY WriterFrame DEF LinkInv, DownInv
<1>5. \A b \in Block : Known(b)' => Known(b)
  BY ReleasedKnown DEF LinkInv
<1>6. BlocksInPlace' /\ ClientBytes'
  BY <1>5, PlaceFrame DEF LinkInv, DownInv
<1> QED BY <1>2, <1>3, <1>4, <1>6 DEF DownInv

\* Closing drops the replay buffer; what is on its way may still arrive.
LEMMA DownClose ==
  ASSUME LinkInv, Close,
         uploads' \cup handling' \subseteq uploads \cup handling, gets' \subseteq gets,
         UNCHANGED <<cCursor, cGot, cGeneration, wire>>
  PROVE  DownInv'
<1>1. /\ UNCHANGED <<outputNext, outputFloor, emitted, wvars, failed, generation, attached>>
      /\ output' = <<>>
  BY DEF Close, dvars
<1>2. DownloadCursors'
  BY <1>1 DEF LinkInv, DownInv, DownloadCursors
<1>3. Attachment'
  BY <1>1 DEF LinkInv, DownInv, Attachment, Stale
<1>4. OneWriter'
  BY <1>1, WriterFrame DEF LinkInv, DownInv
<1>5. \A b \in Block : Known(b)' => Known(b)
  BY <1>1 DEF Known
<1>6. BlocksInPlace' /\ ClientBytes'
  BY <1>1, <1>5, PlaceFrame DEF LinkInv, DownInv
<1> QED BY <1>2, <1>3, <1>4, <1>6 DEF DownInv

\* A download that is not stale is the client's latest, so its cursor is the
\* block the client waits for.
LEMMA DownAttach ==
  ASSUME LinkInv, NEW g \in gets, NEW d \in Downloads, DownloadAttach(d, g)
  PROVE  DownInv'
<1>1. UNCHANGED <<uploads, handling, gets, cCursor, cGot, cGeneration, wire>>
  BY DEF DownloadAttach, cvars, nvars
<1>2. CASE Close
  BY <1>1, <1>2, DownClose
<1>3. CASE Attach(d, g.generation, g.cursor)
  <2>1. /\ ReleaseBefore(g.cursor) /\ ~Stale(g.generation)
        /\ generation' = g.generation /\ attached'
        /\ UNCHANGED <<outputNext, emitted, wvars, failed>>
    BY <1>3 DEF Attach
  <2>2. g.generation \in Nat /\ generation \in Nat /\ cCursor \in Nat /\ outputNext \in Nat
        /\ wire \in [Downloads -> Seq(Entries)] /\ attached \in BOOLEAN
        /\ \A h \in gets : h.generation \in Nat
    BY GenerationsAssumption DEF LinkInv, LinkTypes, Gets, Inv, TypeOK
  <2>3. g.cursor = cCursor
    BY <2>1 DEF LinkInv, DownInv, Attachment
  <2>4. attached => generation < g.generation
    BY <2>1, <2>2 DEF Stale
  <2>5. outputFloor' = cCursor
    BY <2>1, <2>3 DEF ReleaseBefore
  <2>6. DownloadCursors'
    BY <1>1, <2>1, <2>2, <2>5 DEF LinkInv, DownInv, DownloadCursors
  <2>7. Attachment'
    <3>1. ASSUME NEW o \in Downloads, NEW j \in 1..Len(wire[o])
          PROVE  wire[o][j].generation <= g.generation
      <4>1. wire[o][j] \in Entries
        BY <2>2
      <4>2. wire[o][j].generation \in Nat
        BY <4>1 DEF Entries
      <4>3. attached /\ wire[o][j].generation <= generation
        BY DEF LinkInv, DownInv, Attachment
      <4> QED BY <2>2, <2>4, <4>2, <4>3
    <3>2. ASSUME NEW h \in gets, ~(h.generation = 0 \/ h.generation <= g.generation)
          PROVE  h.cursor = cCursor
      <4>1. ~Stale(h.generation)
        BY <2>2, <2>4, <3>2 DEF Stale
      <4> QED BY <4>1 DEF LinkInv, DownInv, Attachment
    <3> QED BY <1>1, <2>1, <3>1, <3>2 DEF Attachment, Stale
  <2>8. OneWriter'
    BY <2>1, WriterFrame DEF LinkInv, DownInv
  <2>9. \A b \in Block : Known(b)' => Known(b)
    BY <1>1, <2>1, <2>2, <2>3, ReleasedKnown DEF LinkInv
  <2>10. BlocksInPlace' /\ ClientBytes'
    BY <1>1, <2>1, <2>9, PlaceFrame DEF LinkInv, DownInv
  <2> QED BY <2>6, <2>7, <2>8, <2>10 DEF DownInv
<1> QED BY <1>2, <1>3 DEF DownloadAttach

LEMMA DownServe ==
  ASSUME LinkInv, NEW d \in Downloads, DownloadWrite(d)
  PROVE  DownInv'
<1> DEFINE e == [generation |-> response[d].generation, block |-> NextBlock(d)]
           i == response[d].cursor - outputFloor + 1
<1>1. /\ UNCHANGED <<uploads, handling, gets, cCursor, cGot, cGeneration>>
      /\ UNCHANGED <<ovars, wvars, failed, generation, attached>>
      /\ NextServe(d) /\ wire' = [wire EXCEPT ![d] = Append(@, e)]
  BY DEF DownloadWrite, NextServe, cvars
<1>2. /\ i \in 1..Len(output) /\ NextBlock(d) \in Block /\ NextBlock(d) = output[i]
      /\ attached /\ response[d].generation = generation /\ generation \in Nat
  BY <1>1, ServedBlock DEF LinkInv, NextBlock
<1>3. e.generation = generation /\ e.block = output[i] /\ e \in Entries
  BY <1>2 DEF Entries
<1> HIDE DEF e, i
<1>4. wire \in [Downloads -> Seq(Entries)] /\ wire[d] \in Seq(Entries)
  BY DEF LinkInv, LinkTypes
<1>5. /\ \A o \in Downloads : o # d => wire'[o] = wire[o]
      /\ wire'[d] = Append(wire[d], e)
  BY <1>1, <1>4
<1>6. /\ Len(wire'[d]) = Len(wire[d]) + 1 /\ wire'[d][Len(wire[d]) + 1] = e
      /\ \A j \in 1..Len(wire[d]) : wire'[d][j] = wire[d][j]
      /\ Len(wire[d]) \in Nat
  BY <1>3, <1>4, <1>5
<1>7. \A o \in Downloads : \A j \in 1..Len(wire'[o]) :
        (j \in 1..Len(wire[o]) /\ wire'[o][j] = wire[o][j]) \/ wire'[o][j] = e
  BY <1>5, <1>6
<1>8. DownloadCursors'
  BY <1>1 DEF LinkInv, DownInv, DownloadCursors, ovars
<1>9. Attachment'
  <2>1. \A o \in Downloads : \A j \in 1..Len(wire'[o]) :
          attached' /\ wire'[o][j].generation <= generation'
    BY <1>1, <1>2, <1>3, <1>7 DEF LinkInv, DownInv, Attachment
  <2> QED BY <1>1, <2>1 DEF LinkInv, DownInv, Attachment, Stale
<1>10. OneWriter'
  BY <1>1, WriterFrame DEF LinkInv, DownInv, ovars
<1>11. \A b \in Block : Known(b)' => Known(b)
  BY <1>1, <1>2, <1>3, <1>7 DEF Known, ovars
<1>12. BlocksInPlace' /\ ClientBytes'
  BY <1>1, <1>11, PlaceFrame DEF LinkInv, DownInv, ovars
<1> QED BY <1>8, <1>9, <1>10, <1>12 DEF DownInv

LEMMA DownCut == ASSUME LinkInv, NEW d \in Downloads, Cut(d) PROVE DownInv'
<1>1. /\ UNCHANGED <<uploads, handling, gets, cCursor, cGot, cGeneration>>
      /\ UNCHANGED <<ovars, wvars, failed, generation, attached>>
      /\ wire' = [wire EXCEPT ![d] = <<>>]
  BY DEF Cut, NextCancel, EndResponse, cvars, vars, dvars
<1>2. wire \in [Downloads -> Seq(Entries)]
  BY DEF LinkInv, LinkTypes
<1>3. \A o \in Downloads : wire'[o] = <<>> \/ wire'[o] = wire[o]
  BY <1>1, <1>2
<1>4. \A o \in Downloads : \A j \in 1..Len(wire'[o]) :
        j \in 1..Len(wire[o]) /\ wire'[o][j] = wire[o][j]
  BY <1>3
<1>5. DownloadCursors'
  BY <1>1 DEF LinkInv, DownInv, DownloadCursors, ovars
<1>6. Attachment'
  BY <1>1, <1>4 DEF LinkInv, DownInv, Attachment, Stale
<1>7. OneWriter'
  BY <1>1, WriterFrame DEF LinkInv, DownInv, ovars
<1>8. \A b \in Block : Known(b)' => Known(b)
  BY <1>1, <1>4 DEF Known, ovars
<1>9. BlocksInPlace' /\ ClientBytes'
  BY <1>1, <1>8, PlaceFrame DEF LinkInv, DownInv, ovars
<1> QED BY <1>5, <1>6, <1>7, <1>9 DEF DownInv
\* A write starts only when the one before it is out.
LEMMA DownStart ==
  ASSUME LinkInv, NEW n \in WriteSizes, Write(n), UNCHANGED <<cvars, nvars>>
  PROVE  DownInv'
<1>1. /\ UNCHANGED <<uploads, handling, gets, wire, cCursor, cGot, cGeneration>>
      /\ UNCHANGED <<ovars, failed, generation, attached, corked, cork>>
      /\ mutex' = "tls" /\ "tls" \notin failed /\ produced' = produced + n
      /\ job["tls"].Left = 0
      /\ job' = [job EXCEPT !["tls"] = [From |-> produced, Left |-> n, Size |-> MaxBlock]]
  BY DEF Write, Awake, TLSOutFree, cvars, nvars, dvars
<1>2. /\ job \in [Writers -> Jobs] /\ "tls" \in Writers /\ "cell" \in Writers
      /\ emitted \in Nat /\ produced \in Nat /\ n \in Nat \ {0}
  BY WriteSizesAssumption DEF LinkInv, Inv, TypeOK, Jobs, Writers
<1>3. job'["tls"].From = produced /\ job'["tls"].Left = n /\ job'["cell"] = job["cell"]
  BY <1>1, <1>2
<1>4. emitted = produced
  BY <1>1 DEF LinkInv, DownInv, OneWriter
<1>5. OneWriter'
  <2>1. emitted' = emitted
    BY <1>1 DEF ovars
  <2>2. ~corked /\ cork = NoJob /\ job["cell"] = NoJob
    BY DEF LinkInv, DownInv, OneWriter
  <2>3. job'["tls"].From = emitted' /\ emitted' + job'["tls"].Left = produced'
    BY <1>1, <1>3, <1>4, <2>1
  <2>4. job'["tls"].Left # 0
    BY <1>2, <1>3
  <2> QED BY <1>1, <1>3, <2>2, <2>3, <2>4 DEF OneWriter
<1>6. DownloadCursors'
  BY <1>1 DEF LinkInv, DownInv, DownloadCursors, ovars
<1>7. Attachment'
  BY <1>1 DEF LinkInv, DownInv, Attachment, Stale
<1>8. \A b \in Block : Known(b)' => Known(b)
  BY <1>1, KnownFrame DEF ovars
<1>9. BlocksInPlace' /\ ClientBytes'
  BY <1>1, <1>8, PlaceFrame DEF LinkInv, DownInv, ovars
<1> QED BY <1>5, <1>6, <1>7, <1>9 DEF DownInv

\* A new block begins where the output ended.
LEMMA DownBlock ==
  ASSUME LinkInv, WriteBlock("tls"), UNCHANGED <<cvars, nvars>>
  PROVE  DownInv'
<1> DEFINE n == NextSize("tls")
           b == [Sequence |-> outputNext, From |-> job["tls"].From, Size |-> n, End |-> emitted + n]
<1>1. /\ UNCHANGED <<uploads, handling, gets, wire, cCursor, cGot, cGeneration>>
      /\ UNCHANGED <<failed, generation, attached, corked, cork, outputFloor, produced>>
      /\ mutex = "tls" /\ outputNext # MaxSeq /\ outputNext' = outputNext + 1
      /\ mutex' \in {"free", "tls"}
      /\ output' = Append(output, b) /\ emitted' = emitted + n
      /\ job' = [job EXCEPT !["tls"] = [From |-> job["tls"].From + n, Left |-> job["tls"].Left - n,
                                        Size |-> job["tls"].Size]]
  BY DEF WriteBlock, Rest, cvars, nvars, dvars
<1>2. /\ job \in [Writers -> Jobs] /\ "tls" \in Writers /\ "cell" \in Writers /\ job["tls"] \in Jobs
      /\ emitted \in Nat /\ produced \in Nat /\ outputNext \in Nat /\ output \in Seq(Block)
      /\ cCursor \in Nat /\ MaxSeq \in Nat /\ outputFloor \in Nat /\ cGot \in Seq(Nat)
  BY MaxSeqAssumption DEF LinkInv, LinkTypes, Inv, TypeOK, Jobs, Writers
<1>3. n \in Nat /\ n <= job["tls"].Left
  BY <1>2 DEF NextSize, Jobs
<1>4. job["tls"].Left > 0
  BY <1>1 DEF LinkInv, Inv, HolderWorks, Writers
<1>5. job["tls"].From = emitted /\ emitted + job["tls"].Left = produced
  BY <1>4 DEF LinkInv, DownInv, OneWriter
<1>6. b.Sequence = outputNext /\ b.From = emitted /\ b.Size = n /\ b.End = emitted + n /\ b \in Block
  BY <1>2, <1>3, <1>5 DEF Block
<1> HIDE DEF n, b
<1>7. /\ job'["tls"].From = job["tls"].From + n /\ job'["tls"].Left = job["tls"].Left - n
      /\ job'["cell"] = job["cell"]
  BY <1>1, <1>2
<1>8. OneWriter'
  <2>1. ~corked /\ cork = NoJob /\ job["cell"] = NoJob
    BY DEF LinkInv, DownInv, OneWriter
  <2>2. job["tls"].Left \in Nat
    BY <1>2 DEF Jobs
  <2>3. job'["tls"].From = emitted' /\ emitted' + job'["tls"].Left = produced'
    BY <1>1, <1>2, <1>3, <1>5, <1>7, <2>2
  <2>4. job'["tls"].Left = 0 => emitted' = produced'
    BY <1>1, <1>2, <1>3, <2>3
  <2>5. mutex' # "cell"
    BY <1>1
  <2> QED BY <1>1, <1>7, <2>1, <2>3, <2>4, <2>5 DEF OneWriter
<1>9. /\ outputNext <= MaxSeq /\ outputFloor <= cCursor /\ cCursor <= outputNext
  BY DEF LinkInv, DownInv, DownloadCursors
<1>10. DownloadCursors'
  <2>1. outputNext' <= MaxSeq /\ cCursor <= outputNext'
    BY <1>1, <1>2, <1>9
  <2> QED BY <1>1, <2>1 DEF LinkInv, DownInv, DownloadCursors
<1>11. Attachment'
  BY <1>1 DEF LinkInv, DownInv, Attachment, Stale
<1>12. \A c \in Block : Known(c)' => Known(c) \/ c = b
  <2>1. /\ Len(output') = Len(output) + 1 /\ output'[Len(output) + 1] = b /\ Len(output) \in Nat
        /\ \A i \in 1..Len(output) : output'[i] = output[i]
    BY <1>1, <1>2, <1>6
  <2>2. \A i \in 1..Len(output') : (i \in 1..Len(output) /\ output'[i] = output[i]) \/ output'[i] = b
    BY <2>1
  <2> QED BY <1>1, <2>2 DEF Known
<1>13. /\ Len(cGot) <= emitted /\ Len(cGot) \in Nat
       /\ cCursor = outputNext => Len(cGot) = emitted
       /\ \A k \in 1..Len(cGot) : cGot[k] = k - 1
  BY <1>2 DEF LinkInv, DownInv, ClientBytes
<1>14. ClientBytes'
  <2>1. Len(cGot) <= emitted'
    BY <1>1, <1>2, <1>3, <1>13
  <2>2. cCursor # outputNext'
    BY <1>1, <1>2, <1>9
  <2> QED BY <1>1, <1>13, <2>1, <2>2 DEF ClientBytes
<1>15. ASSUME NEW c \in Block, Known(c)
       PROVE  /\ c.End = c.From + c.Size /\ c.End <= emitted /\ c.Sequence < outputNext
              /\ c.Sequence = outputNext - 1 => c.End = emitted
              /\ c.Sequence = cCursor => c.From = Len(cGot)
              /\ c.Sequence >= cCursor => Len(cGot) <= c.From
              /\ \A a \in Block : Known(a) =>
                   /\ a.Sequence < c.Sequence => a.End <= c.From
                   /\ a.Sequence + 1 = c.Sequence => a.End = c.From
  BY <1>15 DEF LinkInv, DownInv, BlocksInPlace
<1>16. BlocksInPlace'
  <2> SUFFICES ASSUME NEW c \in Block, Known(c)'
               PROVE  /\ c.End = c.From + c.Size /\ c.End <= emitted' /\ c.Sequence < outputNext'
                      /\ c.Sequence = outputNext' - 1 => c.End = emitted'
                      /\ c.Sequence = cCursor' => c.From = Len(cGot')
                      /\ c.Sequence >= cCursor' => Len(cGot') <= c.From
                      /\ \A a \in Block : Known(a)' =>
                           /\ a.Sequence < c.Sequence => a.End <= c.From
                           /\ a.Sequence + 1 = c.Sequence => a.End = c.From
    BY DEF BlocksInPlace
  <2>0. cCursor' = cCursor /\ cGot' = cGot
    BY <1>1
  <2>1. CASE c = b
    <3>1. /\ c.End = c.From + c.Size /\ c.End <= emitted' /\ c.Sequence < outputNext'
          /\ c.End = emitted'
      BY <2>1, <1>1, <1>2, <1>3, <1>6
    <3>2. /\ c.Sequence = cCursor => c.From = Len(cGot)
          /\ Len(cGot) <= c.From
      BY <2>1, <1>6, <1>13
    <3>3. ASSUME NEW a \in Block, Known(a)'
          PROVE  /\ a.Sequence < c.Sequence => a.End <= c.From
                 /\ a.Sequence + 1 = c.Sequence => a.End = c.From
      <4>1. CASE a = b
        BY <2>1, <4>1, <1>2, <1>6
      <4>2. CASE Known(a)
        <5>1. a.End <= emitted /\ (a.Sequence = outputNext - 1 => a.End = emitted)
          BY <4>2, <1>15
        <5>2. a.Sequence \in Nat
          BY DEF Block
        <5> QED BY <5>1, <5>2, <2>1, <1>2, <1>6
      <4> QED BY <3>3, <4>1, <4>2, <1>12
    <3> QED BY <2>0, <3>1, <3>2, <3>3
  <2>2. CASE Known(c)
    <3>0. c.Sequence \in Nat /\ c.End \in Nat
      BY DEF Block
    <3>1. /\ c.End = c.From + c.Size /\ c.End <= emitted /\ c.Sequence < outputNext
          /\ c.Sequence = cCursor => c.From = Len(cGot)
          /\ c.Sequence >= cCursor => Len(cGot) <= c.From
      BY <2>2, <1>15
    <3>2. c.End <= emitted' /\ c.Sequence < outputNext' /\ c.Sequence # outputNext' - 1
      BY <3>0, <3>1, <1>1, <1>2, <1>3
    <3>3. ASSUME NEW a \in Block, Known(a)'
          PROVE  /\ a.Sequence < c.Sequence => a.End <= c.From
                 /\ a.Sequence + 1 = c.Sequence => a.End = c.From
      <4>1. CASE a = b
        BY <3>0, <3>1, <4>1, <1>2, <1>6
      <4>2. CASE Known(a)
        BY <2>2, <4>2, <1>15
      <4> QED BY <3>3, <4>1, <4>2, <1>12
    <3> QED BY <2>0, <3>1, <3>2, <3>3
  <2> QED BY <2>1, <2>2, <1>12
<1> QED BY <1>8, <1>10, <1>11, <1>14, <1>16 DEF DownInv

\* A writer that waits, wakes or fails puts nothing out.
LEMMA DownPause ==
  ASSUME LinkInv, WriteWait("tls") \/ WriteFail("tls") \/ WriteResume("tls"),
         UNCHANGED <<cvars, nvars>>
  PROVE  DownInv'
<1>1. /\ UNCHANGED <<uploads, handling, gets, wire, cCursor, cGot, cGeneration>>
      /\ UNCHANGED <<ovars, generation, attached, corked, cork, produced>>
      /\ mutex' \in {"free", "tls"}
  BY DEF WriteWait, WriteFail, WriteResume, cvars, nvars, dvars
<1>2. job \in [Writers -> Jobs] /\ "tls" \in Writers /\ "cell" \in Writers
  BY DEF LinkInv, Inv, TypeOK, Jobs, Writers
<1>3. \/ job' = job /\ failed' = failed
      \/ /\ job'["tls"].Left = 0 /\ job'["cell"] = job["cell"]
         /\ "tls" \in failed'
  <2>1. CASE WriteFail("tls")
    <3>1. job' = [job EXCEPT !["tls"].Left = 0] /\ "tls" \in failed'
      BY <2>1 DEF WriteFail
    <3>2. job["tls"] \in Jobs
      BY <1>2
    <3>3. job'["tls"] = [job["tls"] EXCEPT !.Left = 0] /\ job'["cell"] = job["cell"]
      BY <1>2, <3>1
    <3>4. job'["tls"].Left = 0
      BY <3>2, <3>3 DEF Jobs
    <3> QED BY <3>1, <3>3, <3>4
  <2>2. CASE WriteWait("tls") \/ WriteResume("tls")
    BY <2>2 DEF WriteWait, WriteResume
  <2> QED BY <2>1, <2>2
<1>4. OneWriter'
  <2>1. ~corked' /\ cork' = NoJob /\ job'["cell"] = NoJob /\ mutex' # "cell"
    BY <1>1, <1>3 DEF LinkInv, DownInv, OneWriter
  <2>2. CASE job' = job /\ failed' = failed
    BY <1>1, <2>1, <2>2 DEF LinkInv, DownInv, OneWriter, ovars
  <2>3. CASE job'["tls"].Left = 0 /\ "tls" \in failed'
    BY <2>1, <2>3 DEF OneWriter
  <2> QED BY <1>3, <2>2, <2>3
<1>5. DownloadCursors'
  BY <1>1 DEF LinkInv, DownInv, DownloadCursors, ovars
<1>6. Attachment'
  BY <1>1 DEF LinkInv, DownInv, Attachment, Stale
<1>7. \A b \in Block : Known(b)' => Known(b)
  BY <1>1, KnownFrame DEF ovars
<1>8. BlocksInPlace' /\ ClientBytes'
  BY <1>1, <1>7, PlaceFrame DEF LinkInv, DownInv, ovars
<1> QED BY <1>4, <1>5, <1>6, <1>8 DEF DownInv
LEMMA DownNext == ASSUME LinkInv, [LinkNext]_lvars PROVE DownInv'
<1> USE DEF cvars, nvars
<1>0. DownInv
  BY DEF LinkInv
<1>1. CASE UNCHANGED lvars
  BY <1>0, <1>1, DownFrame DEF lvars, vars, dvars
<1>2. ASSUME NEW r \in replies, ClientReply(r) PROVE DownInv'
  BY <1>0, <1>2, DownFrame DEF ClientReply, vars, dvars
<1>3. ASSUME NEW r \in uploads, UploadAck(r) PROVE DownInv'
  <2>1. /\ uploads' \cup handling' \subseteq uploads \cup handling
        /\ UNCHANGED <<gets, cCursor, cGot, cGeneration, wire>>
    BY <1>3 DEF UploadAck
  <2>2. CASE UNCHANGED vars
    BY <1>0, <2>1, <2>2, DownFrame DEF vars, dvars
  <2>3. CASE Ack(r.cursor)
    <3>1. r.cursor \in Nat /\ r.cursor <= cCursor
      BY InRange, MaxSeqAssumption
    <3> QED BY <2>1, <2>3, <3>1, DownAck DEF Ack, dvars
  <2>4. CASE Close
    BY <2>1, <2>4, DownClose
  <2> QED BY <1>3, <2>2, <2>3, <2>4 DEF UploadAck
<1>4. ASSUME NEW r, LoseUpload(r) \/ LoseGet(r) PROVE DownInv'
  BY <1>0, <1>4, DownFrame DEF LoseUpload, LoseGet, vars, dvars
<1>5. ASSUME NEW r \in handling, UploadPut(r) PROVE DownInv'
  <2>1. /\ uploads' \cup handling' \subseteq uploads \cup handling
        /\ UNCHANGED <<gets, cCursor, cGot, cGeneration, wire>>
    BY <1>5 DEF UploadPut
  <2>2. CASE UNCHANGED vars \/ Put(r.sequence, Body(r.sequence))
    BY <1>0, <2>1, <2>2, DownFrame DEF Put, vars, dvars
  <2>3. CASE Close
    BY <2>1, <2>3, DownClose
  <2> QED BY <1>5, <2>2, <2>3 DEF UploadPut
<1>6. ASSUME NEW d \in Downloads, DownloadWait(d) PROVE DownInv'
  BY <1>0, <1>6, DownFrame DEF DownloadWait, NextWait, NextFail, EndResponse, dvars
<1>7. ASSUME LinkRead PROVE DownInv'
  <2>1. /\ UNCHANGED <<ovars, wvars, dvars, cvars, nvars>> /\ failed' \in {failed, failed \cup {"reader"}}
    BY <1>7 DEF LinkRead, Read, ReadData, ReadWait, ReadFail
  <2>2. OneWriter'
    BY <1>0, <2>1 DEF DownInv, OneWriter, ovars, wvars
  <2>3. DownloadCursors' /\ Attachment'
    BY <1>0, <2>1 DEF DownInv, DownloadCursors, Attachment, Stale, ovars, dvars
  <2>4. \A b \in Block : Known(b)' => Known(b)
    BY <2>1, KnownFrame DEF ovars
  <2>5. BlocksInPlace' /\ ClientBytes'
    BY <1>0, <2>1, <2>4, PlaceFrame DEF DownInv, ovars
  <2> QED BY <2>2, <2>3, <2>5 DEF DownInv
<1>8. ASSUME LinkWrite PROVE DownInv'
  BY <1>8, DownStart DEF LinkWrite
<1>9. ASSUME LinkLoop PROVE DownInv'
  BY <1>9, DownBlock, DownPause DEF LinkLoop, WriteLoop
<1>10. ASSUME LinkClose PROVE DownInv'
  BY <1>10, DownClose DEF LinkClose
<1> QED
  BY <1>1, <1>2, <1>3, <1>4, <1>5, <1>6, <1>7, <1>8, <1>9, <1>10, DownUpload, DownAsk, DownReceive,
     DownAttach, DownServe, DownCut
  DEF LinkNext

-----------------------------------------------------------------------------
(* The invariant of the composition. *)

LEMMA LinkInvInit == ASSUME LinkInit PROVE LinkInv
<1>1. Inv
  BY InvInit DEF LinkInit
<1>2. LinkTypes
  <2>1. wire \in [Downloads -> Seq(Entries)]
    <3>1. <<>> \in Seq(Entries)
      OBVIOUS
    <3> QED BY <3>1 DEF LinkInit
  <2>2. 0 \in 0..ClientBlocks
    BY ClientBlocksAssumption, MaxSeqAssumption
  <2>3. cGot \in Seq(Nat) /\ read \in Seq(Bodies)
    BY DEF LinkInit
  <2> QED BY <2>1, <2>2, <2>3 DEF LinkInit, LinkTypes
<1>3. UpInv
  <2>1. UploadSlots \in Nat
    BY UploadSlotsAssumption
  <2>2. UploadCursors
    BY <2>1 DEF LinkInit, Init, UploadCursors
  <2>3. UploadContent
    BY DEF LinkInit, Init, UploadContent
  <2>4. Receipts
    BY DEF LinkInit, Receipts
  <2> QED BY <2>2, <2>3, <2>4 DEF UpInv
<1>4. DownInv
  <2>1. DownloadCursors
    BY MaxSeqAssumption DEF LinkInit, Init, DownloadCursors
  <2>2. \A d \in Downloads : wire[d] = <<>>
    BY DEF LinkInit
  <2>3. Attachment
    BY <2>2 DEF LinkInit, Attachment
  <2>4. OneWriter
    <3>1. job["tls"] = NoJob /\ job["cell"] = NoJob
      BY DEF LinkInit, Init, Writers
    <3>2. NoJob.Left = 0
      BY DEF NoJob
    <3> QED BY <3>1, <3>2 DEF LinkInit, Init, OneWriter
  <2>5. BlocksInPlace
    BY <2>2 DEF LinkInit, Init, BlocksInPlace, Known
  <2>6. ClientBytes
    BY DEF LinkInit, Init, ClientBytes
  <2> QED BY <2>1, <2>3, <2>4, <2>5, <2>6 DEF DownInv
<1> QED BY <1>1, <1>2, <1>3, <1>4 DEF LinkInv

LEMMA LinkInvNext == ASSUME LinkInv, [LinkNext]_lvars PROVE LinkInv'
  BY LinkStep, InvNext, TypesNext, UpNext, DownNext DEF LinkInv

\* Connection, handlers, client and network keep the invariant.
THEOREM LinkInvariance == LinkSpec => []LinkInv
  BY LinkInvInit, LinkInvNext, PTL DEF LinkSpec

\* A block some reply named is stored: the client may forget it.
THEOREM ReceiptsAreKept == LinkSpec => []ReceiptMeansStored
<1>1. LinkInv => ReceiptMeansStored
  BY DEF LinkInv, UpInv, UploadCursors, Receipts, Stored, ReceiptMeansStored
<1> QED BY <1>1, LinkInvariance, PTL

-----------------------------------------------------------------------------
(* Late requests. *)

LEMMA BodySize ==
  ASSUME NEW s \in Nat
  PROVE  Body(s).size # 0 /\ ~(Body(s).size > MaxBlock)
<1>1. s % MaxBlock \in 0..(MaxBlock - 1)
  BY MaxBlockAssumption
<1>2. Body(s).size = 1 + (s % MaxBlock)
  BY DEF Body
<1> DEFINE q == s % MaxBlock
<1> HIDE DEF q
<1>3. q \in 0..(MaxBlock - 1) /\ Body(s).size = 1 + q /\ MaxBlock \in Nat
  BY <1>1, <1>2, MaxBlockAssumption DEF q
<1> QED BY <1>3

\* What Put answers to a block the client has sent.
LEMMA SentBlock ==
  ASSUME LinkInv, ~closed, NEW s \in Nat, s < cUploadNext
  PROVE  /\ PutResult(s, Body(s)) \notin {"conflict", "sequence"}
         /\ s >= cAcked => PutResult(s, Body(s)) \in {"new", "duplicate", "full"}
<1>1. /\ uploadNext \in Nat /\ cAcked \in Nat /\ cUploadNext \in Nat /\ cUploadNext <= MaxSeq
      /\ MaxSeq \in Nat /\ UploadSlots \in Nat /\ ReceiptCount \in Nat /\ ReceiptCount >= UploadSlots
  BY ClientBlocksAssumption, MaxSeqAssumption, UploadSlotsAssumption, ReceiptCountAssumption
  DEF LinkInv, LinkTypes, Inv, TypeOK
<1>2. cAcked <= uploadNext /\ uploadNext <= cUploadNext /\ cUploadNext <= cAcked + UploadSlots
  BY DEF LinkInv, UpInv, UploadCursors
<1>3. /\ \A t \in DOMAIN pending : pending[t] = Body(t)
      /\ \A t \in DOMAIN receipts : receipts[t] = Body(t)
      /\ DOMAIN receipts = {t \in 0..(uploadNext - 1) : t + ReceiptCount >= uploadNext}
  BY DEF LinkInv, UpInv, UploadContent, Inv, UploadWindow
<1>4. Body(s).size # 0 /\ ~(Body(s).size > MaxBlock)
  BY BodySize
<1>5. CASE s < uploadNext
  <2>1. s >= cAcked => s \in DOMAIN receipts
    <3>1. s >= cAcked => s + ReceiptCount >= uploadNext
      BY <1>1, <1>2
    <3>2. s \in 0..(uploadNext - 1)
      BY <1>1, <1>5
    <3> QED BY <3>1, <3>2, <1>3
  <2>2. PutResult(s, Body(s)) = IF s \notin DOMAIN receipts THEN "gone" ELSE "duplicate"
    BY <1>3, <1>4, <1>5 DEF PutResult
  <2> QED BY <2>1, <2>2
<1>6. CASE ~(s < uploadNext)
  <2>1. s # MaxSeq /\ ~(s - uploadNext >= UploadSlots)
    BY <1>1, <1>2, <1>6
  <2>2. ~OutOfWindow(s)
    BY <2>1 DEF OutOfWindow
  <2>3. PutResult(s, Body(s)) \in {"new", "duplicate", "full"}
    BY <1>3, <1>4, <1>6, <2>2 DEF PutResult
  <2> QED BY <2>3
<1> QED BY <1>5, <1>6

\* No request of a client that follows the rules ends the session, however
\* late or often it arrives.
THEOREM LateRequestsAreHarmless == LinkSpec => []LateRequestsHarmless
<1>1. LinkInv => LateRequestsHarmless
  <2> SUFFICES ASSUME LinkInv, ~closed
               PROVE  /\ \A s \in cAcked..(cUploadNext - 1) :
                           PutResult(s, Body(s)) \in {"new", "duplicate", "full"}
                      /\ \A r \in uploads \cup handling :
                           /\ r.cursor <= outputNext
                           /\ PutResult(r.sequence, Body(r.sequence)) \notin {"conflict", "sequence"}
                      /\ \A g \in gets : ~Stale(g.generation) => AckResult(g.cursor) = "ok"
    BY DEF LateRequestsHarmless
  <2>1. /\ cAcked \in Nat /\ cUploadNext \in Nat /\ cCursor \in Nat /\ outputNext \in Nat
        /\ outputFloor \in Nat
    BY ClientBlocksAssumption DEF LinkInv, LinkTypes, Inv, TypeOK
  <2>2. outputFloor <= cCursor /\ cCursor <= outputNext
    BY DEF LinkInv, DownInv, DownloadCursors
  <2>3. ASSUME NEW s \in cAcked..(cUploadNext - 1)
        PROVE  PutResult(s, Body(s)) \in {"new", "duplicate", "full"}
    <3>1. s \in Nat /\ s < cUploadNext /\ s >= cAcked
      BY <2>1
    <3> QED BY <3>1, SentBlock
  <2>4. ASSUME NEW r \in uploads \cup handling
        PROVE  /\ r.cursor <= outputNext
               /\ PutResult(r.sequence, Body(r.sequence)) \notin {"conflict", "sequence"}
    <3>1. r.sequence \in Nat /\ r.sequence < cUploadNext /\ r.cursor \in Nat /\ r.cursor <= cCursor
      BY InRange, MaxSeqAssumption
    <3>2. r.cursor <= outputNext
      BY <2>1, <2>2, <3>1
    <3> QED BY <3>1, <3>2, SentBlock
  <2>5. ASSUME NEW g \in gets, ~Stale(g.generation) PROVE AckResult(g.cursor) = "ok"
    <3>1. g.cursor = cCursor
      BY <2>5 DEF LinkInv, DownInv, Attachment
    <3> QED BY <2>1, <2>2, <3>1 DEF AckResult
  <2> QED BY <2>3, <2>4, <2>5
<1> QED BY <1>1, LinkInvariance, PTL
-----------------------------------------------------------------------------
(* Two reliable streams. *)

\* A sequence that agrees with a longer one is a prefix of it.
LEMMA Agrees ==
  ASSUME NEW S, NEW s \in Seq(S), NEW t \in Seq(S), Len(s) <= Len(t),
         \A i \in 1..Len(s) : s[i] = t[i]
  PROVE  /\ Stream!IsPrefix(s, t)
         /\ Len(s) # Len(t) => Stream!IsStrictPrefix(s, t)
<1>1. Len(s) \in Nat /\ Len(t) \in Nat
  OBVIOUS
<1>2. SubSeq(s, 1, Len(s)) = SubSeq(t, 1, Len(s))
  BY <1>1
<1> QED BY <1>2 DEF Stream!IsPrefix, Stream!IsStrictPrefix

SentUp == [k \in 1..cUploadNext |-> Body(k - 1)]
SentDown == [k \in 1..emitted |-> k - 1]

\* The two streams are determined by their lengths.
Streams ==
  /\ SentUp \in Seq(Bodies) /\ Len(SentUp) = cUploadNext
  /\ \A k \in 1..cUploadNext : SentUp[k] = Body(k - 1)
  /\ read \in Seq(Bodies) /\ Len(read) <= cUploadNext /\ Len(read) \in Nat
  /\ \A k \in 1..Len(read) : read[k] = Body(k - 1)
  /\ SentDown \in Seq(Nat) /\ Len(SentDown) = emitted
  /\ \A k \in 1..emitted : SentDown[k] = k - 1
  /\ cGot \in Seq(Nat) /\ Len(cGot) <= emitted /\ Len(cGot) \in Nat
  /\ \A k \in 1..Len(cGot) : cGot[k] = k - 1
  /\ cUploadNext \in Nat /\ emitted \in Nat

LEMMA StreamContent == ASSUME LinkInv PROVE Streams
<1>1. /\ cUploadNext \in 0..ClientBlocks /\ ClientBlocks \in Nat /\ cUploadNext \in Nat
      /\ uploadNext \in Nat /\ consumed \in Nat
      /\ emitted \in Nat /\ read \in Seq(Bodies) /\ cGot \in Seq(Nat)
  BY ClientBlocksAssumption, MaxSeqAssumption DEF LinkInv, LinkTypes, Inv, TypeOK
<1>2. \A k \in 1..cUploadNext : Body(k - 1) \in Bodies
  <2> SUFFICES ASSUME NEW k \in 1..cUploadNext PROVE Body(k - 1) \in Bodies
    OBVIOUS
  <2>1. k - 1 \in 0..(ClientBlocks - 1)
    BY <1>1
  <2> QED BY <2>1, BodyAssumption
<1>3. SentUp \in Seq(Bodies) /\ Len(SentUp) = cUploadNext
  BY <1>1, <1>2, SegmentIsSeq DEF SentUp
<1>4. SentDown \in Seq(Nat) /\ Len(SentDown) = emitted
  <2>1. \A k \in 1..emitted : k - 1 \in Nat
    BY <1>1
  <2> QED BY <1>1, <2>1 DEF SentDown
<1>5. /\ Len(read) = consumed /\ consumed <= uploadNext /\ uploadNext <= cUploadNext
      /\ \A k \in 1..Len(read) : read[k] = Body(k - 1)
  BY DEF LinkInv, UpInv, UploadContent, UploadCursors
<1>6. Len(cGot) <= emitted /\ \A k \in 1..Len(cGot) : cGot[k] = k - 1
  BY DEF LinkInv, DownInv, ClientBytes
<1>7. Len(read) <= cUploadNext /\ Len(read) \in Nat /\ Len(cGot) \in Nat
  BY <1>1, <1>5
<1>8. /\ \A k \in 1..cUploadNext : SentUp[k] = Body(k - 1)
      /\ \A k \in 1..emitted : SentDown[k] = k - 1
  BY DEF SentUp, SentDown
<1> QED BY <1>1, <1>3, <1>4, <1>5, <1>6, <1>7, <1>8 DEF Streams

\* A step moves one of the four ends, and only forward.
OneEndMoves ==
  \/ UNCHANGED <<cUploadNext, read, emitted, cGot>>
  \/ cUploadNext < cUploadNext' /\ UNCHANGED <<read, emitted, cGot>>
  \/ Len(read) < Len(read') /\ UNCHANGED <<cUploadNext, emitted, cGot>>
  \/ emitted < emitted' /\ UNCHANGED <<cUploadNext, read, cGot>>
  \/ Len(cGot) < Len(cGot') /\ UNCHANGED <<cUploadNext, read, emitted>>

LEMMA EndsMove == ASSUME LinkInv, [LinkNext]_lvars PROVE OneEndMoves
<1> USE DEF cvars, nvars
<1>0. /\ cUploadNext \in Nat /\ read \in Seq(Bodies) /\ emitted \in Nat /\ cGot \in Seq(Nat)
      /\ input \in Seq(Bodies) /\ wire \in [Downloads -> Seq(Entries)]
      /\ job["tls"].Left \in Nat /\ job["tls"].Size \in Nat
  BY ClientBlocksAssumption, MaxSeqAssumption DEF LinkInv, LinkTypes, Inv, TypeOK, Writers
<1>1. CASE UNCHANGED lvars
  BY <1>1 DEF lvars, vars, ovars, OneEndMoves
<1>2. ASSUME NEW s \in 0..MaxSeq, ClientUpload(s) PROVE OneEndMoves
  <2>1. cUploadNext' = cUploadNext \/ cUploadNext < cUploadNext'
    BY <1>0, <1>2 DEF ClientUpload
  <2> QED BY <1>2, <2>1 DEF ClientUpload, vars, ovars, OneEndMoves
<1>3. ASSUME NEW r, ClientReply(r) \/ LoseUpload(r) \/ LoseGet(r) PROVE OneEndMoves
  BY <1>3 DEF ClientReply, LoseUpload, LoseGet, vars, ovars, OneEndMoves
<1>4. ASSUME ClientDownload \/ LinkClose PROVE OneEndMoves
  BY <1>4 DEF ClientDownload, LinkClose, Close, vars, ovars, OneEndMoves
<1>5. ASSUME NEW r, UploadAck(r) PROVE OneEndMoves
  BY <1>5 DEF UploadAck, Ack, Close, vars, ovars, OneEndMoves
<1>6. ASSUME NEW r, UploadPut(r) PROVE OneEndMoves
  BY <1>6 DEF UploadPut, Put, Close, vars, ovars, OneEndMoves
<1>7. ASSUME NEW g, NEW d \in Downloads, DownloadAttach(d, g) PROVE OneEndMoves
  BY <1>7 DEF DownloadAttach, Attach, Close, vars, ovars, OneEndMoves
<1>8. ASSUME NEW d \in Downloads, Cut(d) \/ DownloadWrite(d) \/ DownloadWait(d) PROVE OneEndMoves
  BY <1>8 DEF Cut, NextCancel, DownloadWrite, DownloadWait, NextServe, NextWait, NextFail, EndResponse,
              vars, ovars, OneEndMoves
<1>9. ASSUME NEW d \in Downloads, ClientReceive(d) PROVE OneEndMoves
  <2> DEFINE b == Head(wire[d]).block
             f == [k \in 1..b.Size |-> b.From + k - 1]
  <2>1. wire[d] \in Seq(Entries) /\ wire[d] # <<>>
    BY <1>0, <1>9 DEF ClientReceive
  <2>2. b \in Block
    <3>1. Head(wire[d]) \in Entries
      BY <2>1
    <3> QED BY <3>1 DEF Entries
  <2>3. b.Size \in Nat /\ b.From \in Nat
    BY <2>2 DEF Block
  <2>4. cGot' = cGot \o f /\ UNCHANGED <<cUploadNext, read, emitted>>
    BY <1>9 DEF ClientReceive, vars, ovars
  <2> HIDE DEF b
  <2>5. f \in Seq(Nat) /\ Len(f) = b.Size /\ (b.Size = 0 => f = <<>>)
    BY <2>3
  <2> HIDE DEF f
  <2>6. Len(cGot \o f) = Len(cGot) + Len(f) /\ Len(cGot) \in Nat /\ cGot \o <<>> = cGot
    <3>1. cGot \in Seq(Nat) /\ f \in Seq(Nat)
      BY <1>0, <2>5
    <3> QED BY <3>1
  <2>7. CASE b.Size = 0
    BY <2>4, <2>5, <2>6, <2>7 DEF OneEndMoves
  <2>8. CASE b.Size # 0
    <3>1. Len(cGot) < Len(cGot')
      BY <2>3, <2>4, <2>5, <2>6, <2>8
    <3> QED BY <2>4, <3>1 DEF OneEndMoves
  <2> QED BY <2>7, <2>8
<1>10. ASSUME LinkRead PROVE OneEndMoves
  <2>1. UNCHANGED <<cUploadNext, emitted, cGot>>
    BY <1>10 DEF LinkRead, Read, ReadData, ReadWait, ReadFail, ovars
  <2>2. consumed' > consumed => input # <<>>
    <3>1. consumed \in Nat
      BY DEF LinkInv, Inv, TypeOK
    <3> QED BY <3>1, <1>10 DEF LinkRead, Read, ReadData, ReadWait, ReadFail, uvars
  <2>3. read' = read \/ Len(read) < Len(read')
    <3>1. CASE consumed' > consumed
      <4>1. read' = Append(read, Head(input)) /\ Head(input) \in Bodies
        BY <1>0, <1>10, <2>2, <3>1 DEF LinkRead
      <4>2. Len(read') = Len(read) + 1 /\ Len(read) \in Nat
        BY <4>1, <1>0
      <4> QED BY <4>2
    <3>2. CASE ~(consumed' > consumed)
      BY <1>10, <3>2 DEF LinkRead
    <3> QED BY <3>1, <3>2
  <2> QED BY <2>1, <2>3 DEF OneEndMoves
<1>11. ASSUME LinkWrite PROVE OneEndMoves
  BY <1>11 DEF LinkWrite, Write, ovars, OneEndMoves
<1>12. ASSUME LinkLoop PROVE OneEndMoves
  <2>1. UNCHANGED <<cUploadNext, read, cGot>>
    BY <1>12 DEF LinkLoop
  <2>2. emitted' = emitted \/ emitted' = emitted + NextSize("tls")
    BY <1>12 DEF LinkLoop, WriteLoop, WriteBlock, WriteWait, WriteFail, WriteResume, ovars
  <2>3. NextSize("tls") \in Nat
    BY <1>0 DEF NextSize
  <2>4. emitted' = emitted \/ emitted < emitted'
    BY <1>0, <2>2, <2>3
  <2> QED BY <2>1, <2>4 DEF OneEndMoves
<1> QED
  BY <1>1, <1>2, <1>3, <1>4, <1>5, <1>6, <1>7, <1>8, <1>9, <1>10, <1>11, <1>12 DEF LinkNext

LEMMA StreamStep ==
  ASSUME Streams, Streams', OneEndMoves
  PROVE  [Stream!SNext]_(Stream!svars)
<1>1. /\ SentUp \in Seq(Bodies) /\ Len(SentUp) = cUploadNext
      /\ \A k \in 1..cUploadNext : SentUp[k] = Body(k - 1)
      /\ read \in Seq(Bodies) /\ Len(read) <= cUploadNext /\ Len(read) \in Nat
      /\ \A k \in 1..Len(read) : read[k] = Body(k - 1)
      /\ SentDown \in Seq(Nat) /\ Len(SentDown) = emitted
      /\ \A k \in 1..emitted : SentDown[k] = k - 1
      /\ cGot \in Seq(Nat) /\ Len(cGot) <= emitted /\ Len(cGot) \in Nat
      /\ \A k \in 1..Len(cGot) : cGot[k] = k - 1
      /\ cUploadNext \in Nat /\ emitted \in Nat
  BY DEF Streams
<1>2. /\ SentUp' \in Seq(Bodies) /\ Len(SentUp') = cUploadNext'
      /\ \A k \in 1..cUploadNext' : SentUp'[k] = Body(k - 1)
      /\ read' \in Seq(Bodies) /\ Len(read') <= cUploadNext' /\ Len(read') \in Nat
      /\ \A k \in 1..Len(read') : read'[k] = Body(k - 1)
      /\ SentDown' \in Seq(Nat) /\ Len(SentDown') = emitted'
      /\ \A k \in 1..emitted' : SentDown'[k] = k - 1
      /\ cGot' \in Seq(Nat) /\ Len(cGot') <= emitted' /\ Len(cGot') \in Nat
      /\ \A k \in 1..Len(cGot') : cGot'[k] = k - 1
      /\ cUploadNext' \in Nat /\ emitted' \in Nat
  BY DEF Streams
<1>3. /\ cUploadNext' = cUploadNext => SentUp' = SentUp
      /\ emitted' = emitted => SentDown' = SentDown
  BY DEF SentUp, SentDown
<1>4. CASE UNCHANGED <<cUploadNext, read, emitted, cGot>>
  BY <1>3, <1>4 DEF Stream!svars, SentUp, SentDown
<1>5. CASE cUploadNext < cUploadNext' /\ UNCHANGED <<read, emitted, cGot>>
  <2>1. Len(SentUp) <= Len(SentUp') /\ Len(SentUp) # Len(SentUp')
    BY <1>1, <1>2, <1>5
  <2>2. \A i \in 1..Len(SentUp) : SentUp[i] = SentUp'[i]
    BY <1>1, <1>2, <2>1
  <2>3. Stream!IsStrictPrefix(SentUp, SentUp')
    BY <1>1, <1>2, <2>1, <2>2, Agrees
  <2>4. Stream!SendUp
    BY <1>3, <1>5, <2>3 DEF Stream!SendUp, SentUp, SentDown
  <2> QED BY <2>4 DEF Stream!SNext
<1>6. CASE Len(read) < Len(read') /\ UNCHANGED <<cUploadNext, emitted, cGot>>
  <2>1. Stream!IsStrictPrefix(read, read')
    <3>1. Len(read) <= Len(read') /\ Len(read) # Len(read')
      BY <1>1, <1>2, <1>6
    <3>2. \A i \in 1..Len(read) : read[i] = read'[i]
      BY <1>1, <1>2, <3>1
    <3> QED BY <1>1, <1>2, <3>1, <3>2, Agrees
  <2>2. Stream!IsPrefix(read', SentUp)
    <3>1. Len(read') <= Len(SentUp)
      BY <1>1, <1>2, <1>6
    <3>2. \A i \in 1..Len(read') : read'[i] = SentUp[i]
      BY <1>1, <1>2, <3>1
    <3> QED BY <1>1, <1>2, <3>1, <3>2, Agrees
  <2>3. Stream!ArriveUp
    BY <1>3, <1>6, <2>1, <2>2 DEF Stream!ArriveUp, SentUp, SentDown
  <2> QED BY <2>3 DEF Stream!SNext
<1>7. CASE emitted < emitted' /\ UNCHANGED <<cUploadNext, read, cGot>>
  <2>1. Len(SentDown) <= Len(SentDown') /\ Len(SentDown) # Len(SentDown')
    BY <1>1, <1>2, <1>7
  <2>2. \A i \in 1..Len(SentDown) : SentDown[i] = SentDown'[i]
    BY <1>1, <1>2, <2>1
  <2>3. Stream!IsStrictPrefix(SentDown, SentDown')
    BY <1>1, <1>2, <2>1, <2>2, Agrees
  <2>4. Stream!SendDown
    BY <1>3, <1>7, <2>3 DEF Stream!SendDown, SentUp, SentDown
  <2> QED BY <2>4 DEF Stream!SNext
<1>8. CASE Len(cGot) < Len(cGot') /\ UNCHANGED <<cUploadNext, read, emitted>>
  <2>1. Stream!IsStrictPrefix(cGot, cGot')
    <3>1. Len(cGot) <= Len(cGot') /\ Len(cGot) # Len(cGot')
      BY <1>1, <1>2, <1>8
    <3>2. \A i \in 1..Len(cGot) : cGot[i] = cGot'[i]
      BY <1>1, <1>2, <3>1
    <3> QED BY <1>1, <1>2, <3>1, <3>2, Agrees
  <2>2. Stream!IsPrefix(cGot', SentDown)
    <3>1. Len(cGot') <= Len(SentDown)
      BY <1>1, <1>2, <1>8
    <3>2. \A i \in 1..Len(cGot') : cGot'[i] = SentDown[i]
      BY <1>1, <1>2, <3>1
    <3> QED BY <1>1, <1>2, <3>1, <3>2, Agrees
  <2>3. Stream!ArriveDown
    BY <1>3, <1>8, <2>1, <2>2 DEF Stream!ArriveDown, SentUp, SentDown
  <2> QED BY <2>3 DEF Stream!SNext
<1> QED BY <1>4, <1>5, <1>6, <1>7, <1>8 DEF OneEndMoves

\* Uploads and downloads are two reliable streams, whatever the network
\* loses, repeats, reorders or cuts: the TLS reader gets a prefix of the
\* client's blocks and the client a prefix of the bytes TLS wrote.
THEOREM LinkIsReliable == LinkSpec => ImplementsStream
<1>1. LinkInit => Stream!SInit
  <2> SUFFICES ASSUME LinkInit PROVE Stream!SInit
    OBVIOUS
  <2>1. cUploadNext = 0 /\ emitted = 0 /\ read = <<>> /\ cGot = <<>>
    BY DEF LinkInit, Init
  <2> QED BY <2>1 DEF Stream!SInit
<1>2. LinkInv => Streams
  BY StreamContent
<1>3. LinkInv /\ [LinkNext]_lvars => OneEndMoves
  BY EndsMove
<1>4. Streams /\ Streams' /\ OneEndMoves => [Stream!SNext]_(Stream!svars)
  BY StreamStep
<1> QED BY <1>1, <1>2, <1>3, <1>4, LinkInvariance, PTL DEF LinkSpec, ImplementsStream, Stream!SSpec
=============================================================================
