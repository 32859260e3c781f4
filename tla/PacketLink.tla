----------------------------- MODULE PacketLink -----------------------------
(***************************************************************************)
(* packet.Conn behind the upload and download handlers of packet.go, used  *)
(* by a client over a network that loses, repeats and reorders requests    *)
(* and cuts responses.                                                     *)
(*                                                                         *)
(* The client is the native NaiveFox client, which is not in this          *)
(* repository; it is modelled from docs/HTTPS.md "Delivery contract" and   *)
(* from the client in packet_test.go: at most UploadSlots uploads without  *)
(* an acknowledgement, each retried with the same bytes until a reply      *)
(* names it; one download at a time, each with a new generation and the    *)
(* cursor of the first block it lacks.                                     *)
(***************************************************************************)
EXTENDS PacketConn

CONSTANTS
  ClientBlocks,  \* upload blocks the client has to send
  MaxUploads,    \* bound: upload requests in the network at once
  MaxGets        \* bound: download requests in the network at once

ASSUME ClientBlocksAssumption == ClientBlocks \in 0..MaxSeq
ASSUME MaxNetworkAssumption == MaxUploads \in Nat \ {0} /\ MaxGets \in Nat

VARIABLES
  cUploadNext,   \* first block the client has not sent yet
  cAcked,        \* contiguous prefix acknowledged by replies
  cReceipted,    \* blocks some reply named as stored
  cGeneration,   \* generation of the client's latest download request
  cCursor,       \* first download block the client lacks
  cGot,          \* history: the bytes the client received, by name
  read,          \* history: the blocks the TLS reader finished
  uploads,       \* upload requests in the network: [sequence, cursor]
  handling,      \* upload handlers past Ack, before Put
  replies,       \* upload replies sent: [next, sequence]
  gets,          \* download requests in the network: [generation, cursor]
  wire           \* download -> blocks written to the response, not yet read

cvars == <<cUploadNext, cAcked, cReceipted, cGeneration, cCursor, cGot>>
nvars == <<uploads, handling, replies, gets, wire>>
lvars == <<vars, cvars, nvars, read>>

Body(s) == [size |-> 1 + (s % MaxBlock), tag |-> s]

ASSUME BodyAssumption == \A s \in 0..(ClientBlocks - 1) : Body(s) \in Bodies

LinkInit ==
  /\ Init
  /\ cUploadNext = 0 /\ cAcked = 0 /\ cReceipted = {} /\ cGeneration = 0
  /\ cCursor = 0 /\ cGot = <<>> /\ read = <<>>
  /\ uploads = {} /\ handling = {} /\ replies = {} /\ gets = {}
  /\ wire = [d \in Downloads |-> <<>>]

-----------------------------------------------------------------------------
(* Client. *)

\* A new block if the window has a slot, or a retry of one no reply named.
ClientUpload(s) ==
  /\ s \in cAcked..cUploadNext /\ s \notin cReceipted
  /\ s < ClientBlocks /\ s < cAcked + UploadSlots
  /\ Cardinality(uploads \cup handling) < MaxUploads
  /\ uploads' = uploads \cup {[sequence |-> s, cursor |-> cCursor]}
  /\ cUploadNext' = IF s = cUploadNext THEN s + 1 ELSE cUploadNext
  /\ UNCHANGED <<vars, cAcked, cReceipted, cGeneration, cCursor, cGot,
                 handling, replies, gets, wire, read>>

\* A reply may arrive late, repeatedly or never; what it says stays true.
ClientReply(r) ==
  /\ r.next > cAcked \/ r.sequence \notin cReceipted
  /\ cAcked' = IF r.next > cAcked THEN r.next ELSE cAcked
  /\ cReceipted' = cReceipted \cup {r.sequence}
  /\ UNCHANGED <<vars, cUploadNext, cGeneration, cCursor, cGot, nvars, read>>

\* Abandon the current response and ask again with the next generation.
ClientDownload ==
  /\ cGeneration + 1 \in Generations
  /\ Cardinality(gets) < MaxGets
  /\ cGeneration' = cGeneration + 1
  /\ gets' = gets \cup {[generation |-> cGeneration + 1, cursor |-> cCursor]}
  /\ UNCHANGED <<vars, cUploadNext, cAcked, cReceipted, cCursor, cGot,
                 uploads, handling, replies, wire, read>>

\* Read the next block of the current response.
ClientReceive(d) ==
  /\ wire[d] # <<>> /\ Head(wire[d]).generation = cGeneration
  /\ Head(wire[d]).block.Sequence = cCursor
  /\ cCursor' = cCursor + 1
  /\ LET b == Head(wire[d]).block IN
     cGot' = cGot \o [k \in 1..b.Size |-> b.From + k - 1]
  /\ wire' = [wire EXCEPT ![d] = Tail(@)]
  /\ UNCHANGED <<vars, cUploadNext, cAcked, cReceipted, cGeneration,
                 uploads, handling, replies, gets, read>>

-----------------------------------------------------------------------------
(* Network. A request stays where it is when it is delivered, so it may be
   delivered again, in any order. *)

LoseUpload(r) == /\ uploads' = uploads \ {r}
                 /\ UNCHANGED <<vars, cvars, handling, replies, gets, wire, read>>
LoseGet(g) == /\ gets' = gets \ {g}
              /\ UNCHANGED <<vars, cvars, uploads, handling, replies, wire, read>>

\* The connection of a response breaks: what it carried is gone and the
\* handler's write fails or its context is cancelled.
Cut(d) == /\ wire[d] # <<>> \/ response[d].live
          /\ wire' = [wire EXCEPT ![d] = <<>>]
          /\ IF response[d].live THEN NextCancel(d) ELSE UNCHANGED vars
          /\ UNCHANGED <<cvars, uploads, handling, replies, gets, read>>

-----------------------------------------------------------------------------
(* The handlers of packet.go. *)

\* uploadPacket, first part: the cursor acknowledges the download. A cursor
\* below the floor is ignored, any other refusal closes the session.
UploadAck(r) ==
  /\ r \in uploads /\ r \notin handling
  /\ handling' = handling \cup {r}
  /\ Free
  /\ IF r.cursor < outputFloor THEN UNCHANGED vars
     ELSE IF r.cursor <= outputNext THEN Ack(r.cursor) ELSE Close
  /\ UNCHANGED <<cvars, uploads, replies, gets, wire, read>>

\* Defective variant: the reply acknowledges up to the block just stored.
UploadPutOwn(r) ==
  /\ Free
  /\ r \in handling
  /\ handling' = handling \ {r}
  /\ LET result == PutResult(r.sequence, Body(r.sequence)) IN
     /\ IF result = "new" THEN Put(r.sequence, Body(r.sequence))
        ELSE IF result \in {"conflict", "sequence"} THEN Close ELSE UNCHANGED vars
     /\ replies' = IF result \in {"new", "duplicate"}
                    THEN replies \cup {[next |-> r.sequence + 1, sequence |-> r.sequence]}
                    ELSE replies
  /\ UNCHANGED <<cvars, uploads, gets, wire, read>>

\* uploadPacket, second part: Put and the reply.
UploadPut(r) ==
  /\ Free
  /\ r \in handling
  /\ handling' = handling \ {r}
  /\ LET result == PutResult(r.sequence, Body(r.sequence)) IN
     /\ IF result = "new" THEN Put(r.sequence, Body(r.sequence))
        ELSE IF result \in {"conflict", "sequence"} THEN Close ELSE UNCHANGED vars
     /\ replies' = IF result \in {"new", "duplicate"}
                    THEN replies \cup {[next |-> uploadNext', sequence |-> r.sequence]}
                    ELSE replies
  /\ UNCHANGED <<cvars, uploads, gets, wire, read>>

\* downloadPacket: a replay below the floor ends the session, any other
\* refusal only the request.
DownloadAttach(d, g) ==
  /\ g \in gets /\ ~response[d].live /\ wire[d] = <<>>
  /\ IF ~Stale(g.generation) /\ AckResult(g.cursor) = "gone" THEN Free /\ Close
     ELSE Attach(d, g.generation, g.cursor)
  /\ UNCHANGED <<cvars, nvars, read>>

DownloadWrite(d) ==
  /\ NextServe(d)
  /\ wire' = [wire EXCEPT ![d] = Append(@, [generation |-> response[d].generation,
                                             block |-> NextBlock(d)])]
  /\ UNCHANGED <<cvars, uploads, handling, replies, gets, read>>

DownloadWait(d) == (NextWait(d) \/ NextFail(d)) /\ UNCHANGED <<cvars, nvars, read>>

LinkRead ==
  /\ Read
  /\ read' = IF consumed' > consumed THEN Append(read, Head(input)) ELSE read
  /\ UNCHANGED <<cvars, nvars>>
LinkWrite == (\E n \in WriteSizes : Write(n)) /\ UNCHANGED <<cvars, nvars, read>>
LinkLoop == (WriteLoop("tls") \/ WriteResume("tls")) /\ UNCHANGED <<cvars, nvars, read>>

\* The session ends: expiry, eviction or the end of runPacket.
LinkClose == Close /\ UNCHANGED <<cvars, nvars, read>>

LinkNext ==
  \/ \E s \in 0..MaxSeq : ClientUpload(s)
  \/ \E r \in replies : ClientReply(r)
  \/ ClientDownload
  \/ \E r \in uploads : UploadAck(r) \/ LoseUpload(r)
  \/ \E r \in handling : UploadPut(r)
  \/ \E g \in gets : LoseGet(g) \/ \E d \in Downloads : DownloadAttach(d, g)
  \/ \E d \in Downloads : ClientReceive(d) \/ Cut(d) \/ DownloadWrite(d) \/ DownloadWait(d)
  \/ LinkRead \/ LinkWrite \/ LinkLoop \/ LinkClose

LinkSpec == LinkInit /\ [][LinkNext]_lvars

UploadAckOf(s) == \E r \in uploads : r.sequence = s /\ UploadAck(r)
UploadPutOf(s) == \E r \in handling : r.sequence = s /\ UploadPut(r)
ReplyTo(s) == \E r \in replies : r.sequence = s /\ ClientReply(r)

(* The client goes on retrying; a block that is sent again and again is
   delivered, and so is its reply; the handler that took it runs to its end;
   runPacket's loop goes on reading. *)
LinkFairness ==
  /\ \A s \in 0..(ClientBlocks - 1) :
       /\ WF_lvars(ClientUpload(s)) /\ SF_lvars(UploadAckOf(s))
       /\ WF_lvars(UploadPutOf(s)) /\ SF_lvars(ReplyTo(s))
  /\ WF_lvars(LinkRead)

FairLinkSpec == LinkSpec /\ LinkFairness

-----------------------------------------------------------------------------
(* Properties. *)

\* A reply that names a block means that the block is stored, even when it
\* arrived out of order: the client stops retransmitting it and no close but
\* the session's loses it.
ReceiptMeansStored ==
  ~closed =>
    /\ cAcked <= uploadNext
    /\ \A s \in cReceipted \cup {r.sequence : r \in replies} :
         s < uploadNext \/ s \in DOMAIN pending

\* No request of a client that follows the rules can end the session or lose
\* its block for good, however late, repeated or overtaken it arrives: a
\* block still unacknowledged is never "gone" or out of the window, a cursor
\* is never beyond the output, and a download that is not stale never asks
\* below the floor.
LateRequestsHarmless ==
  ~closed =>
    /\ \A s \in cAcked..(cUploadNext - 1) :
         PutResult(s, Body(s)) \in {"new", "duplicate", "full"}
    /\ \A r \in uploads \cup handling :
         /\ r.cursor <= outputNext
         /\ PutResult(r.sequence, Body(r.sequence)) \notin {"conflict", "sequence"}
    /\ \A g \in gets : ~Stale(g.generation) => AckResult(g.cursor) = "ok"

\* Every block the client has to send reaches the reader, unless the
\* connection is closed.
UploadsArrive == <>(closed \/ consumed = ClientBlocks)

Stream == INSTANCE ReliableStream WITH
  sentUp <- [k \in 1..cUploadNext |-> Body(k - 1)], gotUp <- read,
  sentDown <- [k \in 1..emitted |-> k - 1], gotDown <- cGot

\* The connection, its handlers and the client together are two reliable
\* streams: what the TLS reader has read is a prefix of the client's blocks,
\* and the bytes the client has are a prefix of those TLS wrote.
ImplementsStream == Stream!SSpec
=============================================================================
