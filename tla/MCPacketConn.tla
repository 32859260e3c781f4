---------------------------- MODULE MCPacketConn ----------------------------
(***************************************************************************)
(* Small instances of PacketConn.  MaxSeq is the code's own last sequence  *)
(* number, shrunk: it bounds every counter the way math.MaxUint64 does.    *)
(***************************************************************************)
EXTENDS PacketConn

\* Bodies around the block limit: empty, short, full and too long; two
\* different bodies of the same length for conflicting retries.
MCBodies == {[size |-> 1, tag |-> 1], [size |-> 2, tag |-> 1], [size |-> 2, tag |-> 2],
             [size |-> 0, tag |-> 1], [size |-> 3, tag |-> 1]}
MCGenerations == 0..2

(***************************************************************************)
(* The two directions share nothing but the mutex, the deadline and Close: *)
(* a behaviour here uploads or downloads (PacketLink has both at once).    *)
(***************************************************************************)
VARIABLE side

mcvars == <<vars, side>>

MCInit == Init /\ side \in {"up", "down"}
MCNext ==
  /\ \/ side = "up" /\ Upload
     \/ side = "down" /\ (Writing \/ Download \/ Flight)
     \/ Read \/ Lifetime
  /\ UNCHANGED side

MCSpec == MCInit /\ [][MCNext]_mcvars
FairMCSpec == MCSpec /\ Fairness
=============================================================================
