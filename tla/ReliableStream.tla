--------------------------- MODULE ReliableStream ---------------------------
(***************************************************************************)
(* What packet.Conn promises its users while it is open ("Conn is a        *)
(* bounded reliable byte stream below TLS; HTTP request lifetimes do not   *)
(* own it"): two independent FIFO streams.  A stream is what was sent and  *)
(* what arrived; both only grow, and what arrived is always a prefix of    *)
(* what was sent.                                                          *)
(***************************************************************************)
EXTENDS Sequences, SequencesExt

VARIABLES sentUp, gotUp, sentDown, gotDown

svars == <<sentUp, gotUp, sentDown, gotDown>>

SInit == sentUp = <<>> /\ gotUp = <<>> /\ sentDown = <<>> /\ gotDown = <<>>

SendUp == IsStrictPrefix(sentUp, sentUp') /\ UNCHANGED <<gotUp, sentDown, gotDown>>
SendDown == IsStrictPrefix(sentDown, sentDown') /\ UNCHANGED <<sentUp, gotUp, gotDown>>

ArriveUp ==
  /\ IsStrictPrefix(gotUp, gotUp') /\ IsPrefix(gotUp', sentUp)
  /\ UNCHANGED <<sentUp, sentDown, gotDown>>
ArriveDown ==
  /\ IsStrictPrefix(gotDown, gotDown') /\ IsPrefix(gotDown', sentDown)
  /\ UNCHANGED <<sentUp, gotUp, sentDown>>

SNext == SendUp \/ SendDown \/ ArriveUp \/ ArriveDown

SSpec == SInit /\ [][SNext]_svars
=============================================================================
