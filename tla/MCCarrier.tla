----------------------------- MODULE MCCarrier -----------------------------
(***************************************************************************)
(* Scenes of Carrier.                                                      *)
(***************************************************************************)
EXTENDS Carrier

\* Three POSTs compete for two slots; the first downlink cell is one too many.
Pipeline == [mode |-> "h3", up |-> 0, down |-> Limit, posts |-> Requests, around |-> {}]
\* Two POSTs while the stream is left or the session expires.
Ending == [Pipeline EXCEPT !.posts = {1, 2}, !.around = {"ends"}]
\* One POST while the mux streams send.
Duplex == [Pipeline EXCEPT !.down = 0, !.posts = {1}, !.around = {"streams", "ends"}]
\* A WebSocket and a packet session, whose cells come from one reader.
Socket == [Duplex EXCEPT !.mode = "ws", !.posts = {}]
Tunnel == [Socket EXCEPT !.mode = "packet"]

MCScenes == {Pipeline, Ending, Duplex, Socket, Tunnel}
=============================================================================
