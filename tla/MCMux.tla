------------------------------- MODULE MCMux -------------------------------
(***************************************************************************)
(* Scenes of Mux.                                                          *)
(***************************************************************************)
EXTENDS Mux

None == [p \in Ends |-> {}]
Both == [p \in Ends |-> {1}]

\* One direction, more bytes than the window and the floor hold, and the last
\* at an offset that has wrapped.
Flow == [ids |-> 1, dials |-> Ids, bytes |-> [p \in Ends |-> IF p = "client" THEN 4 ELSE 0],
         finishing |-> None, failing |-> None, closing |-> {}]
\* The same with a smaller range of offsets.
Stream == [Flow EXCEPT !.bytes["client"] = 3]
\* Both halves of a stream end.
Finish == [Flow EXCEPT !.bytes["client"] = 1, !.finishing = Both]
\* A dial fails, or the session ends with one chunk in hand and another in the
\* queue.
Break == [Flow EXCEPT !.bytes = [p \in Ends |-> IF p = "server" THEN 2 ELSE 0],
                      !.failing["server"] = {1}, !.closing = {"server"}]
\* All of it at once, and the target fails.
Abort == [Finish EXCEPT !.failing["server"] = {1}, !.closing = {"server"}]
\* Two streams share the carrier; their targets fail.
Pair == [Flow EXCEPT !.ids = 2, !.bytes["client"] = 0, !.failing["server"] = {1, 2}]
\* More streams than the table holds; the first one finishes.
Crowd == [Flow EXCEPT !.ids = 3, !.dials = {1}, !.bytes["client"] = 0, !.finishing = Both]
\* A target and a local connection fail, the latter also before its OPEN has
\* left; the OPEN that shares a cell with its RESET is passed over.
Rush == [Crowd EXCEPT !.ids = 4, !.dials = {}, !.finishing = None,
                      !.failing["server"] = {1}, !.failing["client"] = {2}]

FairScenes == {Stream, Finish, Break}
SafeScenes == {Flow, Abort, Pair, Crowd, Rush}

\* The third OPEN fills a cell.
Authorities == <<1, 1, 3, 1>>
Authority == <<1>>
=============================================================================
