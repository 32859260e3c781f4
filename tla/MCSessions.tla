----------------------------- MODULE MCSessions -----------------------------
(***************************************************************************)
(* Scenes of Sessions: which requests meet, at which max_sessions.         *)
(***************************************************************************)
EXTENDS Sessions, TLC

\* Page visits, AUTH and packet setup compete for one slot.
OneSlot == [max |-> 1, visitors |-> {1, 2}, packets |-> {1}, ask |-> {"visit", "startup", "begin", "cleanup"}]
\* The same with two slots: a visitor stays beside the packet session, and
\* the oldest of two is evicted.
TwoSlots == [OneSlot EXCEPT !.max = 2, !.visitors = {1, 2, 3}]
\* Both setup POSTs of a session, retried and in conflict, up to Cleanup.
Setup == [max |-> 1, visitors |-> {}, packets |-> {1}, ask |-> {"begin", "auth", "cleanup"}]
\* A nonce is used again once its first session was dropped.
Again == [max |-> 2, visitors |-> {}, packets |-> {1, 2}, ask |-> {"begin"}]
\* Visits and setup while the module is shut down.
Closing == [max |-> 1, visitors |-> {1}, packets |-> {1}, ask |-> {"visit", "begin", "cleanup"}]

MCScenes == {OneSlot, TwoSlots, Setup, Again, Closing}
EvictionScenes == {OneSlot}

\* Handlers are interchangeable.
Symmetry == Permutations(Requests)
=============================================================================
