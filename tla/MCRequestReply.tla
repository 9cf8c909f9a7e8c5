--------------------------- MODULE MCRequestReply ---------------------------
(* Instances of RequestReply for TLC. *)
EXTENDS RequestReply, TLC

CONSTANTS c1, c2, t1, t2

\* A client that blocks and the AsyncClient of a module that does not.
EachItsOwn == t1 :> c1 @@ t2 :> c2

\* Two threads that use one client.
OneForBoth == t1 :> c1 @@ t2 :> c1

\* Calls of each thread.
TwoAndOne == t1 :> 2 @@ t2 :> 1
OneEach   == t1 :> 1 @@ t2 :> 1
=============================================================================
