------------------------------ MODULE MCPubSub ------------------------------
(* Instances of PubSub for TLC. *)
EXTENDS PubSub, TLC

CONSTANTS d, x, p1, t1, t2

\* Topic d.x in domain d.
OneDomain == x :> d @@ d :> None
SamePriority == x :> 0 @@ d :> 0

\* The publisher of the thread.
OnlyOne == t1 :> p1

\* Two threads that share it.
BothSame == t1 :> p1 @@ t2 :> p1

TwoFlags == { {}, {"BLOCKING", "RESEND"} }
=============================================================================
