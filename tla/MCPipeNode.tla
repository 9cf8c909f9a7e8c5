----------------------------- MODULE MCPipeNode -----------------------------
(* Instances of PipeNode for TLC. *)
EXTENDS PipeNode, TLC

CONSTANTS n1, n2, p1, p2, t1, t2, x1

Unlimited == [p \in Pipe |-> 0]
SizeOne   == [p \in Pipe |-> 1]

\* Two senders, two pipes of one node, p2 is served first.
HighSecond   == [p \in Pipe |-> IF p = p2 THEN -10 ELSE 0]
OneNodeOpens == {<<p1, n1>>, <<p2, n1>>}
CrossRoute   == {<<t1, p1>>, <<t2, p1>>, <<t2, p2>>}

\* One sender to a pipe that holds two milliseconds.
OneToOne == {<<t1, p1>>}
OneOpens == {<<p1, n1>>}
TwoTicks == [p \in Pipe |-> 2]

\* A sender to n1, whose handler sends to n2.
Chain      == {<<t1, p1>>, <<n1, p2>>}
EachOpens  == {<<p1, n1>>, <<p2, n2>>}
SamePrio   == [p \in Pipe |-> 0]
=============================================================================
