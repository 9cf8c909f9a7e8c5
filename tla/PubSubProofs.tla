---------------------------- MODULE PubSubProofs ----------------------------
(***************************************************************************)
(* Proofs about PubSub.                                                    *)
(*                                                                         *)
(* That pipes are connected as subscribe() and unsubscribe() are counted   *)
(* holds for all values of the constants. That a module handles a sample   *)
(* at most once, and that none is overtaken, is proved for publishers that *)
(* are used by one thread each, and when a topic and its domain are        *)
(* subscribed to with the same priority.                                   *)
(***************************************************************************)
EXTENDS PubSub, SequenceTheorems, FiniteSetTheorems, TLAPS

\* No two threads use the same publisher.
OneThreadEach == \A t, u \in Thread : PublisherOf[t] = PublisherOf[u] => t = u

\* A topic has the priority of its domain.
DomainPriority == \A x \in Topic : Parent[x] # None => Priority[Parent[x]] = Priority[x]

\* The kinds of messages: samples, and among those without a number the end of a channel.
IsSample(m) == "seq_num" \in DOMAIN m
IsClose(m)  == ~ IsSample(m) /\ m.flow_code = "close"

\* What thread t has still to broadcast: it is at a topic or has pipes to send to,
\* unless it is idle.
Casting(t) ==
    /\ todo[t] = <<>> => output_[t] = <<>>
    /\ todo[t] # <<>> => output_[t] # <<>> \/ next[t] # None

\* The pipes of module s and topic x: one when it is subscribed.
Subscribed(s, x) ==
    /\ count[s][x] = subscribes[s][x][1] - subscribes[s][x][2]
    /\ opened[s][x] <= subscribes[s][x][1]
    /\ \A p \in node : p.node = s /\ p.topic = x => count[s][x] > 0 /\ p = Current(s, x)
    /\ count[s][x] > 0 => Current(s, x) \in node
    /\ count[s][x] > 0 => \E i \in DOMAIN output[x] : output[x][i] = Current(s, x)

\* The list of topic x: pipes that are connected, each of them once.
Listed(x) ==
    /\ \A i \in DOMAIN output[x] : output[x][i].topic = x /\ output[x][i] \in node
    /\ \A i, j \in DOMAIN output[x] : output[x][i] = output[x][j] => i = j

\* The invariant of connections.
ConnectInv ==
    /\ TypeOK
    /\ \A t \in Thread : Casting(t)
    /\ \A s \in Subscriber, x \in Topic : Subscribed(s, x)
    /\ \A x \in Topic : Listed(x)

\* Nothing more is published by p.
Ended(p) == ~ is_open[p] \/ closing[p] # None

\* The messages of thread t are those of its publisher: the last sample of a topic,
\* or the end of the channel.
Cast(t) ==
    \A i \in DOMAIN todo[t] :
        LET m == todo[t][i] IN
        /\ m.src = PublisherOf[t] /\ is_open[m.src]
        /\ IsSample(m) => ~ Ended(m.src) /\ m.seq_num = topic_map[m.src][m.topic]
        /\ IsClose(m) => Ended(m.src)

\* The pipes it sends to have the priority of the topic of the message.
Level(t) ==
    /\ todo[t] # <<>> /\ next[t] # None => Priority[next[t]] = Priority[Head(todo[t]).topic]
    /\ \A i \in DOMAIN output_[t] : Priority[output_[t][i].topic] = Priority[Head(todo[t]).topic]

\* One message to module s.
Sent(s, e) ==
    /\ Priority[e.pipe.topic] = Priority[e.msg.topic]
    /\ IsSample(e.msg) /\ is_open[e.msg.src] => e.msg.seq_num <= topic_map[e.msg.src][e.msg.topic]
    /\ IsClose(e.msg) => Ended(e.msg.src)

\* Message m before message n: the numbers of a channel do not fall, and nothing
\* follows its end.
Ordered(m, n) ==
    m.src = n.src /\ m.topic = n.topic /\ IsSample(n) =>
        /\ ~ IsClose(m)
        /\ IsSample(m) => m.seq_num <= n.seq_num

\* The messages of q are in order.
InOrder(q) == \A i, j \in DOMAIN q : i < j => Ordered(q[i].msg, q[j].msg)

\* No sample of the channel is in the pipes of module s.
NoneLeft(s, p, x) ==
    \A i \in DOMAIN inbox[s] :
        LET m == inbox[s][i].msg IN ~ (IsSample(m) /\ m.src = p /\ m.topic = x)

\* Module s handled sample n of topic x from p.
WasHandled(s, p, x, n) == \E i \in DOMAIN handled[s][p][x] : handled[s][p][x][i] = n

\* What module s handled of a channel, and the number it keeps of it.
Numbered(s, p, x) ==
    /\ seq_map[s][p][x] # 0 => WasHandled(s, p, x, seq_map[s][p][x])
    /\ is_open[p] => seq_map[s][p][x] <= topic_map[p][x]
    /\ \/ Ended(p) /\ NoneLeft(s, p, x)
       \/ \A i \in DOMAIN handled[s][p][x] : handled[s][p][x][i] <= seq_map[s][p][x]
    /\ \A i, j \in DOMAIN handled[s][p][x] :
         i < j => handled[s][p][x][i] < handled[s][p][x][j]

\* A message to module s is no duplicate, or was handled.
NotLate(s, m) ==
    IsSample(m) /\ ~ IsNew(s, m) => WasHandled(s, m.src, m.topic, m.seq_num)

\* The invariant of the order of samples.
OrderInv ==
    /\ \A t \in Thread : Cast(t) /\ Level(t)
    /\ \A s \in Subscriber : InOrder(inbox[s])
    /\ \A s \in Subscriber : \A i \in DOMAIN inbox[s] :
         Sent(s, inbox[s][i]) /\ NotLate(s, inbox[s][i].msg)
    /\ \A s \in Subscriber, p \in Publisher, x \in Topic : Numbered(s, p, x)

-----------------------------------------------------------------------------
(* Messages and lists of them. *)

\* What is in a sequence after Append.
LEMMA Appended ==
  ASSUME NEW S, NEW q \in Seq(S), NEW e \in S
  PROVE  /\ Append(q, e) \in Seq(S)
         /\ DOMAIN Append(q, e) = 1..(Len(q) + 1) /\ DOMAIN q = 1..Len(q) /\ Len(q) \in Nat
         /\ \A i \in DOMAIN q : i \in DOMAIN Append(q, e) /\ Append(q, e)[i] = q[i]
         /\ Append(q, e)[Len(q) + 1] = e
OBVIOUS

\* What is left of a sequence by Tail.
LEMMA Left ==
  ASSUME NEW S, NEW q \in Seq(S), q # <<>>
  PROVE  /\ Tail(q) \in Seq(S) /\ Head(q) \in S /\ Head(q) = q[1]
         /\ \A i \in DOMAIN q : i = 1 \/ (i - 1 \in DOMAIN Tail(q) /\ Tail(q)[i - 1] = q[i])
         /\ \A i \in DOMAIN Tail(q) : i + 1 \in DOMAIN q /\ Tail(q)[i] = q[i + 1]
         /\ 1 \in DOMAIN q /\ DOMAIN q \subseteq Nat /\ DOMAIN Tail(q) \subseteq Nat
<1>1. Tail(q) \in Seq(S) /\ Len(Tail(q)) = Len(q) - 1 /\ Len(q) \in Nat \ {0}
  OBVIOUS
<1>2. DOMAIN q = 1..Len(q) /\ DOMAIN Tail(q) = 1..(Len(q) - 1)
  BY <1>1
<1>3. \A i \in 1..(Len(q) - 1) : Tail(q)[i] = q[i + 1]
  OBVIOUS
<1>4. Head(q) = q[1] /\ q[1] \in S
  OBVIOUS
<1> QED BY <1>1, <1>2, <1>3, <1>4

\* What is known of a message.
LEMMA MessageType ==
  ASSUME NEW m \in Message
  PROVE  /\ m.src \in Publisher /\ m.topic \in Topic
         /\ IsSample(m) => m.seq_num \in Nat \ {0}
BY DEF Message, IsSample

\* The messages that publish() and close() make.
LEMMA NewMessage ==
  ASSUME NEW p \in Publisher, NEW x \in Topic
  PROVE  /\ \A c \in FlowCode :
              LET m == [src |-> p, topic |-> x, flow_code |-> c] IN
              m \in Message /\ ~ IsSample(m) /\ m.src = p /\ m.topic = x /\ m.flow_code = c
         /\ \A n \in Nat \ {0}, f \in Flags :
              LET m == [src |-> p, topic |-> x, seq_num |-> n, flags |-> f] IN
              m \in Message /\ IsSample(m) /\ m.src = p /\ m.topic = x /\ m.seq_num = n
BY DEF Message, IsSample, FlowCode

\* An element of a sequence.
LEMMA Element ==
  ASSUME NEW S, NEW q \in Seq(S), NEW i \in DOMAIN q
  PROVE  q[i] \in S
OBVIOUS

\* Sequence r is what f picks from q, in the order of q.
Picks(r, q, f) ==
    /\ f \in [DOMAIN r -> DOMAIN q]
    /\ \A i, j \in DOMAIN r : i < j => f[i] < f[j]
    /\ \A i \in DOMAIN r : r[i] = q[f[i]]

\* It is all but element n.
PicksAllBut(r, q, n, f) ==
    /\ Picks(r, q, f)
    /\ \A i \in DOMAIN r : f[i] # n
    /\ \A k \in DOMAIN q : k = n \/ \E i \in DOMAIN r : f[i] = k

\* A sequence without one of its elements: what comes before it stays where it is.
LEMMA Removed ==
  ASSUME NEW S, NEW q \in Seq(S), NEW i \in DOMAIN q
  PROVE  /\ Seqs!RemoveAt(q, i) \in Seq(S)
         /\ \E f : PicksAllBut(Seqs!RemoveAt(q, i), q, i, f)
<1> DEFINE a == SubSeq(q, 1, i - 1)
           b == SubSeq(q, i + 1, Len(q))
           r == a \o b
<1>1. Len(q) \in Nat /\ i \in 1..Len(q) /\ DOMAIN q = 1..Len(q)
  OBVIOUS
<1>2. a \in Seq(S) /\ Len(a) = i - 1 /\ \A k \in 1..(i - 1) : a[k] = q[k]
  BY <1>1
<1>3. b \in Seq(S) /\ Len(b) = Len(q) - i /\ \A k \in 1..(Len(q) - i) : b[k] = q[k + i]
  BY <1>1, SMTT(60)
<1>4. Seqs!RemoveAt(q, i) = r
  BY DEF Seqs!RemoveAt
<1> HIDE DEF a, b
<1>5. /\ r \in Seq(S) /\ Len(r) = Len(a) + Len(b)
      /\ \A k \in 1..(Len(a) + Len(b)) : r[k] = IF k <= Len(a) THEN a[k] ELSE b[k - Len(a)]
  BY <1>2, <1>3, ConcatProperties
<1> HIDE DEF r
<1>6. DOMAIN r = 1..(Len(q) - 1)
  BY <1>1, <1>2, <1>3, <1>5, SMTT(60)
<1>7. ASSUME NEW k \in 1..(Len(q) - 1)
      PROVE  r[k] = IF k < i THEN q[k] ELSE q[k + 1]
  <2>1. r[k] = IF k <= Len(a) THEN a[k] ELSE b[k - Len(a)]
    BY <1>1, <1>2, <1>3, <1>5, SMTT(60)
  <2>2. CASE k < i
    BY <2>1, <2>2, <1>1, <1>2
  <2>3. CASE ~ (k < i)
    <3>1. k - Len(a) \in 1..(Len(q) - i) /\ (k - Len(a)) + i = k + 1
      BY <2>3, <1>1, <1>2
    <3>2. b[k - Len(a)] = q[k + 1]
      BY <3>1, <1>3
    <3> QED BY <2>1, <2>3, <3>2, <1>1, <1>2
  <2> QED BY <2>2, <2>3
<1> DEFINE f == [k \in DOMAIN r |-> IF k < i THEN k ELSE k + 1]
<1>8. f \in [DOMAIN r -> DOMAIN q] /\ \A k \in DOMAIN r : r[k] = q[f[k]] /\ f[k] # i
  BY <1>1, <1>6, <1>7
<1>9. \A k, n \in DOMAIN r : k < n => f[k] < f[n]
  BY <1>1, <1>6
<1>10. \A n \in DOMAIN q : n = i \/ \E k \in DOMAIN r : f[k] = n
  <2> SUFFICES ASSUME NEW n \in DOMAIN q, n # i PROVE \E k \in DOMAIN r : f[k] = n
    OBVIOUS
  <2> DEFINE k == IF n < i THEN n ELSE n - 1
  <2>1. k \in DOMAIN r /\ (IF k < i THEN k ELSE k + 1) = n
    BY <1>1, <1>6
  <2> QED BY <2>1
<1>11. Picks(r, q, f)
  BY <1>8, <1>9 DEF Picks
<1>12. \E h : PicksAllBut(r, q, i, h)
  <2> HIDE DEF f
  <2> QED BY <1>8, <1>10, <1>11 DEF PicksAllBut
<1> QED BY <1>4, <1>5, <1>12

\* What is removed is the element there is but once.
LEMMA RemovedFirst ==
  ASSUME NEW S, NEW q \in Seq(S), NEW i \in DOMAIN q,
         \A j \in DOMAIN q : q[j] = q[i] => j = i
  PROVE  Seqs!RemoveFirst(q, q[i]) = Seqs!RemoveAt(q, i)
<1>1. Len(q) \in Nat /\ i \in 1..Len(q) /\ DOMAIN q = 1..Len(q)
  OBVIOUS
<1>2. {j \in 1..Len(q) : q[j] = q[i]} = {i}
  BY <1>1
<1>3. Seqs!SelectInSeq(q, LAMBDA v : v = q[i]) = i
  <2>1. Seqs!Min({i}) = i
    BY <1>1 DEF Seqs!Min
  <2> QED BY <2>1, <1>2 DEF Seqs!SelectInSeq
<1> QED BY <1>1, <1>3 DEF Seqs!RemoveFirst

-----------------------------------------------------------------------------
(* Pipes are connected as it is counted. *)

\* The part of TypeOK about broadcasts.
CastType ==
    /\ todo \in [Thread -> Seq(Message)]
    /\ next \in [Thread -> Topic \cup {None}]
    /\ output_ \in [Thread -> Seq(Pipe)]

\* A broadcast that goes on with pipes of a topic, and at its parent.
LEMMA ContinueCast ==
  ASSUME CastType, \A u \in Thread : Casting(u), NEW t \in Thread, todo[t] # <<>>,
         NEW at \in Topic \cup {None}, NEW pipes \in Seq(Pipe),
         Continue(t, todo[t], at, pipes)
  PROVE  CastType' /\ \A u \in Thread : Casting(u)'
<1> DEFINE rest == IF pipes = <<>> /\ at = None THEN Tail(todo[t]) ELSE todo[t]
<1>1. todo[t] \in Seq(Message) /\ Tail(todo[t]) \in Seq(Message)
  BY DEF CastType
<1>2. rest \in Seq(Message)
  BY <1>1
<1>3. rest # <<>> => Head(rest) \in Message
  BY <1>2
<1>4. rest # <<>> => Head(rest).topic \in Topic
  BY <1>3, MessageType
<1>5. /\ todo' = [todo EXCEPT ![t] = rest]
      /\ next' = [next EXCEPT ![t] = IF rest # todo[t] /\ rest # <<>> THEN Head(rest).topic ELSE at]
      /\ output_' = [output_ EXCEPT ![t] = pipes]
  BY DEF Continue
<1>6. rest = todo[t] \/ (pipes = <<>> /\ at = None)
  OBVIOUS
<1>7. rest = todo[t] /\ rest # <<>> => pipes # <<>> \/ at # None
  <2>1. todo[t] \in Seq(Message) /\ Len(todo[t]) \in Nat /\ Len(Tail(todo[t])) = Len(todo[t]) - 1
    BY <1>1
  <2>2. Tail(todo[t]) # todo[t]
    <3>1. Len(Tail(todo[t])) # Len(todo[t])
      BY <2>1
    <3> QED BY <3>1, Zenon
  <2> QED BY <2>2
<1> HIDE DEF rest
<1>8. CastType'
  BY <1>2, <1>4, <1>5 DEF CastType
<1>9. ASSUME NEW u \in Thread PROVE Casting(u)'
  <2>1. CASE u = t
    <3>1. todo'[t] = rest /\ output_'[t] = pipes
          /\ next'[t] = IF rest # todo[t] /\ rest # <<>> THEN Head(rest).topic ELSE at
      BY <1>5 DEF CastType
    <3> QED BY <2>1, <3>1, <1>4, <1>6, <1>7, ConstantsAssumption DEF Casting, ConstantsAssumption
  <2>2. CASE u # t
    <3>1. todo'[u] = todo[u] /\ output_'[u] = output_[u] /\ next'[u] = next[u]
      BY <2>2, <1>5 DEF CastType
    <3> QED BY <3>1 DEF Casting
  <2> QED BY <2>1, <2>2
<1> QED BY <1>8, <1>9

\* A broadcast that begins.
LEMMA BroadcastCast ==
  ASSUME CastType, \A u \in Thread : Casting(u), NEW t \in Thread, todo[t] = <<>>,
         NEW msgs \in Seq(Message), msgs # <<>>, Broadcast(t, msgs)
  PROVE  CastType' /\ \A u \in Thread : Casting(u)'
<1>1. Head(msgs) \in Message
  OBVIOUS
<1>2. Head(msgs).topic \in Topic
  BY <1>1, MessageType
<1>3. CastType'
  BY <1>2 DEF CastType, Broadcast
<1>4. ASSUME NEW u \in Thread PROVE Casting(u)'
  BY <1>2, ConstantsAssumption DEF Casting, Broadcast, CastType, ConstantsAssumption
<1> QED BY <1>3, <1>4

\* The initial state.
LEMMA ConnectInit == Init => ConnectInv
<1> SUFFICES ASSUME Init PROVE ConnectInv
  OBVIOUS
<1>1. TypeOK
  BY ConstantsAssumption DEF Init, TypeOK, ConstantsAssumption
<1>2. ASSUME NEW s \in Subscriber, NEW x \in Topic PROVE Subscribed(s, x)
  BY DEF Init, Subscribed
<1>3. ASSUME NEW x \in Topic PROVE Listed(x)
  <2>1. output[x] = <<>> /\ DOMAIN output[x] = {}
    BY DEF Init
  <2> QED BY <2>1 DEF Listed
<1>4. ASSUME NEW t \in Thread PROVE Casting(t)
  BY DEF Init, Casting
<1> QED BY <1>1, <1>2, <1>3, <1>4 DEF ConnectInv

\* A step that leaves the subscriptions alone.
LEMMA SameSubscriptions ==
  ASSUME \A s \in Subscriber, x \in Topic : Subscribed(s, x), \A x \in Topic : Listed(x),
         UNCHANGED <<subscriberVars, output>>
  PROVE  (\A s \in Subscriber, x \in Topic : Subscribed(s, x))' /\ (\A x \in Topic : Listed(x))'
BY DEF Subscribed, Listed, Current, subscriberVars

\* publish().
LEMMA PublishConnect ==
  ASSUME ConnectInv, NEW t \in Thread, NEW x \in Topic, NEW flags \in Flags, Publish(t, x, flags)
  PROVE  ConnectInv'
<1> DEFINE p == PublisherOf[t]
           n == topic_map[p][x] + (IF "RESEND" \notin flags \/ topic_map[p][x] = 0 THEN 1 ELSE 0)
           a == <<[src |-> p, topic |-> x, flow_code |-> "open"]>>
           b == <<[src |-> p, topic |-> x, seq_num |-> n, flags |-> flags]>>
           msgs == IF topic_map[p][x] = 0 THEN a \o b ELSE b
<1>1. p \in Publisher /\ topic_map[p][x] \in Nat /\ n \in Nat \ {0}
  BY ConstantsAssumption DEF ConstantsAssumption, ConnectInv, TypeOK
<1>2. /\ todo[t] = <<>> /\ calls[t] > 0
      /\ topic_map' = [topic_map EXCEPT ![p][x] = n]
      /\ calls' = [calls EXCEPT ![t] = @ - 1]
      /\ Broadcast(t, msgs)
      /\ UNCHANGED <<is_open, closing, output, subscriberVars, inbox, seq_map, handled>>
  BY DEF Publish, Idle
<1> HIDE DEF n
<1>3. a \in Seq(Message) /\ b \in Seq(Message)
  <2>1. [src |-> p, topic |-> x, flow_code |-> "open"] \in Message
    BY <1>1, NewMessage DEF FlowCode
  <2>2. [src |-> p, topic |-> x, seq_num |-> n, flags |-> flags] \in Message
    BY <1>1, NewMessage
  <2> QED BY <2>1, <2>2
<1>4. msgs \in Seq(Message) /\ msgs # <<>>
  BY <1>3
<1> HIDE DEF msgs
<1>5. CastType' /\ \A u \in Thread : Casting(u)'
  <2>1. CastType /\ \A u \in Thread : Casting(u)
    BY DEF ConnectInv, TypeOK, CastType
  <2> QED BY <2>1, <1>2, <1>4, BroadcastCast
<1>6. topic_map' \in [Publisher -> [Topic -> Nat]]
  BY <1>1, <1>2 DEF ConnectInv, TypeOK
<1>7. calls' \in [Thread -> 0..MaxPublish]
  BY <1>2, ConstantsAssumption DEF ConstantsAssumption, ConnectInv, TypeOK
<1>8. TypeOK'
  BY <1>2, <1>5, <1>6, <1>7 DEF ConnectInv, TypeOK, CastType, subscriberVars
<1>9. (\A s \in Subscriber, y \in Topic : Subscribed(s, y))' /\ (\A y \in Topic : Listed(y))'
  BY <1>2, SameSubscriptions DEF ConnectInv
<1> QED BY <1>5, <1>8, <1>9 DEF ConnectInv

\* The messages of close(), one for each topic the publisher has.
LEMMA CloseMessages ==
  ASSUME NEW p \in Publisher, NEW known \in SUBSET Topic, NEW xs \in Orders(known), known # {}
  PROVE  LET msgs == [i \in DOMAIN xs |-> [src |-> p, topic |-> xs[i], flow_code |-> "close"]] IN
         /\ msgs \in Seq(Message) /\ msgs # <<>>
         /\ \A i \in DOMAIN msgs : msgs[i].src = p /\ IsClose(msgs[i])
<1> DEFINE c(x) == [src |-> p, topic |-> x, flow_code |-> "close"]
           msgs == [i \in DOMAIN xs |-> c(xs[i])]
<1>0. Cardinality(known) \in Nat \ {0}
  <2>1. IsFiniteSet(known)
    BY ConstantsAssumption, FS_Subset DEF ConstantsAssumption
  <2> QED BY <2>1, FS_EmptySet, FS_CardinalityType
<1>1. xs \in [1..Cardinality(known) -> known]
  BY DEF Orders, Seqs!Injection
<1>2. \A x \in Topic : c(x) \in Message /\ c(x).src = p /\ IsClose(c(x))
  BY NewMessage DEF FlowCode, IsClose
<1> HIDE DEF c
<1>3. msgs \in [1..Cardinality(known) -> Message]
  BY <1>1, <1>2
<1>4. msgs \in Seq(Message) /\ Len(msgs) = Cardinality(known)
  BY <1>0, <1>3
<1>5. msgs # <<>>
  BY <1>0, <1>4
<1>6. \A i \in DOMAIN msgs : msgs[i].src = p /\ IsClose(msgs[i])
  BY <1>1, <1>2
<1> QED BY <1>4, <1>5, <1>6 DEF c

\* close(), up to its end.
LEMMA CloseConnect ==
  ASSUME ConnectInv, NEW t \in Thread, Close(t) \/ Closed(t)
  PROVE  ConnectInv'
<1> DEFINE p == PublisherOf[t]
           known == {x \in Topic : topic_map[p][x] > 0}
<1>1. p \in Publisher /\ known \in SUBSET Topic
  BY ConstantsAssumption DEF ConstantsAssumption
<1>2. CastType /\ \A u \in Thread : Casting(u)
  BY DEF ConnectInv, TypeOK, CastType
<1>3. UNCHANGED <<output, subscriberVars, inbox, seq_map, handled, calls>>
  BY DEF Close, Closed
<1>4. (\A s \in Subscriber, x \in Topic : Subscribed(s, x))' /\ (\A x \in Topic : Listed(x))'
  BY <1>3, SameSubscriptions DEF ConnectInv
<1>5. CASE Close(t)
  <2>1. PICK xs \in Orders(known) :
           Broadcast(t, [i \in DOMAIN xs |-> [src |-> p, topic |-> xs[i], flow_code |-> "close"]])
    BY <1>5 DEF Close
  <2>2. known # {} /\ todo[t] = <<>> /\ closing' = [closing EXCEPT ![p] = t]
        /\ UNCHANGED <<is_open, topic_map>>
    BY <1>5 DEF Close, Idle
  <2> DEFINE msgs == [i \in DOMAIN xs |-> [src |-> p, topic |-> xs[i], flow_code |-> "close"]]
  <2> HIDE DEF known
  <2>3. msgs \in Seq(Message) /\ msgs # <<>>
    BY <1>1, <2>1, <2>2, CloseMessages, SMTT(60)
  <2> HIDE DEF msgs
  <2>4. Broadcast(t, msgs)
    BY <2>1 DEF msgs
  <2>5. CastType' /\ \A u \in Thread : Casting(u)'
    BY <1>2, <2>2, <2>3, <2>4, BroadcastCast
  <2>6. TypeOK'
    BY <1>1, <1>3, <2>2, <2>5 DEF ConnectInv, TypeOK, CastType, subscriberVars
  <2> QED BY <2>5, <2>6, <1>4 DEF ConnectInv
<1>6. CASE Closed(t)
  <2>1. /\ UNCHANGED castVars /\ closing' = [closing EXCEPT ![p] = None]
        /\ is_open' = [is_open EXCEPT ![p] = FALSE]
        /\ topic_map' = [topic_map EXCEPT ![p] = [x \in Topic |-> 0]]
    BY <1>6 DEF Closed
  <2>2. CastType' /\ \A u \in Thread : Casting(u)'
    BY <1>2, <2>1 DEF castVars, CastType, Casting
  <2>3. TypeOK'
    BY <1>1, <1>3, <2>1, <2>2 DEF ConnectInv, TypeOK, CastType, subscriberVars
  <2> QED BY <2>2, <2>3, <1>4 DEF ConnectInv
<1> QED BY <1>5, <1>6

\* push() of a pipe adds the message or does nothing.
LEMMA Pushed ==
  ASSUME NEW p, NEW m, Push(p, m)
  PROVE  \/ UNCHANGED inbox
         \/ /\ p \in node
            /\ inbox' = [inbox EXCEPT ![p.node] = Append(inbox[p.node], [pipe |-> p, msg |-> m])]
BY DEF Push

\* The types of what is pushed.
LEMMA PushType ==
  ASSUME TypeOK, NEW p \in Pipe, NEW m \in Message, Push(p, m)
  PROVE  inbox' \in [Subscriber -> Seq([pipe : Pipe, msg : Message])]
<1>1. p.node \in Subscriber
  BY DEF Pipe
<1>2. [pipe |-> p, msg |-> m] \in [pipe : Pipe, msg : Message]
  OBVIOUS
<1>3. inbox[p.node] \in Seq([pipe : Pipe, msg : Message])
  BY <1>1 DEF TypeOK
<1>4. Append(inbox[p.node], [pipe |-> p, msg |-> m]) \in Seq([pipe : Pipe, msg : Message])
  BY <1>2, <1>3, Appended
<1>5. inbox \in [Subscriber -> Seq([pipe : Pipe, msg : Message])]
  BY DEF TypeOK
<1>6. CASE UNCHANGED inbox
  BY <1>5, <1>6
<1>7. CASE inbox' = [inbox EXCEPT ![p.node] = Append(inbox[p.node], [pipe |-> p, msg |-> m])]
  BY <1>1, <1>4, <1>5, <1>7
<1> QED BY <1>6, <1>7, Pushed

\* broadcast().
LEMMA SendConnect ==
  ASSUME ConnectInv, NEW t \in Thread, Copy(t) \/ Send(t)
  PROVE  ConnectInv'
<1>1. CastType /\ \A u \in Thread : Casting(u)
  BY DEF ConnectInv, TypeOK, CastType
<1>2. UNCHANGED <<publisherVars, output, subscriberVars, seq_map, handled>>
  BY DEF Copy, Send
<1>3. (\A s \in Subscriber, x \in Topic : Subscribed(s, x))' /\ (\A x \in Topic : Listed(x))'
  BY <1>2, SameSubscriptions DEF ConnectInv
<1>4. CastType' /\ inbox' \in [Subscriber -> Seq([pipe : Pipe, msg : Message])]
      /\ \A u \in Thread : Casting(u)'
  <2>1. CASE Copy(t)
    <3>1. todo[t] # <<>> /\ output_[t] = <<>> /\ UNCHANGED inbox
          /\ Continue(t, todo[t], Parent[next[t]], output[next[t]])
      BY <2>1 DEF Copy, Idle
    <3>2. next[t] \in Topic
      BY <1>1, <3>1 DEF Casting, CastType
    <3>3. Parent[next[t]] \in Topic \cup {None} /\ output[next[t]] \in Seq(Pipe)
      BY <3>2, ConstantsAssumption DEF ConstantsAssumption, ConnectInv, TypeOK
    <3>4. CastType' /\ \A u \in Thread : Casting(u)'
      BY <1>1, <3>1, <3>3, ContinueCast
    <3> QED BY <3>1, <3>4 DEF ConnectInv, TypeOK
  <2>2. CASE Send(t)
    <3>1. output_[t] # <<>> /\ Push(Head(output_[t]), Head(todo[t]))
          /\ Continue(t, todo[t], next[t], Tail(output_[t]))
      BY <2>2 DEF Send
    <3>2. todo[t] # <<>> /\ todo[t] \in Seq(Message) /\ output_[t] \in Seq(Pipe)
          /\ next[t] \in Topic \cup {None}
      BY <1>1, <3>1 DEF Casting, CastType
    <3>3. Head(output_[t]) \in Pipe /\ Tail(output_[t]) \in Seq(Pipe) /\ Head(todo[t]) \in Message
      BY <3>1, <3>2
    <3>4. CastType' /\ \A u \in Thread : Casting(u)'
      BY <1>1, <3>1, <3>2, <3>3, ContinueCast
    <3>5. inbox' \in [Subscriber -> Seq([pipe : Pipe, msg : Message])]
      BY <3>1, <3>3, PushType DEF ConnectInv
    <3> QED BY <3>4, <3>5
  <2> QED BY <2>1, <2>2
<1>5. TypeOK'
  BY <1>2, <1>4 DEF ConnectInv, TypeOK, CastType, publisherVars, subscriberVars
<1> QED BY <1>3, <1>4, <1>5 DEF ConnectInv

\* subscribe().
LEMMA SubscribeConnect ==
  ASSUME ConnectInv, NEW s \in Subscriber, NEW x \in Topic, Subscribe(s, x)
  PROVE  ConnectInv'
<1> DEFINE p == [node |-> s, topic |-> x, num |-> opened[s][x] + 1]
<1>1. subscribes[s][x] \in (0..MaxSubscribe) \X (0..MaxSubscribe)
      /\ opened[s][x] \in 0..MaxSubscribe /\ count[s][x] \in Int /\ MaxSubscribe \in Nat
  BY ConstantsAssumption DEF ConstantsAssumption, ConnectInv, TypeOK
<1>2. subscribes' = [subscribes EXCEPT ![s][x] = <<subscribes[s][x][1] + 1, subscribes[s][x][2]>>]
  <2>1. subscribes' = [subscribes EXCEPT ![s][x][1] = @ + 1]
    BY DEF Subscribe
  <2>2. [subscribes[s][x] EXCEPT ![1] = @ + 1] = <<subscribes[s][x][1] + 1, subscribes[s][x][2]>>
    BY <1>1
  <2> QED BY <2>1, <2>2
<1>3. subscribes[s][x][1] < MaxSubscribe /\ count' = [count EXCEPT ![s][x] = @ + 1]
      /\ UNCHANGED <<publisherVars, castVars, inbox, seq_map, handled>>
  BY DEF Subscribe
<1>4. subscribes' \in [Subscriber -> [Topic -> (0..MaxSubscribe) \X (0..MaxSubscribe)]]
  <2>1. <<subscribes[s][x][1] + 1, subscribes[s][x][2]>> \in (0..MaxSubscribe) \X (0..MaxSubscribe)
    BY <1>1, <1>3
  <2> QED BY <1>2, <2>1 DEF ConnectInv, TypeOK
<1>5. count' \in [Subscriber -> [Topic -> Int]]
  BY <1>1, <1>3 DEF ConnectInv, TypeOK
<1>6. \A r \in Subscriber, y \in Topic :
         /\ count'[r][y] = IF r = s /\ y = x THEN count[s][x] + 1 ELSE count[r][y]
         /\ subscribes'[r][y] = IF r = s /\ y = x
                                THEN <<subscribes[s][x][1] + 1, subscribes[s][x][2]>>
                                ELSE subscribes[r][y]
  BY <1>2, <1>3 DEF ConnectInv, TypeOK
<1>7. \A u \in Thread : Casting(u)'
  BY <1>3 DEF ConnectInv, Casting, castVars
<1>8. CASE count[s][x] = 0
  <2>1. Subscribed(s, x) /\ Listed(x)
    BY DEF ConnectInv
  <2>2. opened[s][x] + 1 \in 1..MaxSubscribe
    BY <2>1, <1>1, <1>3 DEF Subscribed
  <2>3. p \in Pipe
    BY <2>2 DEF Pipe
  <2>4. opened' = [opened EXCEPT ![s][x] = @ + 1] /\ node' = node \cup {p}
        /\ output' = [output EXCEPT ![x] = Append(@, p)]
    BY <1>8 DEF Subscribe, Current
  <2>5. p.node = s /\ p.topic = x /\ p.num = opened[s][x] + 1
    OBVIOUS
  <2> HIDE DEF p
  <2>6. opened' \in [Subscriber -> [Topic -> 0..MaxSubscribe]] /\ node' \subseteq Pipe
        /\ output' \in [Topic -> Seq(Pipe)]
    BY <2>2, <2>3, <2>4, Appended DEF ConnectInv, TypeOK
  <2>7. TypeOK'
    BY <1>3, <1>4, <1>5, <2>6 DEF ConnectInv, TypeOK, publisherVars, castVars
  <2>8. output[x] \in Seq(Pipe) /\ output'[x] = Append(output[x], p)
        /\ \A y \in Topic : y # x => output'[y] = output[y]
    BY <2>4 DEF ConnectInv, TypeOK
  <2>9. \A r \in Subscriber, y \in Topic :
           opened'[r][y] = IF r = s /\ y = x THEN opened[s][x] + 1 ELSE opened[r][y]
    BY <2>4 DEF ConnectInv, TypeOK
  <2>10. \A q \in node : ~ (q.node = s /\ q.topic = x)
    BY <2>1, <1>8 DEF Subscribed
  <2>11. ASSUME NEW y \in Topic PROVE Listed(y)'
    <3>1. Listed(y)
      BY DEF ConnectInv
    <3>2. CASE y # x
      BY <3>1, <3>2, <2>4, <2>8 DEF Listed
    <3>3. CASE y = x
      <4>1. \A i \in DOMAIN output[x] : output[x][i] # p
        BY <2>1, <2>5, <2>10 DEF Listed
      <4> QED BY <3>3, <4>1, <2>1, <2>3, <2>4, <2>5, <2>8, Appended DEF Listed
    <3> QED BY <3>2, <3>3
  <2>12. ASSUME NEW r \in Subscriber, NEW y \in Topic PROVE Subscribed(r, y)'
    <3>1. Subscribed(r, y)
      BY DEF ConnectInv
    <3>2. CASE r = s /\ y = x
      <4>1. Current(s, x)' = p
        BY <2>9 DEF Current, p
      <4>2. \E i \in DOMAIN output'[x] : output'[x][i] = p
        BY <2>3, <2>8, Appended
      <4>3. /\ count'[s][x] = subscribes'[s][x][1] - subscribes'[s][x][2]
            /\ opened'[s][x] <= subscribes'[s][x][1] /\ count'[s][x] > 0
        <5>1. count'[s][x] = count[s][x] + 1 /\ opened'[s][x] = opened[s][x] + 1
              /\ subscribes'[s][x] = <<subscribes[s][x][1] + 1, subscribes[s][x][2]>>
          BY <1>6, <2>9
        <5>2. subscribes[s][x][1] \in Int /\ subscribes[s][x][2] \in Int
          BY <1>1
        <5> QED BY <5>1, <5>2, <2>1, <1>1, <1>8 DEF Subscribed
      <4>4. \A q \in node' : q.node = s /\ q.topic = x => q = p
        BY <2>4, <2>10
      <4> QED BY <3>2, <4>1, <4>2, <4>3, <4>4, <2>4 DEF Subscribed
    <3>3. CASE ~ (r = s /\ y = x)
      <4>1. Current(r, y)' = Current(r, y) /\ count'[r][y] = count[r][y]
            /\ subscribes'[r][y] = subscribes[r][y] /\ opened'[r][y] = opened[r][y]
        BY <3>3, <1>6, <2>9 DEF Current
      <4>2. \A i \in DOMAIN output[y] : i \in DOMAIN output'[y] /\ output'[y][i] = output[y][i]
        BY <2>3, <2>8, Appended
      <4>3. node' = node \cup {p} /\ ~ (p.node = r /\ p.topic = y)
        BY <3>3, <2>4, <2>5
      <4> QED BY <3>1, <4>1, <4>2, <4>3 DEF Subscribed
    <3> QED BY <3>2, <3>3
  <2> QED BY <1>7, <2>7, <2>11, <2>12 DEF ConnectInv
<1>9. CASE count[s][x] # 0
  <2>1. UNCHANGED <<opened, node, output>>
    BY <1>9 DEF Subscribe
  <2>2. TypeOK'
    BY <1>3, <1>4, <1>5, <2>1 DEF ConnectInv, TypeOK, publisherVars, castVars
  <2>3. ASSUME NEW y \in Topic PROVE Listed(y)'
    BY <2>1 DEF ConnectInv, Listed
  <2>4. ASSUME NEW r \in Subscriber, NEW y \in Topic PROVE Subscribed(r, y)'
    <3>1. Subscribed(r, y)
      BY DEF ConnectInv
    <3>2. Current(r, y)' = Current(r, y)
      BY <2>1 DEF Current
    <3> QED BY <3>1, <3>2, <1>1, <1>6, <1>9, <2>1 DEF Subscribed
  <2> QED BY <1>7, <2>2, <2>3, <2>4 DEF ConnectInv
<1> QED BY <1>8, <1>9

\* unsubscribe(): what is left in the pipes of the module.
LEMMA MessagesLeft ==
  ASSUME NEW S, NEW q \in Seq(S), NEW keep \in SUBSET DOMAIN q, NEW f \in Orders(keep),
         \A i, j \in DOMAIN f : i < j => f[i] < f[j]
  PROVE  /\ [i \in DOMAIN f |-> q[f[i]]] \in Seq(S)
         /\ Picks([i \in DOMAIN f |-> q[f[i]]], q, f)
<1>1. f \in [1..Cardinality(keep) -> keep]
  BY DEF Orders, Seqs!Injection
<1>2. Cardinality(keep) \in Nat
  <2>1. IsFiniteSet(1..Len(q)) /\ keep \subseteq 1..Len(q)
    BY FS_Interval
  <2> QED BY <2>1, FS_Subset, FS_CardinalityType
<1>3. \A i \in 1..Cardinality(keep) : f[i] \in DOMAIN q
  BY <1>1
<1>4. [i \in 1..Cardinality(keep) |-> q[f[i]]] \in Seq(S)
  BY <1>2, <1>3
<1> QED BY <1>1, <1>4 DEF Picks

\* unsubscribe().
LEMMA UnsubscribeConnect ==
  ASSUME ConnectInv, NEW s \in Subscriber, NEW x \in Topic, Unsubscribe(s, x)
  PROVE  ConnectInv'
<1>1. subscribes[s][x] \in (0..MaxSubscribe) \X (0..MaxSubscribe)
      /\ opened[s][x] \in 0..MaxSubscribe /\ count[s][x] \in Int /\ MaxSubscribe \in Nat
  BY ConstantsAssumption DEF ConstantsAssumption, ConnectInv, TypeOK
<1>2. subscribes' = [subscribes EXCEPT ![s][x] = <<subscribes[s][x][1], subscribes[s][x][2] + 1>>]
  <2>1. subscribes' = [subscribes EXCEPT ![s][x][2] = @ + 1]
    BY DEF Unsubscribe
  <2>2. [subscribes[s][x] EXCEPT ![2] = @ + 1] = <<subscribes[s][x][1], subscribes[s][x][2] + 1>>
    BY <1>1
  <2> QED BY <2>1, <2>2
<1>3. subscribes[s][x][2] < MaxSubscribe /\ count' = [count EXCEPT ![s][x] = @ - 1]
      /\ UNCHANGED <<publisherVars, castVars, opened, seq_map, handled>>
  BY DEF Unsubscribe
<1>4. subscribes' \in [Subscriber -> [Topic -> (0..MaxSubscribe) \X (0..MaxSubscribe)]]
  <2>1. <<subscribes[s][x][1], subscribes[s][x][2] + 1>> \in (0..MaxSubscribe) \X (0..MaxSubscribe)
    BY <1>1, <1>3
  <2> QED BY <1>2, <2>1 DEF ConnectInv, TypeOK
<1>5. count' \in [Subscriber -> [Topic -> Int]]
  BY <1>1, <1>3 DEF ConnectInv, TypeOK
<1>6. \A r \in Subscriber, y \in Topic :
         /\ count'[r][y] = IF r = s /\ y = x THEN count[s][x] - 1 ELSE count[r][y]
         /\ subscribes'[r][y] = IF r = s /\ y = x
                                THEN <<subscribes[s][x][1], subscribes[s][x][2] + 1>>
                                ELSE subscribes[r][y]
  BY <1>2, <1>3 DEF ConnectInv, TypeOK
<1>7. \A u \in Thread : Casting(u)'
  BY <1>3 DEF ConnectInv, Casting, castVars
<1>8. \A r \in Subscriber, y \in Topic : Current(r, y)' = Current(r, y)
  BY <1>3 DEF Current
<1>9. Subscribed(s, x) /\ Listed(x)
  BY DEF ConnectInv
<1>10. /\ count'[s][x] = subscribes'[s][x][1] - subscribes'[s][x][2]
       /\ opened'[s][x] <= subscribes'[s][x][1]
  <2>1. count'[s][x] = count[s][x] - 1 /\ opened'[s][x] = opened[s][x]
        /\ subscribes'[s][x] = <<subscribes[s][x][1], subscribes[s][x][2] + 1>>
    BY <1>3, <1>6
  <2>2. subscribes[s][x][1] \in Int /\ subscribes[s][x][2] \in Int
    BY <1>1
  <2> QED BY <2>1, <2>2, <1>1, <1>9 DEF Subscribed
<1>11. CASE count[s][x] = 1
  <2> DEFINE p == Current(s, x)
             left == {i \in DOMAIN inbox[s] : inbox[s][i].pipe # p}
  <2>1. node' = node \ {p} /\ output' = [output EXCEPT ![x] = Seqs!RemoveFirst(@, p)]
    BY <1>11 DEF Unsubscribe
  <2>2. PICK f \in Orders(left) :
           /\ \A i, j \in DOMAIN f : i < j => f[i] < f[j]
           /\ inbox' = [inbox EXCEPT ![s] = [i \in DOMAIN f |-> inbox[s][f[i]]]]
    BY <1>11 DEF Unsubscribe
  <2>3. inbox' \in [Subscriber -> Seq([pipe : Pipe, msg : Message])]
    <3>1. inbox[s] \in Seq([pipe : Pipe, msg : Message])
      BY DEF ConnectInv, TypeOK
    <3>2. left \in SUBSET DOMAIN inbox[s]
      OBVIOUS
    <3> HIDE DEF left
    <3>3. [i \in DOMAIN f |-> inbox[s][f[i]]] \in Seq([pipe : Pipe, msg : Message])
      BY <3>1, <3>2, <2>2, MessagesLeft
    <3> QED BY <3>3, <2>2 DEF ConnectInv, TypeOK
  <2>4. PICK n \in DOMAIN output[x] : output[x][n] = p
    BY <1>9, <1>11 DEF Subscribed
  <2>5. output[x] \in Seq(Pipe)
    BY DEF ConnectInv, TypeOK
  <2> DEFINE r == Seqs!RemoveAt(output[x], n)
  <2>6. output' = [output EXCEPT ![x] = r]
    <3>1. \A j \in DOMAIN output[x] : output[x][j] = output[x][n] => j = n
      BY <1>9 DEF Listed
    <3> QED BY <3>1, <2>1, <2>4, <2>5, RemovedFirst
  <2>14. r \in Seq(Pipe)
    BY <2>4, <2>5, Removed
  <2>15. PICK g : PicksAllBut(r, output[x], n, g)
    BY <2>4, <2>5, Removed
  <2> HIDE DEF p, r
  <2>7. /\ Picks(r, output[x], g)
        /\ \A k \in DOMAIN r : g[k] # n
        /\ \A i \in DOMAIN output[x] : i = n \/ \E k \in DOMAIN r : g[k] = i
    BY <2>15 DEF PicksAllBut
  <2>8. TypeOK'
    <3>1. output' \in [Topic -> Seq(Pipe)] /\ node' \subseteq Pipe
      BY <2>1, <2>6, <2>14 DEF ConnectInv, TypeOK
    <3> QED BY <3>1, <1>3, <1>4, <1>5, <2>3 DEF ConnectInv, TypeOK, publisherVars, castVars
  <2>9. output'[x] = r /\ \A y \in Topic : y # x => output'[y] = output[y]
    BY <2>6 DEF ConnectInv, TypeOK
  <2>10. p.node = s /\ p.topic = x
    BY DEF p, Current
  <2>11. \A k \in DOMAIN r : g[k] \in DOMAIN output[x] /\ r[k] = output[x][g[k]] /\ r[k] # p
    BY <2>4, <2>7, <1>9 DEF Picks, Listed
  <2>12. ASSUME NEW y \in Topic PROVE Listed(y)'
    <3>1. Listed(y)
      BY DEF ConnectInv
    <3>2. CASE y # x
      BY <3>1, <3>2, <2>1, <2>9, <2>10 DEF Listed
    <3>3. CASE y = x
      <4>1. \A k \in DOMAIN r : r[k].topic = x /\ r[k] \in node'
        BY <1>9, <2>1, <2>11 DEF Listed
      <4>2. \A i, j \in DOMAIN r : r[i] = r[j] => i = j
        <5>1. \A i, j \in DOMAIN r : i # j => g[i] # g[j]
          <6>1. DOMAIN r \subseteq Int /\ DOMAIN output[x] \subseteq Int
            BY <2>5, <2>14
          <6>2. \A i \in DOMAIN r : g[i] \in Int
            BY <6>1, <2>7 DEF Picks
          <6>3. \A i, j \in DOMAIN r : i < j => g[i] < g[j]
            BY <2>7 DEF Picks
          <6> QED BY <6>1, <6>2, <6>3
        <5> QED BY <5>1, <1>9, <2>11 DEF Listed
      <4> QED BY <3>3, <4>1, <4>2, <2>9 DEF Listed
    <3> QED BY <3>2, <3>3
  <2>13. ASSUME NEW r_ \in Subscriber, NEW y \in Topic PROVE Subscribed(r_, y)'
    <3>1. Subscribed(r_, y)
      BY DEF ConnectInv
    <3>2. CASE r_ = s /\ y = x
      <4>1. count'[s][x] = 0
        BY <1>6, <1>11
      <4>2. \A q \in node' : ~ (q.node = s /\ q.topic = x)
        BY <2>1, <1>9 DEF Subscribed, p
      <4> QED BY <3>2, <4>1, <4>2, <1>10 DEF Subscribed
    <3>3. CASE ~ (r_ = s /\ y = x)
      <4>1. Current(r_, y)' = Current(r_, y) /\ count'[r_][y] = count[r_][y]
            /\ subscribes'[r_][y] = subscribes[r_][y] /\ opened'[r_][y] = opened[r_][y]
            /\ Current(r_, y) # p
        BY <3>3, <1>3, <1>6, <1>8, <2>10 DEF Current
      <4>2. ASSUME NEW i \in DOMAIN output[y], output[y][i] # p
            PROVE  \E k \in DOMAIN output'[y] : output'[y][k] = output[y][i]
        BY <4>2, <2>4, <2>7, <2>9, <2>11
      <4> QED BY <3>1, <4>1, <4>2, <2>1 DEF Subscribed
    <3> QED BY <3>2, <3>3
  <2> QED BY <1>7, <2>8, <2>12, <2>13 DEF ConnectInv
<1>12. CASE count[s][x] # 1
  <2>1. UNCHANGED <<output, node, inbox>>
    BY <1>12 DEF Unsubscribe
  <2>2. TypeOK'
    BY <1>3, <1>4, <1>5, <2>1 DEF ConnectInv, TypeOK, publisherVars, castVars
  <2>3. ASSUME NEW y \in Topic PROVE Listed(y)'
    BY <2>1 DEF ConnectInv, Listed
  <2>4. ASSUME NEW r \in Subscriber, NEW y \in Topic PROVE Subscribed(r, y)'
    <3>1. Subscribed(r, y)
      BY DEF ConnectInv
    <3>2. CASE r = s /\ y = x
      <4>1. count'[s][x] = count[s][x] - 1
        BY <1>6
      <4> QED BY <3>1, <3>2, <4>1, <1>1, <1>8, <1>10, <1>12, <2>1 DEF Subscribed
    <3>3. CASE ~ (r = s /\ y = x)
      BY <3>1, <3>3, <1>3, <1>6, <1>8, <2>1 DEF Subscribed
    <3> QED BY <3>2, <3>3
  <2> QED BY <1>7, <2>2, <2>3, <2>4 DEF ConnectInv
<1> QED BY <1>11, <1>12

\* What handle() does with message m.
HandleMessage(s, m) ==
    IF "seq_num" \in DOMAIN m THEN HandleSample(s, m) ELSE HandleFlow(s, m)

\* The message a module reads: the first of those with the best priority.
Reads(s, i) ==
    /\ i \in DOMAIN inbox[s]
    /\ \A k \in 1..(i - 1) : Priority[inbox[s][k].pipe.topic] # Priority[inbox[s][i].pipe.topic]
    /\ inbox' = [inbox EXCEPT ![s] = Seqs!RemoveAt(inbox[s], i)]
    /\ HandleMessage(s, inbox[s][i].msg)
    /\ UNCHANGED <<publisherVars, castVars, output, subscriberVars>>

\* A module takes one of the messages that wait for it (Node.cpp:125).
LEMMA HandleReads ==
  ASSUME NEW s \in Subscriber, Handle(s)
  PROVE  \E i : Reads(s, i)
BY DEF Handle, Reads, HandleMessage

\* handle() keeps the types.
LEMMA HandleConnect ==
  ASSUME ConnectInv, NEW s \in Subscriber, Handle(s)
  PROVE  ConnectInv'
<1>1. PICK i : Reads(s, i)
  BY HandleReads
<1> DEFINE m == inbox[s][i].msg
<1>2. i \in DOMAIN inbox[s] /\ inbox' = [inbox EXCEPT ![s] = Seqs!RemoveAt(inbox[s], i)]
      /\ HandleMessage(s, m)
      /\ UNCHANGED <<publisherVars, castVars, output, subscriberVars>>
  BY <1>1 DEF Reads
<1>3. inbox[s] \in Seq([pipe : Pipe, msg : Message])
  BY DEF ConnectInv, TypeOK
<1>4. inbox' \in [Subscriber -> Seq([pipe : Pipe, msg : Message])]
  BY <1>2, <1>3, Removed DEF ConnectInv, TypeOK
<1>5. m \in Message
  <2>1. inbox[s][i] \in [pipe : Pipe, msg : Message]
    BY <1>2, <1>3, Element
  <2> QED BY <2>1
<1> HIDE DEF m
<1>6. m.src \in Publisher /\ m.topic \in Topic /\ (IsSample(m) => m.seq_num \in Nat)
  BY <1>5, MessageType
<1>7. seq_map' \in [Subscriber -> [Publisher -> [Topic -> Nat]]]
      /\ handled' \in [Subscriber -> [Publisher -> [Topic -> Seq(Nat)]]]
  <2>1. seq_map \in [Subscriber -> [Publisher -> [Topic -> Nat]]]
        /\ handled \in [Subscriber -> [Publisher -> [Topic -> Seq(Nat)]]]
    BY DEF ConnectInv, TypeOK
  <2>2. CASE UNCHANGED seq_map /\ UNCHANGED handled
    BY <2>1, <2>2
  <2>3. CASE IsSample(m) /\ seq_map' = [seq_map EXCEPT ![s][m.src][m.topic] = m.seq_num]
             /\ handled' = [handled EXCEPT ![s][m.src][m.topic] = Append(@, m.seq_num)]
    BY <2>1, <2>3, <1>6
  <2>4. CASE seq_map' = [seq_map EXCEPT ![s][m.src][m.topic] = 0] /\ UNCHANGED handled
    BY <2>1, <2>4, <1>6
  <2> QED BY <1>2, <2>2, <2>3, <2>4 DEF HandleMessage, HandleSample, HandleFlow, IsSample
<1>8. TypeOK'
  BY <1>2, <1>4, <1>7 DEF ConnectInv, TypeOK, publisherVars, castVars, subscriberVars
<1>9. (\A r \in Subscriber, x \in Topic : Subscribed(r, x))' /\ (\A x \in Topic : Listed(x))'
  BY <1>2, SameSubscriptions DEF ConnectInv
<1>10. \A u \in Thread : Casting(u)'
  BY <1>2 DEF ConnectInv, Casting, castVars
<1> QED BY <1>8, <1>9, <1>10 DEF ConnectInv

\* The invariant holds always: one step for each action.
THEOREM Connected == Spec => []ConnectInv
<1>1. ConnectInv /\ [Next]_vars => ConnectInv'
  <2> SUFFICES ASSUME ConnectInv, [Next]_vars PROVE ConnectInv'
    OBVIOUS
  <2>1. ASSUME NEW t \in Thread, PublisherStep(t) PROVE ConnectInv'
    <3>1. CASE Close(t) \/ Closed(t)
      BY <3>1, CloseConnect
    <3>2. CASE Copy(t) \/ Send(t)
      BY <3>2, SendConnect
    <3>3. ASSUME NEW x \in Topic, NEW flags \in Flags, Publish(t, x, flags) PROVE ConnectInv'
      BY <3>3, PublishConnect
    <3> QED BY <2>1, <3>1, <3>2, <3>3 DEF PublisherStep
  <2>2. ASSUME NEW s \in Subscriber, SubscriberStep(s) PROVE ConnectInv'
    <3>1. CASE Handle(s)
      BY <3>1, HandleConnect
    <3>2. ASSUME NEW x \in Topic, Subscribe(s, x) PROVE ConnectInv'
      BY <3>2, SubscribeConnect
    <3>3. ASSUME NEW x \in Topic, Unsubscribe(s, x) PROVE ConnectInv'
      BY <3>3, UnsubscribeConnect
    <3> QED BY <2>2, <3>1, <3>2, <3>3 DEF SubscriberStep
  <2>3. CASE UNCHANGED vars
    <3>1. TypeOK'
      BY <2>3 DEF ConnectInv, TypeOK, vars, publisherVars, castVars, subscriberVars
    <3>2. (\A r \in Subscriber, x \in Topic : Subscribed(r, x))' /\ (\A x \in Topic : Listed(x))'
      BY <2>3, SameSubscriptions DEF ConnectInv, vars
    <3>3. \A u \in Thread : Casting(u)'
      BY <2>3 DEF ConnectInv, Casting, vars, castVars
    <3> QED BY <3>1, <3>2, <3>3 DEF ConnectInv
  <2> QED BY <2>1, <2>2, <2>3 DEF Next
<1> QED BY <1>1, ConnectInit, PTL DEF Spec

\* The variables keep their types.
THEOREM TypeCorrect == Spec => []TypeOK
<1>1. ConnectInv => TypeOK
  BY DEF ConnectInv
<1> QED BY <1>1, Connected, PTL

\* A module is connected to a topic by one pipe when it called subscribe() more
\* often than unsubscribe(), by none otherwise.
THEOREM SubscribedCorrect == Spec => []SubscribedAsCounted
<1>1. ConnectInv => SubscribedAsCounted
  <2> SUFFICES ASSUME ConnectInv, NEW s \in Subscriber, NEW x \in Topic
               PROVE  LET mine == {p \in node : p.node = s /\ p.topic = x}
                          sub  == subscribes[s][x][1] - subscribes[s][x][2]
                      IN  /\ mine = IF sub > 0 THEN {Current(s, x)} ELSE {}
                          /\ {output[x][i] : i \in {k \in DOMAIN output[x] : output[x][k].node = s}}
                               = mine
                          /\ \A i, j \in DOMAIN output[x] : output[x][i] = output[x][j] => i = j
    BY DEF SubscribedAsCounted
  <2> DEFINE mine == {p \in node : p.node = s /\ p.topic = x}
  <2>1. Subscribed(s, x) /\ Listed(x)
    BY DEF ConnectInv
  <2>2. Current(s, x).node = s /\ Current(s, x).topic = x
    BY DEF Current
  <2>3. mine = IF count[s][x] > 0 THEN {Current(s, x)} ELSE {}
    BY <2>1, <2>2 DEF Subscribed
  <2>4. {output[x][i] : i \in {k \in DOMAIN output[x] : output[x][k].node = s}} = mine
    <3>1. \A i \in DOMAIN output[x] : output[x][i].node = s => output[x][i] \in mine
      BY <2>1 DEF Listed
    <3>2. \A p \in mine : \E i \in DOMAIN output[x] : output[x][i] = p /\ output[x][i].node = s
      BY <2>1 DEF Subscribed
    <3> QED BY <3>1, <3>2
  <2> QED BY <2>1, <2>3, <2>4 DEF Subscribed, Listed
<1> QED BY <1>1, Connected, PTL

-----------------------------------------------------------------------------
(* Samples are handled once and in order. *)

\* The parts of OrderInv: what threads broadcast, what is in pipes, what was handled.
CastInv == \A t \in Thread : Cast(t) /\ Level(t)

\* What is in the pipes of module s.
InboxInv(s) ==
    /\ InOrder(inbox[s])
    /\ \A i \in DOMAIN inbox[s] : Sent(s, inbox[s][i]) /\ NotLate(s, inbox[s][i].msg)

\* What was handled.
NumberInv == \A s \in Subscriber, p \in Publisher, x \in Topic : Numbered(s, p, x)

\* OrderInv is its three parts,
LEMMA OrderParts ==
  OrderInv <=> CastInv /\ (\A s \in Subscriber : InboxInv(s)) /\ NumberInv
BY DEF OrderInv, CastInv, InboxInv, NumberInv

\* and holds after a step when each of them does.
LEMMA OrderNext ==
  CastInv' /\ (\A s \in Subscriber : InboxInv(s))' /\ NumberInv' => OrderInv'
BY OrderParts, PTL

\* The last sample of a topic is no duplicate, or was handled.
LEMMA LastNotLate ==
  ASSUME NEW s \in Subscriber, NEW m, is_open[m.src], Numbered(s, m.src, m.topic),
         IsSample(m) => m.seq_num \in Nat \ {0} /\ m.seq_num = topic_map[m.src][m.topic],
         seq_map[s][m.src][m.topic] \in Nat
  PROVE  NotLate(s, m)
<1> SUFFICES ASSUME IsSample(m), ~ IsNew(s, m) PROVE WasHandled(s, m.src, m.topic, m.seq_num)
  BY ZenonT(60) DEF NotLate
<1> DEFINE last == seq_map[s][m.src][m.topic]
<1>1. last # 0 => WasHandled(s, m.src, m.topic, last)
  BY DEF Numbered
<1>2. last <= m.seq_num
  BY ZenonT(60) DEF Numbered
<1>3. ~ (m.seq_num > last)
  BY ZenonT(60) DEF IsNew, LastSeq
<1>4. PICK n \in Nat \ {0} : n = m.seq_num
  OBVIOUS
<1>5. last \in Nat
  OBVIOUS
<1> HIDE DEF last
<1>6. last = n
  BY <1>2, <1>3, <1>4, <1>5
<1> QED BY <1>1, <1>4, <1>6

\* A publisher only goes on: it is not opened again, and the numbers of its topics
\* do not fall while it is open.
GoesOn ==
    \A p \in Publisher :
        /\ is_open'[p] => is_open[p] /\ \A x \in Topic : topic_map[p][x] <= topic_map'[p][x]
        /\ Ended(p) => Ended(p)'

\* The types that these proofs use.
LEMMA Types ==
  ASSUME ConnectInv
  PROVE  /\ topic_map \in [Publisher -> [Topic -> Nat]] /\ is_open \in [Publisher -> BOOLEAN]
         /\ \A t \in Thread : todo[t] \in Seq(Message) /\ output_[t] \in Seq(Pipe)
         /\ \A s \in Subscriber : inbox[s] \in Seq([pipe : Pipe, msg : Message])
         /\ seq_map \in [Subscriber -> [Publisher -> [Topic -> Nat]]]
         /\ handled \in [Subscriber -> [Publisher -> [Topic -> Seq(Nat)]]]
         /\ \A t \in Thread : PublisherOf[t] \in Publisher
BY ConstantsAssumption DEF ConnectInv, TypeOK, ConstantsAssumption

\* The type of one message in the pipes of a module.
LEMMA EntryType ==
  ASSUME ConnectInv, NEW s \in Subscriber, NEW i \in DOMAIN inbox[s]
  PROVE  /\ inbox[s][i].pipe \in Pipe /\ inbox[s][i].msg \in Message
         /\ inbox[s][i].msg.src \in Publisher /\ inbox[s][i].msg.topic \in Topic
         /\ IsSample(inbox[s][i].msg) => inbox[s][i].msg.seq_num \in Nat \ {0}
<1>1. inbox[s][i] \in [pipe : Pipe, msg : Message]
  BY Types, Element
<1>2. inbox[s][i].pipe \in Pipe /\ inbox[s][i].msg \in Message
  BY <1>1
<1> QED BY <1>2, MessageType

\* The type of one message to broadcast.
LEMMA TodoType ==
  ASSUME ConnectInv, NEW t \in Thread, NEW i \in DOMAIN todo[t]
  PROVE  /\ todo[t][i] \in Message
         /\ todo[t][i].src \in Publisher /\ todo[t][i].topic \in Topic
         /\ IsSample(todo[t][i]) => todo[t][i].seq_num \in Nat \ {0}
<1>1. todo[t][i] \in Message
  BY Types, Element
<1> QED BY <1>1, MessageType

\* A step that goes on and leaves the pipes and the modules alone.
LEMMA SameInbox ==
  ASSUME ConnectInv, ConnectInv', OrderInv, GoesOn, UNCHANGED <<inbox, seq_map, handled>>
  PROVE  (\A s \in Subscriber : InboxInv(s))' /\ NumberInv'
<1>1. ASSUME NEW s \in Subscriber PROVE InboxInv(s)'
  <2>1. InboxInv(s)
    BY OrderParts
  <2>2. ASSUME NEW i \in DOMAIN inbox[s] PROVE Sent(s, inbox[s][i])' /\ NotLate(s, inbox[s][i].msg)'
    <3> DEFINE m == inbox[s][i].msg
    <3>1. Sent(s, inbox[s][i]) /\ NotLate(s, m)
      BY <2>1 DEF InboxInv
    <3>2. m.src \in Publisher /\ m.topic \in Topic /\ (IsSample(m) => m.seq_num \in Nat)
      BY EntryType
    <3>3. is_open'[m.src] => is_open[m.src] /\ topic_map[m.src][m.topic] <= topic_map'[m.src][m.topic]
      BY <3>2 DEF GoesOn
    <3>4. topic_map[m.src][m.topic] \in Nat /\ topic_map'[m.src][m.topic] \in Nat
      BY <3>2, ZenonT(60) DEF ConnectInv, TypeOK
    <3>5. Sent(s, inbox[s][i])'
      <4>1. ASSUME IsSample(m), is_open'[m.src] PROVE m.seq_num <= topic_map'[m.src][m.topic]
        <5>1. m.seq_num <= topic_map[m.src][m.topic]
          BY <3>1, <3>3, <4>1, SMTT(60) DEF Sent
        <5>2. topic_map[m.src][m.topic] <= topic_map'[m.src][m.topic] /\ m.seq_num \in Nat
          BY <3>2, <3>3, <4>1
        <5> HIDE DEF m
        <5> QED BY <5>1, <5>2, <3>4
      <4>2. IsClose(m) => Ended(m.src)'
        BY <3>1, <3>2 DEF Sent, GoesOn
      <4>3. inbox'[s][i].msg = m /\ inbox'[s][i].pipe = inbox[s][i].pipe
        OBVIOUS
      <4> QED BY <3>1, <4>1, <4>2, <4>3 DEF Sent
    <3>6. NotLate(s, m)'
      BY <3>1, ZenonT(60) DEF NotLate, IsNew, LastSeq, WasHandled
    <3> QED BY <3>5, <3>6
  <2>3. InOrder(inbox[s])'
    BY <2>1 DEF InboxInv, InOrder
  <2> QED BY <2>2, <2>3 DEF InboxInv
<1>2. ASSUME NEW s \in Subscriber, NEW p \in Publisher, NEW x \in Topic PROVE Numbered(s, p, x)'
  <2>1. Numbered(s, p, x)
    BY OrderParts DEF NumberInv
  <2>2. topic_map[p][x] \in Nat /\ topic_map'[p][x] \in Nat /\ seq_map[s][p][x] \in Nat
    BY DEF ConnectInv, TypeOK
  <2>3. is_open'[p] => seq_map'[s][p][x] <= topic_map'[p][x]
    BY <2>1, <2>2 DEF Numbered, GoesOn
  <2>4. Ended(p) /\ NoneLeft(s, p, x) => Ended(p)' /\ NoneLeft(s, p, x)'
    BY DEF GoesOn, NoneLeft
  <2>5. WasHandled(s, p, x, seq_map[s][p][x]) => WasHandled(s, p, x, seq_map[s][p][x])'
    BY DEF WasHandled
  <2> QED BY <2>1, <2>3, <2>4, <2>5 DEF Numbered
<1> QED BY <1>1, <1>2 DEF NumberInv

\* A step that leaves the broadcasts and the publishers of other threads alone.
LEMMA OtherCasts ==
  ASSUME CastInv, ConnectInv, OneThreadEach, NEW t \in Thread, NEW u \in Thread, u # t,
         todo'[u] = todo[u], next'[u] = next[u], output_'[u] = output_[u],
         \A p \in Publisher : p # PublisherOf[t] =>
            is_open'[p] = is_open[p] /\ topic_map'[p] = topic_map[p] /\ closing'[p] = closing[p]
  PROVE  Cast(u)' /\ Level(u)'
<1>1. Cast(u) /\ Level(u)
  BY DEF CastInv
<1>2. PublisherOf[u] # PublisherOf[t] /\ PublisherOf[u] \in Publisher
  BY Types DEF OneThreadEach
<1>3. ASSUME NEW i \in DOMAIN todo[u]
      PROVE  LET m == todo[u][i] IN
             /\ m.src = PublisherOf[u] /\ is_open'[m.src]
             /\ IsSample(m) => ~ Ended(m.src)' /\ m.seq_num = topic_map'[m.src][m.topic]
             /\ IsClose(m) => Ended(m.src)'
  <2>1. todo[u][i].src = PublisherOf[u]
    BY <1>1 DEF Cast
  <2> QED BY <1>1, <1>2, <2>1 DEF Cast, Ended
<1>4. Cast(u)'
  BY <1>3 DEF Cast
<1>5. Level(u)'
  BY <1>1 DEF Level
<1> QED BY <1>4, <1>5

\* A broadcast that begins with messages as Cast has them.
LEMMA BeginCast ==
  ASSUME CastInv, ConnectInv, OneThreadEach, NEW t \in Thread, todo[t] = <<>>,
         NEW msgs \in Seq(Message), msgs # <<>>, Broadcast(t, msgs),
         \A p \in Publisher : p # PublisherOf[t] =>
            is_open'[p] = is_open[p] /\ topic_map'[p] = topic_map[p] /\ closing'[p] = closing[p],
         \A i \in DOMAIN msgs :
            /\ msgs[i].src = PublisherOf[t] /\ is_open'[msgs[i].src]
            /\ IsSample(msgs[i]) => ~ Ended(msgs[i].src)'
                                    /\ msgs[i].seq_num = topic_map'[msgs[i].src][msgs[i].topic]
            /\ IsClose(msgs[i]) => Ended(msgs[i].src)'
  PROVE  CastInv'
<1>1. ASSUME NEW u \in Thread PROVE Cast(u)' /\ Level(u)'
  <2>1. CASE u # t
    <3>1. todo'[u] = todo[u] /\ next'[u] = next[u] /\ output_'[u] = output_[u]
      BY <2>1 DEF Broadcast, ConnectInv, TypeOK
    <3> QED BY <2>1, <3>1, OtherCasts
  <2>2. CASE u = t
    <3>1. todo'[t] = msgs /\ next'[t] = Head(msgs).topic /\ output_'[t] = output_[t]
      BY DEF Broadcast, ConnectInv, TypeOK
    <3>2. output_[t] = <<>>
      BY DEF ConnectInv, Casting
    <3>3. DOMAIN output_'[t] = {}
      BY <3>1, <3>2
    <3>4. Level(t)'
      BY <3>1, <3>3 DEF Level
    <3>5. Cast(t)'
      BY <3>1 DEF Cast
    <3> QED BY <2>2, <3>4, <3>5
  <2> QED BY <2>1, <2>2
<1> QED BY <1>1 DEF CastInv

\* publish().
LEMMA PublishOrder ==
  ASSUME OrderInv, ConnectInv, ConnectInv', OneThreadEach,
         NEW t \in Thread, NEW x \in Topic, NEW flags \in Flags, Publish(t, x, flags)
  PROVE  OrderInv'
<1> DEFINE p == PublisherOf[t]
<1>1. p \in Publisher /\ topic_map[p][x] \in Nat
  BY Types
<1>2. PICK n \in Nat \ {0} :
         n = topic_map[p][x] + (IF "RESEND" \notin flags \/ topic_map[p][x] = 0 THEN 1 ELSE 0)
  BY <1>1
<1> DEFINE a == [src |-> p, topic |-> x, flow_code |-> "open"]
           b == [src |-> p, topic |-> x, seq_num |-> n, flags |-> flags]
<1>3. /\ a \in Message /\ ~ IsSample(a) /\ ~ IsClose(a) /\ a.src = p
      /\ b \in Message /\ IsSample(b) /\ ~ IsClose(b) /\ b.src = p /\ b.topic = x /\ b.seq_num = n
  <2>1. a \in Message /\ ~ IsSample(a) /\ a.flow_code = "open" /\ a.src = p
    BY <1>1, NewMessage DEF FlowCode
  <2>2. b \in Message /\ IsSample(b) /\ b.src = p /\ b.topic = x /\ b.seq_num = n
    BY <1>1, <1>2, NewMessage
  <2> QED BY <2>1, <2>2 DEF IsClose
<1>10. /\ todo[t] = <<>> /\ closing[p] = None /\ is_open[p]
       /\ topic_map' = [topic_map EXCEPT ![p][x] = n]
       /\ Broadcast(t, IF topic_map[p][x] = 0 THEN <<a>> \o <<b>> ELSE <<b>>)
       /\ UNCHANGED <<is_open, closing, output, subscriberVars, inbox, seq_map, handled>>
  BY <1>2 DEF Publish, Idle
<1> HIDE DEF a, b
<1>11. PICK msgs : Broadcast(t, msgs) /\ msgs \in {<<a>> \o <<b>>, <<b>>}
  BY <1>10
<1>4. msgs \in Seq(Message) /\ msgs # <<>> /\ \A i \in DOMAIN msgs : msgs[i] \in {a, b}
  <2>1. <<a>> \in Seq({a, b}) /\ <<b>> \in Seq({a, b}) /\ Len(<<a>>) = 1 /\ Len(<<b>>) = 1
    OBVIOUS
  <2>2. <<a>> \o <<b>> \in Seq({a, b}) /\ Len(<<a>> \o <<b>>) = 2
    BY <2>1, ConcatProperties
  <2>3. msgs \in Seq({a, b}) /\ msgs # <<>>
    <3>1. CASE msgs = <<b>>
      BY <3>1, <2>1
    <3>2. CASE msgs = <<a>> \o <<b>>
      <4> DEFINE c == <<a>> \o <<b>>
      <4>1. c \in Seq({a, b}) /\ Len(c) = 2
        BY <2>2
      <4>2. msgs = c
        BY <3>2
      <4> HIDE DEF c
      <4> QED BY <4>1, <4>2, SMTT(60)
    <3> QED BY <3>1, <3>2, <1>11
  <2>4. \A i \in DOMAIN msgs : msgs[i] \in {a, b}
    BY <2>3, Element
  <2>5. {a, b} \subseteq Message
    BY <1>3
  <2> QED BY <2>3, <2>4, <2>5
<1>5. topic_map'[p][x] = n /\ \A q \in Publisher : q # p => topic_map'[q] = topic_map[q]
  BY <1>1, <1>2, <1>10, Types
<1>6. CastInv'
  <2>1. ~ Ended(p)' /\ is_open'[p]
    BY <1>10 DEF Ended
  <2>2. \A i \in DOMAIN msgs :
            /\ msgs[i].src = p /\ is_open'[msgs[i].src]
            /\ IsSample(msgs[i]) => ~ Ended(msgs[i].src)'
                                    /\ msgs[i].seq_num = topic_map'[msgs[i].src][msgs[i].topic]
            /\ IsClose(msgs[i]) => Ended(msgs[i].src)'
    <3> SUFFICES ASSUME NEW i \in DOMAIN msgs
                 PROVE  /\ msgs[i].src = p /\ is_open'[msgs[i].src]
                        /\ IsSample(msgs[i]) => ~ Ended(msgs[i].src)'
                                    /\ msgs[i].seq_num = topic_map'[msgs[i].src][msgs[i].topic]
                        /\ IsClose(msgs[i]) => Ended(msgs[i].src)'
      OBVIOUS
    <3>1. CASE msgs[i] = a
      BY <3>1, <1>3, <2>1
    <3>2. CASE msgs[i] = b
      <4>1. Ended(msgs[i].src)' = Ended(p)'
        BY <3>2, <1>3 DEF Ended
      <4> QED BY <3>2, <4>1, <1>3, <1>5, <2>1
    <3> QED BY <3>1, <3>2, <1>4
  <2>3. CastInv
    BY OrderParts
  <2> QED BY <1>10, <1>11, <1>4, <1>5, <2>2, <2>3, BeginCast
<1>7. GoesOn
  <2>1. \A q \in Publisher, y \in Topic : topic_map[q][y] <= topic_map'[q][y]
    BY <1>1, <1>2, <1>10, Types
  <2> QED BY <1>10, <2>1 DEF GoesOn, Ended
<1>8. (\A s \in Subscriber : InboxInv(s))' /\ NumberInv'
  BY <1>10, <1>7, SameInbox
<1> QED BY <1>6, <1>8, OrderNext

\* close(), up to its end.
LEMMA CloseOrder ==
  ASSUME OrderInv, ConnectInv, ConnectInv', OneThreadEach,
         NEW t \in Thread, Close(t) \/ Closed(t)
  PROVE  OrderInv'
<1> DEFINE p == PublisherOf[t]
           known == {x \in Topic : topic_map[p][x] > 0}
<1>1. p \in Publisher /\ known \in SUBSET Topic /\ t # None
  BY Types, ConstantsAssumption DEF ConstantsAssumption
<1>2. UNCHANGED <<inbox, seq_map, handled>> /\ todo[t] = <<>> /\ is_open \in [Publisher -> BOOLEAN]
      /\ closing \in [Publisher -> Thread \cup {None}]
  BY DEF Close, Closed, Idle, ConnectInv, TypeOK
<1>3. CastInv
  BY OrderParts
<1>4. CASE Close(t)
  <2>1. closing' = [closing EXCEPT ![p] = t] /\ UNCHANGED <<is_open, topic_map>>
        /\ known # {} /\ is_open[p]
    BY <1>4 DEF Close
  <2>2. PICK msgs : /\ Broadcast(t, msgs)
                    /\ \E xs \in Orders(known) :
                         msgs = [i \in DOMAIN xs |->
                                   [src |-> p, topic |-> xs[i], flow_code |-> "close"]]
    BY <1>4 DEF Close
  <2> HIDE DEF known
  <2>3. /\ msgs \in Seq(Message) /\ msgs # <<>>
        /\ \A i \in DOMAIN msgs : msgs[i].src = p /\ IsClose(msgs[i])
    BY <1>1, <2>1, <2>2, CloseMessages
  <2>4. Ended(p)' /\ GoesOn
    <3>1. closing'[p] # None
      BY <1>1, <1>2, <2>1
    <3>2. \A q \in Publisher : closing[q] # None => closing'[q] # None
      BY <1>1, <1>2, <2>1
    <3>3. \A q \in Publisher, x \in Topic : topic_map[q][x] <= topic_map'[q][x]
      BY <2>1, Types
    <3> QED BY <2>1, <3>1, <3>2, <3>3 DEF GoesOn, Ended
  <2>5. \A q \in Publisher : q # p =>
           is_open'[q] = is_open[q] /\ topic_map'[q] = topic_map[q] /\ closing'[q] = closing[q]
    BY <1>2, <2>1
  <2>6. \A i \in DOMAIN msgs :
            /\ msgs[i].src = PublisherOf[t] /\ is_open'[msgs[i].src]
            /\ IsSample(msgs[i]) => ~ Ended(msgs[i].src)'
                                    /\ msgs[i].seq_num = topic_map'[msgs[i].src][msgs[i].topic]
            /\ IsClose(msgs[i]) => Ended(msgs[i].src)'
    <3> SUFFICES ASSUME NEW i \in DOMAIN msgs
                 PROVE  /\ msgs[i].src = p /\ is_open'[msgs[i].src]
                        /\ ~ IsSample(msgs[i]) /\ Ended(msgs[i].src)'
      OBVIOUS
    <3>1. msgs[i].src = p /\ ~ IsSample(msgs[i])
      BY <2>3 DEF IsClose
    <3> QED BY <2>1, <2>4, <3>1 DEF Ended
  <2>7. CastInv'
    BY <1>2, <1>3, <2>2, <2>3, <2>5, <2>6, BeginCast
  <2>8. (\A s \in Subscriber : InboxInv(s))' /\ NumberInv'
    BY <1>2, <2>4, SameInbox
  <2> QED BY <2>7, <2>8, OrderNext
<1>5. CASE Closed(t)
  <2>1. /\ UNCHANGED castVars /\ closing' = [closing EXCEPT ![p] = None]
        /\ is_open' = [is_open EXCEPT ![p] = FALSE]
        /\ topic_map' = [topic_map EXCEPT ![p] = [x \in Topic |-> 0]]
    BY <1>5 DEF Closed
  <2>2. \A q \in Publisher : q # p =>
           is_open'[q] = is_open[q] /\ topic_map'[q] = topic_map[q] /\ closing'[q] = closing[q]
    BY <1>2, <2>1, Types
  <2>3. is_open'[p] = FALSE
    BY <1>1, <1>2, <2>1
  <2>4. GoesOn
    <3> SUFFICES ASSUME NEW q \in Publisher
                 PROVE  /\ is_open'[q] => is_open[q] /\ \A x \in Topic : topic_map[q][x] <= topic_map'[q][x]
                        /\ Ended(q) => Ended(q)'
      BY DEF GoesOn
    <3>1. CASE q = p
      BY <3>1, <2>3 DEF Ended
    <3>2. CASE q # p
      BY <3>2, <2>2, Types DEF Ended
    <3> QED BY <3>1, <3>2
  <2>5. CastInv'
    <3>1. ASSUME NEW u \in Thread PROVE Cast(u)' /\ Level(u)'
      <4>1. CASE u # t
        <5>1. todo'[u] = todo[u] /\ next'[u] = next[u] /\ output_'[u] = output_[u]
          BY <2>1 DEF castVars
        <5> QED BY <4>1, <5>1, <1>3, <2>2, OtherCasts
      <4>2. CASE u = t
        <5>1. output_[t] = <<>>
          BY <1>2 DEF ConnectInv, Casting
        <5>2. todo'[t] = <<>> /\ DOMAIN todo'[t] = {} /\ DOMAIN output_'[t] = {}
          BY <1>2, <5>1, <2>1 DEF castVars
        <5> QED BY <4>2, <5>2 DEF Cast, Level
      <4> QED BY <4>1, <4>2
    <3> QED BY <3>1 DEF CastInv
  <2>6. (\A s \in Subscriber : InboxInv(s))' /\ NumberInv'
    BY <1>2, <2>4, SameInbox
  <2> QED BY <2>5, <2>6, OrderNext
<1> QED BY <1>4, <1>5

\* A broadcast that goes on, at the same priority.
LEMMA ContinueOrder ==
  ASSUME CastInv, ConnectInv, OneThreadEach, UNCHANGED publisherVars,
         NEW t \in Thread, todo[t] # <<>>,
         NEW at \in Topic \cup {None}, NEW pipes \in Seq(Pipe), Continue(t, todo[t], at, pipes),
         at # None => Priority[at] = Priority[Head(todo[t]).topic],
         \A i \in DOMAIN pipes : Priority[pipes[i].topic] = Priority[Head(todo[t]).topic]
  PROVE  CastInv'
<1>1. ASSUME NEW u \in Thread, u # t PROVE Cast(u)' /\ Level(u)'
  <2>1. todo'[u] = todo[u] /\ next'[u] = next[u] /\ output_'[u] = output_[u]
    BY <1>1 DEF Continue, ConnectInv, TypeOK
  <2> QED BY <1>1, <2>1, OtherCasts DEF publisherVars
<1>2. Cast(t) /\ todo[t] \in Seq(Message)
  BY Types DEF CastInv
<1>3. \/ todo'[t] = todo[t] /\ next'[t] = at /\ output_'[t] = pipes
      \/ /\ todo'[t] = Tail(todo[t]) /\ output_'[t] = <<>>
         /\ todo'[t] # <<>> => next'[t] = Head(todo'[t]).topic
  <2>1. /\ todo' = [todo EXCEPT ![t] = IF pipes = <<>> /\ at = None THEN Tail(todo[t]) ELSE todo[t]]
        /\ output_' = [output_ EXCEPT ![t] = pipes]
        /\ next' = [next EXCEPT ![t] =
             IF (IF pipes = <<>> /\ at = None THEN Tail(todo[t]) ELSE todo[t]) # todo[t]
                /\ (IF pipes = <<>> /\ at = None THEN Tail(todo[t]) ELSE todo[t]) # <<>>
             THEN Head(IF pipes = <<>> /\ at = None THEN Tail(todo[t]) ELSE todo[t]).topic ELSE at]
    BY DEF Continue
  <2>2. CASE ~ (pipes = <<>> /\ at = None)
    BY <2>1, <2>2 DEF ConnectInv, TypeOK
  <2>3. CASE pipes = <<>> /\ at = None
    <3>1. todo[t] \in Seq(Message) /\ Len(todo[t]) \in Nat /\ Len(Tail(todo[t])) = Len(todo[t]) - 1
      BY <1>2
    <3>2. Tail(todo[t]) # todo[t]
      <4>1. Len(Tail(todo[t])) # Len(todo[t])
        BY <3>1
      <4> QED BY <4>1, Zenon
    <3> QED BY <2>1, <2>3, <3>2 DEF ConnectInv, TypeOK
  <2> QED BY <2>2, <2>3
<1>4. Cast(t)'
  <2>1. \A i \in DOMAIN todo'[t] : \E j \in DOMAIN todo[t] : todo'[t][i] = todo[t][j]
    <3>1. \A i \in DOMAIN Tail(todo[t]) : i + 1 \in DOMAIN todo[t] /\ Tail(todo[t])[i] = todo[t][i + 1]
      BY <1>2, Left
    <3>2. todo'[t] = todo[t] \/ todo'[t] = Tail(todo[t])
      BY <1>3
    <3> QED BY <3>1, <3>2
  <2>2. ASSUME NEW i \in DOMAIN todo'[t]
        PROVE  LET m == todo'[t][i] IN
               /\ m.src = PublisherOf[t] /\ is_open[m.src]
               /\ IsSample(m) => ~ Ended(m.src) /\ m.seq_num = topic_map[m.src][m.topic]
               /\ IsClose(m) => Ended(m.src)
    <3>1. PICK j \in DOMAIN todo[t] : todo'[t][i] = todo[t][j]
      BY <2>1
    <3> QED BY <1>2, <3>1 DEF Cast
  <2> QED BY <2>2 DEF Cast, Ended, publisherVars
<1>5. Level(t)'
  <2>1. CASE todo'[t] = todo[t] /\ next'[t] = at /\ output_'[t] = pipes
    BY <2>1 DEF Level
  <2>2. CASE output_'[t] = <<>> /\ (todo'[t] # <<>> => next'[t] = Head(todo'[t]).topic)
    <3>1. DOMAIN output_'[t] = {}
      BY <2>2
    <3> QED BY <2>2, <3>1 DEF Level
  <2> QED BY <1>3, <2>1, <2>2
<1> QED BY <1>1, <1>4, <1>5 DEF CastInv

\* broadcast() copies the list of a topic.
LEMMA CopyOrder ==
  ASSUME OrderInv, ConnectInv, ConnectInv', OneThreadEach, DomainPriority,
         NEW t \in Thread, Copy(t)
  PROVE  OrderInv'
<1>1. todo[t] # <<>> /\ output_[t] = <<>>
      /\ Continue(t, todo[t], Parent[next[t]], output[next[t]])
      /\ UNCHANGED <<publisherVars, output, subscriberVars, inbox, seq_map, handled>>
  BY DEF Copy, Idle
<1>2. CastInv
  BY OrderParts
<1>3. next[t] \in Topic /\ next[t] # None
  BY <1>1, ConstantsAssumption DEF ConnectInv, Casting, TypeOK, ConstantsAssumption
<1>4. Parent[next[t]] \in Topic \cup {None} /\ output[next[t]] \in Seq(Pipe)
  BY <1>3, ConstantsAssumption DEF ConstantsAssumption, ConnectInv, TypeOK
<1>5. Priority[next[t]] = Priority[Head(todo[t]).topic]
  BY <1>1, <1>2, <1>3 DEF CastInv, Level
<1>6. Parent[next[t]] # None => Priority[Parent[next[t]]] = Priority[Head(todo[t]).topic]
  BY <1>3, <1>5 DEF DomainPriority
<1>7. \A i \in DOMAIN output[next[t]] :
        Priority[output[next[t]][i].topic] = Priority[Head(todo[t]).topic]
  BY <1>3, <1>5 DEF ConnectInv, Listed
<1>8. UNCHANGED publisherVars
  BY <1>1
<1>9. CastInv'
  <2>1. PICK at \in Topic \cup {None}, pipes \in Seq(Pipe) :
           /\ Continue(t, todo[t], at, pipes)
           /\ at # None => Priority[at] = Priority[Head(todo[t]).topic]
           /\ \A i \in DOMAIN pipes : Priority[pipes[i].topic] = Priority[Head(todo[t]).topic]
    BY <1>1, <1>4, <1>6, <1>7
  <2> QED BY <1>1, <1>2, <1>8, <2>1, ContinueOrder
<1>10. GoesOn
  BY <1>8, Types DEF GoesOn, Ended, publisherVars
<1>11. (\A s \in Subscriber : InboxInv(s))' /\ NumberInv'
  BY <1>1, <1>10, SameInbox
<1> QED BY <1>9, <1>11, OrderNext

\* The end of the messages in a module's pipes when one is added.
LEMMA PushOrder ==
  ASSUME OrderInv, ConnectInv, ConnectInv', NEW t \in Thread, UNCHANGED publisherVars,
         output_[t] # <<>>, todo[t] # <<>>, Push(Head(output_[t]), Head(todo[t])),
         UNCHANGED <<seq_map, handled>>
  PROVE  (\A s \in Subscriber : InboxInv(s))' /\ NumberInv'
<1>1. CASE UNCHANGED inbox
  <2>1. GoesOn
    BY Types DEF GoesOn, Ended, publisherVars
  <2> QED BY <1>1, <2>1, SameInbox
<1>2. CASE ~ UNCHANGED inbox
  <2>1. PICK p, m : p = Head(output_[t]) /\ m = Head(todo[t])
    OBVIOUS
  <2>2. m \in Message /\ p \in Pipe /\ m = todo[t][1] /\ 1 \in DOMAIN todo[t]
        /\ p = output_[t][1] /\ 1 \in DOMAIN output_[t]
    BY <2>1, Types, Left
  <2>3. PICK s \in Subscriber : s = p.node
    BY <2>2 DEF Pipe
  <2>4. inbox' = [inbox EXCEPT ![s] = Append(inbox[s], [pipe |-> p, msg |-> m])]
    BY <1>2, <2>1, <2>3, Pushed
  <2> DEFINE e == [pipe |-> p, msg |-> m]
  <2>5. e.pipe = p /\ e.msg = m /\ e \in [pipe : Pipe, msg : Message]
    BY <2>2
  <2> HIDE DEF e
  <2>6. inbox'[s] = Append(inbox[s], e) /\ \A r \in Subscriber : r # s => inbox'[r] = inbox[r]
    BY <2>4 DEF ConnectInv, TypeOK, e
  <2>7. /\ inbox[s] \in Seq([pipe : Pipe, msg : Message]) /\ Len(inbox[s]) \in Nat
        /\ DOMAIN inbox'[s] = 1..(Len(inbox[s]) + 1) /\ DOMAIN inbox[s] = 1..Len(inbox[s])
        /\ \A i \in DOMAIN inbox[s] : inbox'[s][i] = inbox[s][i]
        /\ inbox'[s][Len(inbox[s]) + 1] = e
    <3>1. inbox[s] \in Seq([pipe : Pipe, msg : Message])
      BY Types
    <3>2. \A S : \A q \in Seq(S), y \in S :
             /\ Len(q) \in Nat /\ DOMAIN Append(q, y) = 1..(Len(q) + 1) /\ DOMAIN q = 1..Len(q)
             /\ \A i \in DOMAIN q : Append(q, y)[i] = q[i]
             /\ Append(q, y)[Len(q) + 1] = y
      BY Appended
    <3> QED BY <3>1, <3>2, <2>5, <2>6
  <2>8. /\ m.src \in Publisher /\ m.topic \in Topic /\ (IsSample(m) => m.seq_num \in Nat \ {0})
        /\ topic_map[m.src][m.topic] \in Nat /\ seq_map[s][m.src][m.topic] \in Nat
    <3>1. m.src \in Publisher /\ m.topic \in Topic /\ (IsSample(m) => m.seq_num \in Nat \ {0})
      BY <2>2, MessageType
    <3> QED BY <3>1, Types
  <2>9. /\ is_open[m.src]
        /\ IsSample(m) => ~ Ended(m.src) /\ m.seq_num = topic_map[m.src][m.topic]
        /\ IsClose(m) => Ended(m.src)
        /\ Priority[p.topic] = Priority[m.topic]
    BY <2>1, <2>2, OrderParts DEF CastInv, Cast, Level
  <2>10. Sent(s, e)
    BY <2>5, <2>8, <2>9, SMTT(60) DEF Sent
  <2>11. NotLate(s, m)
    <3>1. Numbered(s, m.src, m.topic)
      BY <2>8, OrderParts DEF NumberInv
    <3> QED BY <2>8, <2>9, <3>1, LastNotLate
  <2>12. ASSUME NEW i \in DOMAIN inbox[s] PROVE Ordered(inbox[s][i].msg, m)
    <3>1. Sent(s, inbox[s][i])
      BY OrderParts DEF InboxInv
    <3>2. IsSample(inbox[s][i].msg) => inbox[s][i].msg.seq_num \in Nat
      BY EntryType
    <3> QED BY <3>1, <3>2, <2>8, <2>9 DEF Sent, Ordered
  <2>13. ASSUME NEW r \in Subscriber PROVE InboxInv(r)'
    <3>1. InboxInv(r)
      BY OrderParts, SMTT(60)
    <3>2. \A x : (Sent(r, x) => Sent(r, x)') /\ (NotLate(r, x.msg) => NotLate(r, x.msg)')
      BY DEF Sent, NotLate, IsNew, LastSeq, WasHandled, Ended, publisherVars
    <3>3. CASE r # s
      <4>1. inbox'[r] = inbox[r]
        BY <3>3, <2>6
      <4> QED BY <3>1, <3>2, <4>1 DEF InboxInv
    <3>4. CASE r = s
      <4>1. \A i \in DOMAIN inbox'[s] : i \in DOMAIN inbox[s] \/ i = Len(inbox[s]) + 1
        BY <2>7
      <4>2. \A i \in DOMAIN inbox'[s] : Sent(s, inbox'[s][i]) /\ NotLate(s, inbox'[s][i].msg)
        BY <3>1, <3>4, <4>1, <2>5, <2>7, <2>10, <2>11 DEF InboxInv
      <4>3. InOrder(inbox'[s])
        <5> SUFFICES ASSUME NEW i \in DOMAIN inbox'[s], NEW j \in DOMAIN inbox'[s], i < j
                     PROVE  Ordered(inbox'[s][i].msg, inbox'[s][j].msg)
          BY DEF InOrder
        <5>1. i \in DOMAIN inbox[s]
          BY <2>7
        <5>2. CASE j \in DOMAIN inbox[s]
          BY <3>1, <3>4, <5>1, <5>2, <2>7 DEF InboxInv, InOrder
        <5>3. CASE j = Len(inbox[s]) + 1
          BY <5>1, <5>3, <2>5, <2>7, <2>12
        <5> QED BY <4>1, <5>2, <5>3
      <4> QED BY <3>2, <3>4, <4>2, <4>3 DEF InboxInv
    <3> QED BY <3>3, <3>4
  <2>14. ASSUME NEW r \in Subscriber, NEW q \in Publisher, NEW x \in Topic PROVE Numbered(r, q, x)'
    <3>1. Numbered(r, q, x)
      BY OrderParts DEF NumberInv
    <3>2. Ended(q) /\ NoneLeft(r, q, x) => Ended(q)' /\ NoneLeft(r, q, x)'
      <4> SUFFICES ASSUME Ended(q), NoneLeft(r, q, x) PROVE Ended(q)' /\ NoneLeft(r, q, x)'
        OBVIOUS
      <4>1. Ended(q)'
        BY DEF Ended, publisherVars
      <4>2. CASE r # s
        BY <4>1, <4>2, <2>6 DEF NoneLeft
      <4>3. CASE r = s
        <5>1. ~ (IsSample(m) /\ m.src = q)
          BY <2>9
        <5> QED BY <4>1, <4>3, <5>1, <2>5, <2>7, SMTT(60) DEF NoneLeft
      <4> QED BY <4>2, <4>3
    <3>3. topic_map' = topic_map /\ is_open' = is_open /\ seq_map' = seq_map /\ handled' = handled
      BY DEF publisherVars
    <3>4. WasHandled(r, q, x, seq_map[r][q][x]) <=> WasHandled(r, q, x, seq_map[r][q][x])'
      BY <3>3 DEF WasHandled
    <3> QED BY <3>1, <3>2, <3>3, <3>4 DEF Numbered
  <2> QED BY <2>13, <2>14 DEF NumberInv
<1> QED BY <1>1, <1>2

\* broadcast() sends to a pipe.
LEMMA SendOrder ==
  ASSUME OrderInv, ConnectInv, ConnectInv', OneThreadEach, NEW t \in Thread, Send(t)
  PROVE  OrderInv'
<1>1. /\ output_[t] # <<>> /\ Push(Head(output_[t]), Head(todo[t]))
      /\ Continue(t, todo[t], next[t], Tail(output_[t]))
      /\ UNCHANGED <<publisherVars, output, subscriberVars, seq_map, handled>>
  BY DEF Send
<1>2. CastInv
  BY OrderParts
<1>3. todo[t] # <<>> /\ next[t] \in Topic \cup {None} /\ output_[t] \in Seq(Pipe)
  BY <1>1 DEF ConnectInv, Casting, TypeOK
<1>4. Tail(output_[t]) \in Seq(Pipe)
      /\ \A i \in DOMAIN Tail(output_[t]) :
           i + 1 \in DOMAIN output_[t] /\ Tail(output_[t])[i] = output_[t][i + 1]
  BY <1>1, <1>3, Left
<1>5. CastInv'
  <2>1. Level(t)
    BY <1>2 DEF CastInv
  <2>2. PICK at \in Topic \cup {None}, pipes \in Seq(Pipe) :
           /\ Continue(t, todo[t], at, pipes)
           /\ at # None => Priority[at] = Priority[Head(todo[t]).topic]
           /\ \A i \in DOMAIN pipes : Priority[pipes[i].topic] = Priority[Head(todo[t]).topic]
    BY <1>1, <1>3, <1>4, <2>1 DEF Level
  <2> QED BY <1>1, <1>2, <1>3, <2>2, ContinueOrder
<1>6. (\A s \in Subscriber : InboxInv(s))' /\ NumberInv'
  BY <1>1, <1>3, PushOrder
<1> QED BY <1>5, <1>6, OrderNext

\* subscribe() changes nothing of it.
LEMMA SubscribeOrder ==
  ASSUME OrderInv, ConnectInv, ConnectInv', NEW s \in Subscriber, NEW x \in Topic,
         Subscribe(s, x)
  PROVE  OrderInv'
<1>1. UNCHANGED <<publisherVars, castVars, inbox, seq_map, handled>>
  BY DEF Subscribe
<1>2. CastInv
  BY OrderParts
<1>3. CastInv'
  BY <1>1, <1>2 DEF CastInv, Cast, Level, Ended, publisherVars, castVars
<1>4. GoesOn
  BY <1>1, Types DEF GoesOn, Ended, publisherVars
<1> QED BY <1>1, <1>3, <1>4, SameInbox, OrderNext

\* Nothing but the pipes of module s changes, where some messages are removed.
LEMMA PicksOrder ==
  ASSUME OrderInv, ConnectInv, ConnectInv', NEW s \in Subscriber, NEW f,
         UNCHANGED <<publisherVars, castVars, seq_map, handled>>,
         \A r \in Subscriber : r # s => inbox'[r] = inbox[r],
         Picks(inbox'[s], inbox[s], f)
  PROVE  OrderInv'
<1>1. CastInv
  BY OrderParts
<1>2. CastInv'
  BY <1>1 DEF CastInv, Cast, Level, Ended, publisherVars, castVars
<1>3. \A x, r : (Sent(r, x) => Sent(r, x)') /\ (NotLate(r, x.msg) => NotLate(r, x.msg)')
  BY DEF Sent, NotLate, IsNew, LastSeq, WasHandled, Ended, publisherVars
<1>4. InboxInv(s)
  BY OrderParts
<1>5. \A i \in DOMAIN inbox'[s] : f[i] \in DOMAIN inbox[s] /\ inbox'[s][i] = inbox[s][f[i]]
  BY DEF Picks
<1>6. ASSUME NEW r \in Subscriber PROVE InboxInv(r)'
  <2>1. CASE r # s
    <3>1. InboxInv(r) /\ inbox'[r] = inbox[r]
      BY <2>1, OrderParts
    <3> QED BY <3>1, <1>3 DEF InboxInv
  <2>2. CASE r = s
    <3>1. \A i, j \in DOMAIN inbox'[s] : i < j => f[i] < f[j]
      BY DEF Picks
    <3>2. InOrder(inbox'[s])
      BY <1>4, <1>5, <3>1 DEF InboxInv, InOrder
    <3>3. \A i \in DOMAIN inbox'[s] : Sent(s, inbox'[s][i]) /\ NotLate(s, inbox'[s][i].msg)
      BY <1>4, <1>5 DEF InboxInv
    <3> QED BY <1>3, <2>2, <3>2, <3>3 DEF InboxInv
  <2> QED BY <2>1, <2>2
<1>7. ASSUME NEW r \in Subscriber, NEW q \in Publisher, NEW x \in Topic PROVE Numbered(r, q, x)'
  <2>1. Numbered(r, q, x)
    BY OrderParts DEF NumberInv
  <2>2. Ended(q) /\ NoneLeft(r, q, x) => Ended(q)' /\ NoneLeft(r, q, x)'
    <3>1. Ended(q) => Ended(q)'
      BY DEF Ended, publisherVars
    <3>2. NoneLeft(r, q, x) => NoneLeft(r, q, x)'
      BY <1>5 DEF NoneLeft
    <3> QED BY <3>1, <3>2
  <2>3. topic_map' = topic_map /\ is_open' = is_open /\ seq_map' = seq_map /\ handled' = handled
    BY DEF publisherVars
  <2>4. WasHandled(r, q, x, seq_map[r][q][x]) <=> WasHandled(r, q, x, seq_map[r][q][x])'
    BY <2>3 DEF WasHandled
  <2> QED BY <2>1, <2>2, <2>3, <2>4 DEF Numbered
<1> QED BY <1>2, <1>6, <1>7, OrderNext DEF NumberInv

\* unsubscribe() drops messages of one pipe.
LEMMA UnsubscribeOrder ==
  ASSUME OrderInv, ConnectInv, ConnectInv', NEW s \in Subscriber, NEW x \in Topic,
         Unsubscribe(s, x)
  PROVE  OrderInv'
<1>1. UNCHANGED <<publisherVars, castVars, seq_map, handled>>
  BY DEF Unsubscribe
<1>2. CASE UNCHANGED inbox
  <2>1. CastInv
    BY OrderParts
  <2>2. CastInv'
    BY <1>1, <2>1 DEF CastInv, Cast, Level, Ended, publisherVars, castVars
  <2>3. GoesOn
    BY <1>1, Types DEF GoesOn, Ended, publisherVars
  <2> QED BY <1>1, <1>2, <2>2, <2>3, SameInbox, OrderNext
<1>3. CASE ~ UNCHANGED inbox
  <2> DEFINE left == {i \in DOMAIN inbox[s] : inbox[s][i].pipe # Current(s, x)}
  <2>1. PICK f \in Orders(left) :
           /\ \A i, j \in DOMAIN f : i < j => f[i] < f[j]
           /\ inbox' = [inbox EXCEPT ![s] = [i \in DOMAIN f |-> inbox[s][f[i]]]]
    BY <1>3 DEF Unsubscribe
  <2>2. left \in SUBSET DOMAIN inbox[s] /\ inbox[s] \in Seq([pipe : Pipe, msg : Message])
    BY Types
  <2> HIDE DEF left
  <2>3. Picks([i \in DOMAIN f |-> inbox[s][f[i]]], inbox[s], f)
    BY <2>1, <2>2, MessagesLeft
  <2>4. inbox'[s] = [i \in DOMAIN f |-> inbox[s][f[i]]]
        /\ \A r \in Subscriber : r # s => inbox'[r] = inbox[r]
    BY <2>1 DEF ConnectInv, TypeOK
  <2>5. Picks(inbox'[s], inbox[s], f)
    BY <2>3, <2>4
  <2> QED BY <1>1, <2>4, <2>5, PicksOrder
<1> QED BY <1>2, <1>3

\* handle().
LEMMA HandleOrder ==
  ASSUME OrderInv, ConnectInv, ConnectInv', NEW s \in Subscriber, Handle(s)
  PROVE  OrderInv'
<1>1. PICK i : Reads(s, i)
  BY HandleReads
<1>2. PICK m : m = inbox[s][i].msg
  OBVIOUS
<1>3. i \in DOMAIN inbox[s] /\ inbox' = [inbox EXCEPT ![s] = Seqs!RemoveAt(inbox[s], i)]
      /\ HandleMessage(s, m) /\ UNCHANGED <<publisherVars, castVars, output, subscriberVars>>
      /\ \A k \in 1..(i - 1) : Priority[inbox[s][k].pipe.topic] # Priority[inbox[s][i].pipe.topic]
  BY <1>1, <1>2 DEF Reads
<1>4. inbox[s] \in Seq([pipe : Pipe, msg : Message]) /\ DOMAIN inbox[s] = 1..Len(inbox[s])
      /\ Len(inbox[s]) \in Nat
  <2>1. inbox[s] \in Seq([pipe : Pipe, msg : Message])
    BY Types
  <2> QED BY <2>1
<1>5. inbox'[s] = Seqs!RemoveAt(inbox[s], i) /\ \A r \in Subscriber : r # s => inbox'[r] = inbox[r]
  BY <1>3 DEF ConnectInv, TypeOK
<1>6. PICK f : PicksAllBut(inbox'[s], inbox[s], i, f)
  BY <1>3, <1>4, <1>5, Removed
<1>7. Picks(inbox'[s], inbox[s], f)
  BY <1>6 DEF PicksAllBut
<1>8. \A k \in DOMAIN inbox'[s] :
        f[k] \in DOMAIN inbox[s] /\ inbox'[s][k] = inbox[s][f[k]] /\ f[k] # i
  BY <1>6 DEF PicksAllBut, Picks
<1>9. /\ m.src \in Publisher /\ m.topic \in Topic /\ (IsSample(m) => m.seq_num \in Nat \ {0})
      /\ Sent(s, inbox[s][i]) /\ NotLate(s, m) /\ InboxInv(s)
  BY <1>2, <1>3, EntryType, OrderParts DEF InboxInv
<1>10. ASSUME NEW j \in DOMAIN inbox[s], j # i,
              inbox[s][j].msg.src = m.src, inbox[s][j].msg.topic = m.topic
       PROVE  Ordered(m, inbox[s][j].msg)
  <2>1. Sent(s, inbox[s][j])
    BY <1>9, SMTT(60) DEF InboxInv
  <2>2. Priority[inbox[s][j].pipe.topic] = Priority[inbox[s][i].pipe.topic]
    BY <1>2, <1>9, <1>10, <2>1 DEF Sent
  <2>3. ~ (j \in 1..(i - 1))
    BY <1>3, <2>2
  <2>4. i < j
    BY <1>3, <1>4, <1>10, <2>3
  <2> QED BY <1>2, <1>3, <1>9, <2>4 DEF InboxInv, InOrder
<1>11. CASE UNCHANGED <<seq_map, handled>>
  <2>1. UNCHANGED <<publisherVars, castVars, seq_map, handled>>
    BY <1>3, <1>11
  <2> QED BY <1>5, <1>7, <2>1, PicksOrder
<1>12. CASE ~ UNCHANGED <<seq_map, handled>>
  <2>1. \/ /\ IsSample(m) /\ m.seq_num > seq_map[s][m.src][m.topic]
           /\ seq_map' = [seq_map EXCEPT ![s][m.src][m.topic] = m.seq_num]
           /\ handled' = [handled EXCEPT ![s][m.src][m.topic] = Append(@, m.seq_num)]
        \/ /\ IsClose(m) /\ seq_map' = [seq_map EXCEPT ![s][m.src][m.topic] = 0]
           /\ UNCHANGED handled
    BY <1>3, <1>12 DEF HandleMessage, HandleSample, HandleFlow, IsNew, LastSeq, IsSample, IsClose
  <2>2. \A r \in Subscriber, q \in Publisher, x \in Topic :
           ~ (r = s /\ q = m.src /\ x = m.topic) =>
              seq_map'[r][q][x] = seq_map[r][q][x] /\ handled'[r][q][x] = handled[r][q][x]
    <3>1. seq_map \in [Subscriber -> [Publisher -> [Topic -> Nat]]]
          /\ handled \in [Subscriber -> [Publisher -> [Topic -> Seq(Nat)]]]
      BY Types
    <3>2. CASE /\ seq_map' = [seq_map EXCEPT ![s][m.src][m.topic] = m.seq_num]
               /\ handled' = [handled EXCEPT ![s][m.src][m.topic] = Append(@, m.seq_num)]
      BY <1>9, <3>1, <3>2, SMTT(60)
    <3>3. CASE seq_map' = [seq_map EXCEPT ![s][m.src][m.topic] = 0] /\ UNCHANGED handled
      BY <1>9, <3>1, <3>3
    <3> QED BY <2>1, <3>2, <3>3
  <2>3. \/ /\ IsSample(m) /\ m.seq_num > seq_map[s][m.src][m.topic]
           /\ seq_map'[s][m.src][m.topic] = m.seq_num
           /\ handled'[s][m.src][m.topic] = Append(handled[s][m.src][m.topic], m.seq_num)
        \/ /\ IsClose(m) /\ seq_map'[s][m.src][m.topic] = 0
           /\ handled'[s][m.src][m.topic] = handled[s][m.src][m.topic]
    <3>1. seq_map \in [Subscriber -> [Publisher -> [Topic -> Nat]]]
          /\ handled \in [Subscriber -> [Publisher -> [Topic -> Seq(Nat)]]]
      BY Types
    <3>2. CASE /\ seq_map' = [seq_map EXCEPT ![s][m.src][m.topic] = m.seq_num]
               /\ handled' = [handled EXCEPT ![s][m.src][m.topic] = Append(@, m.seq_num)]
               /\ IsSample(m) /\ m.seq_num > seq_map[s][m.src][m.topic]
      BY <1>9, <3>1, <3>2
    <3>3. CASE IsClose(m) /\ seq_map' = [seq_map EXCEPT ![s][m.src][m.topic] = 0] /\ UNCHANGED handled
      BY <1>9, <3>1, <3>3
    <3> QED BY <2>1, <3>2, <3>3, ZenonT(60)
  <2> DEFINE h == handled[s][m.src][m.topic]
             n == seq_map[s][m.src][m.topic]
  <2>4. h \in Seq(Nat) /\ n \in Nat /\ topic_map[m.src][m.topic] \in Nat
    BY <1>9, Types, SMTT(60)
  <2>5. IsSample(m) => WasHandled(s, m.src, m.topic, m.seq_num)'
    <3> SUFFICES ASSUME IsSample(m) PROVE WasHandled(s, m.src, m.topic, m.seq_num)'
      OBVIOUS
    <3>1. handled'[s][m.src][m.topic] = Append(h, m.seq_num) /\ m.seq_num \in Nat
      BY <1>9, <2>3, ZenonT(60) DEF IsClose
    <3>2. Len(h) + 1 \in DOMAIN Append(h, m.seq_num) /\ Append(h, m.seq_num)[Len(h) + 1] = m.seq_num
      <4> HIDE DEF h
      <4> QED BY <2>4, <3>1, Appended
    <3> QED BY <3>1, <3>2, ZenonT(60) DEF WasHandled
  <2>6. CastInv'
    <3>1. CastInv
      BY OrderParts
    <3> QED BY <1>3, <3>1 DEF CastInv, Cast, Level, Ended, publisherVars, castVars
  <2>7. \A r, e : Sent(r, e) => Sent(r, e)'
    BY <1>3 DEF Sent, Ended, publisherVars
  <2>8. ASSUME NEW r \in Subscriber, NEW k \in Message,
               ~ (r = s /\ k.src = m.src /\ k.topic = m.topic), NotLate(r, k)
        PROVE  NotLate(r, k)'
    <3>1. k.src \in Publisher /\ k.topic \in Topic
      BY MessageType
    <3> QED BY <2>2, <2>8, <3>1 DEF NotLate, IsNew, LastSeq, WasHandled
  <2>9. ASSUME NEW r \in Subscriber, r # s PROVE InboxInv(r)'
    <3>0. InboxInv(r)
      BY OrderParts
    <3>1. InboxInv(r) /\ inbox'[r] = inbox[r]
      BY <1>5, <2>9, <3>0
    <3>2. ASSUME NEW j \in DOMAIN inbox[r] PROVE NotLate(r, inbox[r][j].msg)'
      <4>1. NotLate(r, inbox[r][j].msg) /\ inbox[r][j].msg \in Message
        BY <3>1, EntryType DEF InboxInv
      <4>2. PICK k \in Message : k = inbox[r][j].msg
        BY <4>1
      <4>3. NotLate(r, k)'
        BY <4>1, <4>2, <2>8, <2>9
      <4> QED BY <3>1, <4>2, <4>3, ZenonT(60) DEF NotLate, IsNew, LastSeq, WasHandled
    <3> QED BY <3>1, <3>2, <2>7 DEF InboxInv
  <2>10. ASSUME NEW j \in DOMAIN inbox[s], j # i, NEW k \in Message, k = inbox[s][j].msg
         PROVE  NotLate(s, k)'
    <3>1. NotLate(s, k)
      BY <1>9, <2>10 DEF InboxInv
    <3>2. CASE ~ (k.src = m.src /\ k.topic = m.topic)
      BY <3>1, <3>2, <2>8, ZenonT(60)
    <3>3. CASE k.src = m.src /\ k.topic = m.topic
      <4>1. Ordered(m, k) /\ (IsSample(k) => k.seq_num \in Nat \ {0})
        BY <2>10, <3>3, <1>10, MessageType
      <4>2. CASE IsSample(m) /\ seq_map'[s][m.src][m.topic] = m.seq_num
        BY <3>3, <4>1, <4>2, <1>9, <2>5 DEF NotLate, IsNew, LastSeq, WasHandled, Ordered
      <4>3. CASE seq_map'[s][m.src][m.topic] = 0
        BY <3>3, <4>1, <4>3 DEF NotLate, IsNew, LastSeq
      <4> QED BY <4>2, <4>3, <2>3, ZenonT(60)
    <3> QED BY <3>2, <3>3
  <2>11. InboxInv(s)'
    <3>1. InOrder(inbox'[s])
      BY <1>7, <1>9 DEF InboxInv, InOrder, Picks
    <3>2. \A k \in DOMAIN inbox'[s] : Sent(s, inbox'[s][k])
      BY <1>8, <1>9 DEF InboxInv
    <3>3. ASSUME NEW k \in DOMAIN inbox'[s] PROVE NotLate(s, inbox[s][k].msg)'
      <4>1. inbox'[s][k] = inbox[s][f[k]] /\ f[k] \in DOMAIN inbox[s] /\ f[k] # i
        BY <1>8
      <4>2. PICK j \in DOMAIN inbox[s] : j = f[k] /\ j # i
        BY <4>1
      <4>3. PICK msg \in Message : msg = inbox[s][j].msg
        BY EntryType
      <4>4. NotLate(s, msg)' /\ inbox'[s][k].msg = msg
        BY <4>1, <4>2, <4>3, <2>10
      <4> QED BY <4>4 DEF NotLate, IsNew, LastSeq, WasHandled
    <3> QED BY <3>1, <3>2, <3>3, <2>7 DEF InboxInv
  <2>12. ASSUME NEW r \in Subscriber, NEW q \in Publisher, NEW x \in Topic PROVE Numbered(r, q, x)'
    <3>1. Numbered(r, q, x)
      BY OrderParts DEF NumberInv
    <3>2. topic_map' = topic_map /\ is_open' = is_open /\ (Ended(q) <=> Ended(q)')
      BY <1>3 DEF publisherVars, Ended
    <3>3. CASE ~ (r = s /\ q = m.src /\ x = m.topic)
      <4>1. seq_map'[r][q][x] = seq_map[r][q][x] /\ handled'[r][q][x] = handled[r][q][x]
        BY <3>3, <2>2
      <4>2. NoneLeft(r, q, x) => NoneLeft(r, q, x)'
        <5>1. CASE r # s
          BY <5>1, <1>5 DEF NoneLeft
        <5>2. CASE r = s
          BY <5>2, <1>8 DEF NoneLeft
        <5> QED BY <5>1, <5>2
      <4>3. WasHandled(r, q, x, seq_map[r][q][x]) <=> WasHandled(r, q, x, seq_map[r][q][x])'
        BY <4>1, ZenonT(60) DEF WasHandled
      <4> QED BY <3>1, <3>2, <4>1, <4>2, <4>3 DEF Numbered
    <3>4. CASE r = s /\ q = m.src /\ x = m.topic
      <4>1. CASE /\ IsSample(m) /\ m.seq_num > n /\ seq_map'[s][m.src][m.topic] = m.seq_num
                 /\ handled'[s][m.src][m.topic] = Append(h, m.seq_num)
        <5>1. ~ NoneLeft(s, m.src, m.topic)
          BY <4>1, <1>2, <1>3, ZenonT(60) DEF NoneLeft
        <5>2. /\ \A k \in DOMAIN h : h[k] <= n /\ h[k] \in Nat
              /\ \A k, l \in DOMAIN h : k < l => h[k] < h[l]
          BY <5>1, <3>1, <3>4, <2>4, Element, ZenonT(60) DEF Numbered
        <5>3. PICK g : g = Append(h, m.seq_num)
          OBVIOUS
        <5>4. /\ DOMAIN g = 1..(Len(h) + 1) /\ DOMAIN h = 1..Len(h) /\ Len(h) \in Nat
              /\ \A k \in DOMAIN h : g[k] = h[k]
              /\ g[Len(h) + 1] = m.seq_num
          <6>1. m.seq_num \in Nat
            BY <4>1, <1>9, ZenonT(60)
          <6>2. h \in Seq(Nat)
            BY <2>4
          <6> HIDE DEF h, n
          <6> QED BY <5>3, <6>1, <6>2, Appended
        <5> HIDE DEF h, n
        <5>a. m.seq_num > n /\ m.seq_num \in Nat /\ n \in Nat
          BY <4>1, <1>9, <2>4
        <5>b. \A k \in DOMAIN h : g[k] \in Nat /\ g[k] < m.seq_num
          BY <5>2, <5>4, <5>a
        <5>c. \A k \in DOMAIN g : k \in DOMAIN h \/ k = Len(h) + 1
          BY <5>4
        <5>5. \A k \in DOMAIN g : g[k] <= m.seq_num
          BY <5>4, <5>a, <5>b, <5>c
        <5>6. ASSUME NEW k \in DOMAIN g, NEW l \in DOMAIN g, k < l PROVE g[k] < g[l]
          <6>1. k \in DOMAIN h
            BY <5>4, <5>6
          <6>2. CASE l \in DOMAIN h
            BY <6>1, <6>2, <5>2, <5>4, <5>6
          <6>3. CASE l = Len(h) + 1
            BY <6>1, <6>3, <5>4, <5>b
          <6> QED BY <6>2, <6>3, <5>c
        <5>7. is_open[m.src] => m.seq_num <= topic_map[m.src][m.topic]
          BY <4>1, <1>2, <1>9, ZenonT(60) DEF Sent
        <5>8. WasHandled(s, m.src, m.topic, seq_map[s][m.src][m.topic])'
          BY <4>1, <2>5, SMTT(60) DEF WasHandled
        <5> QED BY <3>2, <3>4, <4>1, <5>3, <5>5, <5>6, <5>7, <5>8, SMTT(60) DEF Numbered
      <4>2. CASE /\ IsClose(m) /\ seq_map'[s][m.src][m.topic] = 0
                 /\ handled'[s][m.src][m.topic] = h
        <5>1. Ended(m.src)'
          BY <4>2, <3>2, <3>4, <1>2, <1>9, ZenonT(60) DEF Sent
        <5>2. NoneLeft(s, m.src, m.topic)'
          <6>1. ASSUME NEW k \in DOMAIN inbox'[s], inbox'[s][k].msg.src = m.src,
                       inbox'[s][k].msg.topic = m.topic
                PROVE  ~ IsSample(inbox'[s][k].msg)
            <7>1. Ordered(m, inbox'[s][k].msg)
              BY <1>8, <1>10, <6>1
            <7> QED BY <6>1, <7>1, <4>2 DEF Ordered
          <6> QED BY <6>1 DEF NoneLeft
        <5>3. 0 <= topic_map[m.src][m.topic]
          BY <2>4
        <5>4. \A k, l \in DOMAIN h : k < l => h[k] < h[l]
          BY <3>1, <3>4, ZenonT(60) DEF Numbered
        <5> HIDE DEF h
        <5> QED BY <3>2, <3>4, <4>2, <5>1, <5>2, <5>3, <5>4, ZenonT(60) DEF Numbered
      <4> QED BY <2>3, <4>1, <4>2, ZenonT(60)
    <3> QED BY <3>3, <3>4
  <2> QED BY <2>6, <2>9, <2>11, <2>12, OrderNext, SMTT(60) DEF NumberInv
<1> QED BY <1>11, <1>12

\* The initial state.
LEMMA OrderInit == Init => OrderInv
<1> SUFFICES ASSUME Init PROVE OrderInv
  OBVIOUS
<1>1. ASSUME NEW t \in Thread PROVE Cast(t) /\ Level(t)
  <2>1. todo[t] = <<>> /\ DOMAIN todo[t] = {} /\ DOMAIN output_[t] = {}
    BY DEF Init
  <2> QED BY <2>1 DEF Cast, Level
<1>2. ASSUME NEW s \in Subscriber PROVE InboxInv(s)
  <2>1. DOMAIN inbox[s] = {}
    BY DEF Init
  <2> QED BY <2>1 DEF InboxInv, InOrder
<1>3. ASSUME NEW s \in Subscriber, NEW p \in Publisher, NEW x \in Topic PROVE Numbered(s, p, x)
  <2>1. DOMAIN handled[s][p][x] = {} /\ seq_map[s][p][x] = 0 /\ topic_map[p][x] = 0
    BY DEF Init
  <2> QED BY <2>1 DEF Numbered
<1> QED BY <1>1, <1>2, <1>3, OrderParts DEF CastInv, NumberInv

\* The order of the messages is kept: one step for each action.
THEOREM InOrderAlways ==
  ASSUME OneThreadEach, DomainPriority
  PROVE  Spec => []OrderInv
<1>1. ConnectInv /\ ConnectInv' /\ OrderInv /\ [Next]_vars => OrderInv'
  <2> SUFFICES ASSUME ConnectInv, ConnectInv', OrderInv, [Next]_vars PROVE OrderInv'
    OBVIOUS
  <2>1. ASSUME NEW t \in Thread, PublisherStep(t) PROVE OrderInv'
    <3>1. CASE Close(t) \/ Closed(t)
      BY <3>1, CloseOrder
    <3>2. CASE Copy(t)
      BY <3>2, CopyOrder
    <3>3. CASE Send(t)
      BY <3>3, SendOrder
    <3>4. ASSUME NEW x \in Topic, NEW flags \in Flags, Publish(t, x, flags) PROVE OrderInv'
      BY <3>4, PublishOrder
    <3> QED BY <2>1, <3>1, <3>2, <3>3, <3>4 DEF PublisherStep
  <2>2. ASSUME NEW s \in Subscriber, SubscriberStep(s) PROVE OrderInv'
    <3>1. CASE Handle(s)
      BY <3>1, HandleOrder
    <3>2. ASSUME NEW x \in Topic, Subscribe(s, x) PROVE OrderInv'
      BY <3>2, SubscribeOrder
    <3>3. ASSUME NEW x \in Topic, Unsubscribe(s, x) PROVE OrderInv'
      BY <3>3, UnsubscribeOrder
    <3> QED BY <2>2, <3>1, <3>2, <3>3 DEF SubscriberStep
  <2>3. CASE UNCHANGED vars
    <3>1. CastInv
      BY OrderParts
    <3>2. CastInv'
      BY <2>3, <3>1 DEF CastInv, Cast, Level, Ended, vars, publisherVars, castVars
    <3>3. GoesOn
      BY <2>3, Types DEF GoesOn, Ended, vars, publisherVars
    <3> QED BY <2>3, <3>2, <3>3, SameInbox, OrderNext DEF vars
  <2> QED BY <2>1, <2>2, <2>3 DEF Next
<1> QED BY <1>1, OrderInit, Connected, PTL DEF Spec

\* A module handles each sample of a channel at most once, in the order of their
\* numbers, whatever it subscribes to and when, and although it forgets the number
\* when the channel is closed.
THEOREM HandledOnceAlways ==
  ASSUME OneThreadEach, DomainPriority
  PROVE  Spec => []HandledOnce
<1>1. OrderInv => HandledOnce
  BY DEF OrderInv, Numbered, HandledOnce
<1> QED BY <1>1, InOrderAlways, PTL

\* No sample on its way to a module, in its pipes or in a broadcast, is one that
\* it would drop as a duplicate without having handled it.
THEOREM NeverOvertaken ==
  ASSUME OneThreadEach, DomainPriority
  PROVE  Spec => []NotOvertaken
<1>1. ConnectInv /\ OrderInv => NotOvertaken
  <2> SUFFICES ASSUME ConnectInv, OrderInv, NEW s \in Subscriber, NEW m \in UnderWay(s)
               PROVE  NotLate(s, m)
    BY DEF NotOvertaken, NotLate, IsSample, WasHandled
  <2>1. CASE m \in {inbox[s][i].msg : i \in DOMAIN inbox[s]}
    BY <2>1, SMTT(60) DEF OrderInv
  <2>2. CASE m \in {Head(todo[t]) : t \in {u \in Thread :
              \E i \in DOMAIN output_[u] : output_[u][i] \in node /\ output_[u][i].node = s}}
    <3>1. PICK t \in Thread : m = Head(todo[t]) /\ \E i \in DOMAIN output_[t] : TRUE
      BY <2>2
    <3>2. todo[t] # <<>>
      BY <3>1 DEF ConnectInv, Casting
    <3>3. m = todo[t][1] /\ 1 \in DOMAIN todo[t]
      BY <3>1, <3>2, Types, Left
    <3>4. m.src \in Publisher /\ m.topic \in Topic /\ (IsSample(m) => m.seq_num \in Nat \ {0})
      BY <3>3, TodoType
    <3>5. is_open[m.src] /\ (IsSample(m) => m.seq_num = topic_map[m.src][m.topic])
      BY <3>3 DEF OrderInv, Cast
    <3>6. Numbered(s, m.src, m.topic) /\ seq_map[s][m.src][m.topic] \in Nat
      BY <3>4, Types DEF OrderInv
    <3> QED BY <3>4, <3>5, <3>6, LastNotLate
  <2> QED BY <2>1, <2>2 DEF UnderWay
<1> QED BY <1>1, Connected, InOrderAlways, PTL

=============================================================================
