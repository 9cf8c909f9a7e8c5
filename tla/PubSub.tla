------------------------------- MODULE PubSub -------------------------------
(***************************************************************************)
(* Publish and subscribe: vnx::Publisher, vnx::Topic, vnx::Subscriber and  *)
(* the filter for duplicate samples of ModuleBase::handle().               *)
(*                                                                         *)
(* A sample takes the next sequence number of its topic under the mutex of *)
(* the publisher, and is broadcast after the mutex is released: the list   *)
(* of pipes is copied under the mutex of the topic, the sample is sent to  *)
(* each, and then the same is done for the parent, the domain. A module    *)
(* subscribed to a topic and its domain gets the sample through two pipes  *)
(* and drops the second by its number. Pipe and Node, modelled in detail   *)
(* in PipeNode, are here the list of messages a module has yet to read.    *)
(***************************************************************************)
EXTENDS Integers, Sequences, FiniteSets

Seqs == INSTANCE SequencesExt

CONSTANTS
    None,
    Thread,         \* threads that publish
    Publisher,      \* publishers
    PublisherOf,    \* the publisher each thread uses
    Topic,          \* topics
    Parent,         \* their domains, None at the root
    Subscriber,     \* modules that subscribe
    Priority,       \* priority of the subscription to each topic
    MaxQueueSize,   \* max_queue_size of the subscriptions, 0 is UNLIMITED
    Flags,          \* the flags publish() is called with
    MaxPublish,     \* bound: calls of publish() by each thread
    MaxSubscribe    \* bound: calls of subscribe() and of unsubscribe() by topic

\* The elements of set S in any order.
Orders(S) == Seqs!Injection(1..Cardinality(S), S)

Pipe == [node : Subscriber, topic : Topic, num : 1..MaxSubscribe]

FlowCode == {"open", "close"}
Message ==
    [src : Publisher, topic : Topic, seq_num : Nat \ {0}, flags : Flags]
    \cup [src : Publisher, topic : Topic, flow_code : FlowCode]

ASSUME ConstantsAssumption ==
    /\ IsFiniteSet(Topic)
    /\ None \notin Topic \cup Thread
    /\ PublisherOf \in [Thread -> Publisher]
    /\ Parent \in [Topic -> Topic \cup {None}]
    /\ Priority \in [Topic -> Int]
    /\ MaxQueueSize \in Nat /\ MaxPublish \in Nat /\ MaxSubscribe \in Nat
    /\ Flags \subseteq SUBSET {"BLOCKING", "RESEND"}

VARIABLES
    is_open,        \* Publisher::is_open_
    topic_map,      \* Publisher::topic_map, 0 for a topic it does not have
    closing,        \* the thread in Publisher::close(), which has the mutex
    calls,          \* calls of publish() a thread has left
    todo,           \* the messages a thread has still to broadcast
    next,           \* the topic it broadcasts to next
    output_,        \* the pipes it has still to send to at the previous topic
    output,         \* Topic::output
    count,          \* Subscriber::subscription_t::count
    opened,         \* pipes made for a subscription
    node,           \* the pipes that are connected, Pipe::node # nullptr
    subscribes,     \* calls of subscribe() and of unsubscribe() that were made
    inbox,          \* the messages in the pipes of a module, as it is notified
    seq_map,        \* ModuleBase::seq_map, 0 for an entry it does not have
    handled         \* the numbers of the samples that were handled (history)

publisherVars  == <<is_open, topic_map, closing, calls>>
castVars       == <<todo, next, output_>>
subscriberVars == <<count, opened, node, subscribes>>
vars == <<publisherVars, castVars, output, subscriberVars, inbox, seq_map, handled>>

TypeOK ==
    /\ is_open \in [Publisher -> BOOLEAN]
    /\ topic_map \in [Publisher -> [Topic -> Nat]]
    /\ closing \in [Publisher -> Thread \cup {None}]
    /\ calls \in [Thread -> 0..MaxPublish]
    /\ todo \in [Thread -> Seq(Message)]
    /\ next \in [Thread -> Topic \cup {None}]
    /\ output_ \in [Thread -> Seq(Pipe)]
    /\ output \in [Topic -> Seq(Pipe)]
    /\ count \in [Subscriber -> [Topic -> Int]]
    /\ opened \in [Subscriber -> [Topic -> 0..MaxSubscribe]]
    /\ node \subseteq Pipe
    /\ subscribes \in [Subscriber -> [Topic -> (0..MaxSubscribe) \X (0..MaxSubscribe)]]
    /\ inbox \in [Subscriber -> Seq([pipe : Pipe, msg : Message])]
    /\ seq_map \in [Subscriber -> [Publisher -> [Topic -> Nat]]]
    /\ handled \in [Subscriber -> [Publisher -> [Topic -> Seq(Nat)]]]

Init ==
    /\ is_open = [p \in Publisher |-> TRUE]
    /\ topic_map = [p \in Publisher |-> [x \in Topic |-> 0]]
    /\ closing = [p \in Publisher |-> None]
    /\ calls = [t \in Thread |-> MaxPublish]
    /\ todo = [t \in Thread |-> <<>>]
    /\ next = [t \in Thread |-> None]
    /\ output_ = [t \in Thread |-> <<>>]
    /\ output = [x \in Topic |-> <<>>]
    /\ count = [s \in Subscriber |-> [x \in Topic |-> 0]]
    /\ opened = [s \in Subscriber |-> [x \in Topic |-> 0]]
    /\ node = {}
    /\ subscribes = [s \in Subscriber |-> [x \in Topic |-> <<0, 0>>]]
    /\ inbox = [s \in Subscriber |-> <<>>]
    /\ seq_map = [s \in Subscriber |-> [p \in Publisher |-> [x \in Topic |-> 0]]]
    /\ handled = [s \in Subscriber |-> [p \in Publisher |-> [x \in Topic |-> <<>>]]]

-----------------------------------------------------------------------------
(* Publisher *)

Idle(t) == todo[t] = <<>>

\* The thread goes on with what is left of a broadcast: more pipes of the
\* topic, the parent, or the next message.
Continue(t, msgs, at, pipes) ==
    LET rest == IF pipes = <<>> /\ at = None THEN Tail(msgs) ELSE msgs IN
    /\ todo' = [todo EXCEPT ![t] = rest]
    /\ next' = [next EXCEPT ![t] =
                    IF rest # msgs /\ rest # <<>> THEN Head(rest).topic ELSE at]
    /\ output_' = [output_ EXCEPT ![t] = pipes]

\* broadcast() of msgs, which are not empty.
Broadcast(t, msgs) ==
    /\ todo' = [todo EXCEPT ![t] = msgs]
    /\ next' = [next EXCEPT ![t] = Head(msgs).topic]
    /\ UNCHANGED output_

\* publish() up to the broadcast. The first sample of a topic, whatever its
\* flags, opens the channel.
Publish(t, x, flags) ==
    LET p == PublisherOf[t]
        is_new_channel == topic_map[p][x] = 0
        seq_num == topic_map[p][x] + (IF "RESEND" \notin flags \/ is_new_channel THEN 1 ELSE 0)
        open   == <<[src |-> p, topic |-> x, flow_code |-> "open"]>>
        sample == <<[src |-> p, topic |-> x, seq_num |-> seq_num, flags |-> flags]>>
    IN  /\ Idle(t) /\ calls[t] > 0
        /\ closing[p] = None /\ is_open[p]
        /\ topic_map' = [topic_map EXCEPT ![p][x] = seq_num]
        /\ calls' = [calls EXCEPT ![t] = @ - 1]
        /\ Broadcast(t, IF is_new_channel THEN open \o sample ELSE sample)
        /\ UNCHANGED <<is_open, closing, output, subscriberVars, inbox, seq_map, handled>>

\* close() takes the mutex, which it keeps while it broadcasts.
Close(t) ==
    LET p == PublisherOf[t]
        known == {x \in Topic : topic_map[p][x] > 0}
    IN  /\ Idle(t) /\ closing[p] = None /\ is_open[p] /\ known # {}
        /\ closing' = [closing EXCEPT ![p] = t]
        /\ \E xs \in Orders(known) :
             Broadcast(t, [i \in DOMAIN xs |->
                              [src |-> p, topic |-> xs[i], flow_code |-> "close"]])
        /\ UNCHANGED <<is_open, topic_map, calls, output, subscriberVars, inbox, seq_map, handled>>

Closed(t) ==
    LET p == PublisherOf[t] IN
    /\ Idle(t) /\ closing[p] = t
    /\ topic_map' = [topic_map EXCEPT ![p] = [x \in Topic |-> 0]]
    /\ is_open' = [is_open EXCEPT ![p] = FALSE]
    /\ closing' = [closing EXCEPT ![p] = None]
    /\ UNCHANGED <<calls, castVars, output, subscriberVars, inbox, seq_map, handled>>

-----------------------------------------------------------------------------
(* Topic *)

\* broadcast() copies the list of pipes.
Copy(t) ==
    /\ ~ Idle(t) /\ output_[t] = <<>>
    /\ Continue(t, todo[t], Parent[next[t]], output[next[t]])
    /\ UNCHANGED <<publisherVars, output, subscriberVars, inbox, seq_map, handled>>

Full(p) ==
    LET s == p.node IN
    /\ MaxQueueSize > 0
    /\ Cardinality({i \in DOMAIN inbox[s] : inbox[s][i].pipe = p}) >= MaxQueueSize

Blocking(m) == "flags" \in DOMAIN m /\ "BLOCKING" \in m.flags

\* Mutant: the sender waits for a pipe that is closed, too.
PushWaits(p, m) ==
    /\ p \in node /\ (Full(p) => ~ Blocking(m))
    /\ IF Full(p) THEN UNCHANGED inbox
       ELSE inbox' = [inbox EXCEPT ![p.node] = Append(@, [pipe |-> p, msg |-> m])]

\* Pipe::push(): a pipe that is closed takes nothing, one that is full makes
\* a BLOCKING sender wait and drops what others send.
Push(p, m) ==
    /\ p \in node /\ Full(p) => ~ Blocking(m)
    /\ IF p \notin node \/ Full(p) THEN UNCHANGED inbox
       ELSE inbox' = [inbox EXCEPT ![p.node] = Append(@, [pipe |-> p, msg |-> m])]

\* broadcast() sends to the next pipe of the copy.
Send(t) ==
    /\ output_[t] # <<>>
    /\ Push(Head(output_[t]), Head(todo[t]))
    /\ Continue(t, todo[t], next[t], Tail(output_[t]))
    /\ UNCHANGED <<publisherVars, output, subscriberVars, seq_map, handled>>

-----------------------------------------------------------------------------
(* Subscriber *)

\* The pipe of the subscription, when there is one.
Current(s, x) == [node |-> s, topic |-> x, num |-> opened[s][x]]

\* Mutant: each call opens a pipe.
SubscribeAgain(s, x) ==
    /\ subscribes[s][x][1] < MaxSubscribe
    /\ subscribes' = [subscribes EXCEPT ![s][x][1] = @ + 1]
    /\ count' = [count EXCEPT ![s][x] = @ + 1]
    /\ LET p == [Current(s, x) EXCEPT !.num = @ + 1] IN
         /\ opened' = [opened EXCEPT ![s][x] = @ + 1]
         /\ node' = node \cup {p}
         /\ output' = [output EXCEPT ![x] = Append(@, p)]
    /\ UNCHANGED <<publisherVars, castVars, inbox, seq_map, handled>>

\* subscribe(): the first call connects a new pipe and adds it to the topic.
Subscribe(s, x) ==
    /\ subscribes[s][x][1] < MaxSubscribe
    /\ subscribes' = [subscribes EXCEPT ![s][x][1] = @ + 1]
    /\ count' = [count EXCEPT ![s][x] = @ + 1]
    /\ IF count[s][x] = 0
       THEN LET p == [Current(s, x) EXCEPT !.num = @ + 1] IN
            /\ opened' = [opened EXCEPT ![s][x] = @ + 1]
            /\ node' = node \cup {p}
            /\ output' = [output EXCEPT ![x] = Append(@, p)]
       ELSE UNCHANGED <<opened, node, output>>
    /\ UNCHANGED <<publisherVars, castVars, inbox, seq_map, handled>>

\* unsubscribe(): the last call removes the pipe from the topic and closes it,
\* which drops the messages in it; those of other pipes keep their order.
Unsubscribe(s, x) ==
    /\ subscribes[s][x][2] < MaxSubscribe
    /\ subscribes' = [subscribes EXCEPT ![s][x][2] = @ + 1]
    /\ count' = [count EXCEPT ![s][x] = @ - 1]
    /\ IF count[s][x] = 1
       THEN LET p == Current(s, x) IN
            /\ output' = [output EXCEPT ![x] = Seqs!RemoveFirst(@, p)]
            /\ node' = node \ {p}
            /\ \E f \in Orders({i \in DOMAIN inbox[s] : inbox[s][i].pipe # p}) :
                 /\ \A i, j \in DOMAIN f : i < j => f[i] < f[j]
                 /\ inbox' = [inbox EXCEPT ![s] = [i \in DOMAIN f |-> @[f[i]]]]
       ELSE UNCHANGED <<output, node, inbox>>
    /\ UNCHANGED <<publisherVars, castVars, opened, seq_map, handled>>

-----------------------------------------------------------------------------
(* ModuleBase::handle() *)

\* Mutant: samples are numbered by publisher only.
LastOfPublisher(s, m) ==
    LET all == {seq_map[s][m.src][x] : x \in Topic} IN
    CHOOSE n \in all : \A k \in all : k <= n

\* The last number that was handled of the channel of sample m.
LastSeq(s, m) == seq_map[s][m.src][m.topic]

\* Mutant: the same number is not dropped.
IsNewOrSame(s, m) == m.seq_num >= LastSeq(s, m)

\* A sample that is not a duplicate. One that was published again, with the
\* same number, goes to handle_resend(), which has no effect here.
IsNew(s, m) == m.seq_num > LastSeq(s, m)

HandleSample(s, m) ==
    IF IsNew(s, m)
    THEN /\ seq_map' = [seq_map EXCEPT ![s][m.src][m.topic] = m.seq_num]
         /\ handled' = [handled EXCEPT ![s][m.src][m.topic] = Append(@, m.seq_num)]
    ELSE UNCHANGED <<seq_map, handled>>

HandleFlow(s, m) ==
    /\ IF m.flow_code = "close"
       THEN seq_map' = [seq_map EXCEPT ![s][m.src][m.topic] = 0]
       ELSE UNCHANGED seq_map
    /\ UNCHANGED handled

\* The module reads the first message of the pipes with the best priority.
Handle(s) ==
    \E i \in DOMAIN inbox[s] :
        LET m == inbox[s][i].msg
            prio(k) == Priority[inbox[s][k].pipe.topic]
        IN  /\ \A k \in DOMAIN inbox[s] : prio(k) >= prio(i)
            /\ \A k \in 1..(i - 1) : prio(k) # prio(i)
            /\ inbox' = [inbox EXCEPT ![s] = Seqs!RemoveAt(@, i)]
            /\ IF "seq_num" \in DOMAIN m THEN HandleSample(s, m) ELSE HandleFlow(s, m)
            /\ UNCHANGED <<publisherVars, castVars, output, subscriberVars>>

-----------------------------------------------------------------------------
PublisherStep(t) ==
    \/ Close(t) \/ Closed(t) \/ Copy(t) \/ Send(t)
    \/ \E x \in Topic, flags \in Flags : Publish(t, x, flags)

SubscriberStep(s) ==
    \/ Handle(s)
    \/ \E x \in Topic : Subscribe(s, x) \/ Unsubscribe(s, x)

Next == (\E t \in Thread : PublisherStep(t)) \/ (\E s \in Subscriber : SubscriberStep(s))

Spec == Init /\ [][Next]_vars

\* A call that was begun goes on, and modules read their messages.
FairSpec ==
    /\ Spec
    /\ \A t \in Thread : WF_vars(Copy(t) \/ Send(t) \/ Closed(t))
    /\ \A s \in Subscriber : WF_vars(Handle(s))

-----------------------------------------------------------------------------
(* Properties. *)

\* A module handles a sample at most once, although it may get it by the topic
\* and by the domain, unsubscribe and subscribe again, and forget the number
\* when the channel is closed (ModuleBase.cpp:234, 337).
HandledOnce ==
    \A s \in Subscriber, p \in Publisher, x \in Topic :
        \A i, j \in DOMAIN handled[s][p][x] :
            i < j => handled[s][p][x][i] < handled[s][p][x][j]

\* What is under way to module s: in its pipes, or in a broadcast to them.
UnderWay(s) ==
    {inbox[s][i].msg : i \in DOMAIN inbox[s]} \cup
    {Head(todo[t]) : t \in {u \in Thread :
        \E i \in DOMAIN output_[u] : output_[u][i] \in node /\ output_[u][i].node = s}}

\* A sample is not overtaken: no sample on its way to a module has a number
\* that the module would take for a duplicate, unless it has handled it
\* (Publisher.cpp:55, ModuleBase.cpp:234).
NotOvertaken ==
    \A s \in Subscriber : \A m \in UnderWay(s) :
        "seq_num" \in DOMAIN m /\ ~ IsNew(s, m) =>
            \E i \in DOMAIN handled[s][m.src][m.topic] :
                handled[s][m.src][m.topic][i] = m.seq_num

\* "Repeated calls to subscribe() are counted and an equal number of calls to
\* unsubscribe() are needed" (Subscriber.h:31), which may come first: there is
\* one connected pipe, the last that was opened, in the list of the topic when
\* there were more calls of subscribe(), and none else.
SubscribedAsCounted ==
    \A s \in Subscriber, x \in Topic :
        LET mine == {p \in node : p.node = s /\ p.topic = x}
            sub  == subscribes[s][x][1] - subscribes[s][x][2]
        IN  /\ mine = IF sub > 0 THEN {Current(s, x)} ELSE {}
            /\ {output[x][i] : i \in {k \in DOMAIN output[x] : output[x][k].node = s}} = mine
            /\ \A i, j \in DOMAIN output[x] : output[x][i] = output[x][j] => i = j

\* publish() and close() return, also when the pipe a BLOCKING sample waits for
\* is closed (Topic.cpp:150, Pipe.cpp:225).
PublishReturns == \A t \in Thread : []<>(Idle(t) /\ \A p \in Publisher : closing[p] # t)
=============================================================================
