------------------------------ MODULE PipeNode ------------------------------
(***************************************************************************)
(* Message passing between threads: vnx::Pipe (src/src/Pipe.cpp) and       *)
(* vnx::Node (src/src/Node.cpp), with the reading side of a module, its    *)
(* main loop and its shutdown (Module::main, ModuleBase::vnx_process and   *)
(* vnx_cleanup).                                                           *)
(*                                                                         *)
(* A thread sends by Pipe::push(), which blocks, refuses, replaces or      *)
(* accepts under the mutex of the pipe and notifies the node that owns it. *)
(* The thread of a node takes the next notification under the mutex of the *)
(* node, releases it, and pops that pipe under the mutex of the pipe.      *)
(* exit() and close() may run at any time, and never hold both mutexes of  *)
(* a pipe and its node in the order node, pipe; every critical section is  *)
(* one action.                                                             *)
(***************************************************************************)
EXTENDS Integers, Sequences, FiniteSets

CONSTANTS
    Node,           \* modules, each with a thread that reads
    Pipe,           \* pipes, fresh ones and those a restart opens
    Sender,         \* threads that only send
    Stopper,        \* threads that call exit() of some node, once each
    None,           \* nullptr
    MaxUs,          \* max_queue_us of each pipe, 0 is UNLIMITED
    MaxSize,        \* max_queue_size of each pipe, 0 is UNLIMITED
    Priority,       \* priority of each pipe, the smallest is served first
    Latest,         \* the pipes opened with PIPE_MODE_LATEST
    Kind,           \* the kinds of messages that are sent
    Route,          \* <<t, p>>: thread t sends to pipe p
    Opens,          \* <<p, n>>: pipe p is opened for node n
    ReadMode,       \* how vnx_process() reads: "poll", "block", "timed"
    CleanExit,      \* the nodes with vnx_clean_exit
    Restarting,     \* the nodes that are restarted after close()
    Pausing,        \* the pipes that are paused and resumed
    Closing,        \* the pipes that are closed other than by Node::close()
    MaxSend,        \* bound: messages sent by each thread
    MaxTime         \* bound: ticks of the wall clock

Thread  == Sender \cup Node
Caller  == Stopper \cup Node
Prio    == {Priority[p] : p \in Pipe}
Message == [src : Thread, num : 1..MaxSend, kind : Kind]

ASSUME ConstantsAssumption ==
    /\ IsFiniteSet(Node) /\ IsFiniteSet(Pipe)
    /\ Sender \cap Node = {} /\ Stopper \cap Node = {}
    /\ None \notin Node \cup Pipe \cup Message
    /\ MaxUs \in [Pipe -> Nat] /\ MaxSize \in [Pipe -> Nat]
    /\ Priority \in [Pipe -> Int] /\ Latest \subseteq Pipe
    /\ Kind \subseteq {"sample", "frame", "request", "tryRequest", "shutdown"}
    /\ Route \subseteq Thread \X Pipe /\ Opens \subseteq Pipe \X Node
    /\ ReadMode \subseteq {"poll", "block", "timed"}
    /\ CleanExit \subseteq Node /\ Restarting \subseteq Node
    /\ Pausing \subseteq Pipe /\ Closing \subseteq Pipe
    /\ MaxSend \in Nat /\ MaxTime \in Nat

\* Message flags. A request is sent BLOCKING; a tryRequest NON_BLOCKING also.
BLOCKING(m)     == m.kind \in {"frame", "request", "tryRequest"}
NON_BLOCKING(m) == m.kind = "tryRequest"
SHUTDOWN(m)     == m.kind = "shutdown"
IsRequest(m)    == m.kind \in {"request", "tryRequest"}

VARIABLES
    opened,         \* the pipes that have been through connect()
    node,           \* Pipe::node
    queue,          \* Pipe::queue, of messages with the time of their push
    is_paused,      \* Pipe::is_paused_
    is_shutdown,    \* Pipe::is_shutdown_
    waiting,        \* the threads waiting on Pipe::condition
    do_run,         \* Node::vnx_do_run
    notify_map,     \* Node::notify_map
    pipe_list,      \* Node::pipe_list
    pc,             \* where the thread of the node is
    mode,           \* which of the read functions it is in
    vnx_pipe,       \* Node::vnx_pipe
    msg,            \* the message popped from it
    exiting,        \* the node whose exit() a caller is in
    todo,           \* pipe_list_copy of exit() and close()
    idle,           \* the stoppers that have not called exit() yet
    push,           \* the pipe whose push() a thread is blocked in
    out,            \* the message it is pushing
    sent,           \* how many messages a thread has sent
    fate,           \* what became of each message (history)
    clock           \* the wall clock

pipeVars == <<opened, node, queue, is_paused, is_shutdown, waiting>>
nodeVars == <<do_run, notify_map, pipe_list>>
readVars == <<pc, mode, vnx_pipe, msg>>
exitVars == <<exiting, todo, idle>>
sendVars == <<push, out, sent>>
vars == <<pipeVars, nodeVars, readVars, exitVars, sendVars, fate, clock>>

Entry == [msg : Message, time : 0..MaxTime]
Fate  == {"unsent", "queued", "taken", "evicted", "bounced", "discarded", "refused"}
PC    == {"loop", "check", "lock", "wait", "pop", "signal", "handle",
          "exit", "close", "closed"}

TypeOK ==
    /\ opened \subseteq Pipe
    /\ node \in [Pipe -> Node \cup {None}]
    /\ queue \in [Pipe -> Seq(Entry)]
    /\ is_paused \in [Pipe -> BOOLEAN]
    /\ is_shutdown \in [Pipe -> BOOLEAN]
    /\ waiting \in [Pipe -> SUBSET Thread]
    /\ do_run \in [Node -> BOOLEAN]
    /\ notify_map \in [Node -> [Prio -> Seq(Pipe)]]
    /\ pipe_list \in [Node -> SUBSET Pipe]
    /\ pc \in [Node -> PC]
    /\ mode \in [Node -> {"poll", "block", "timed", "once", "drain"}]
    /\ vnx_pipe \in [Node -> Pipe \cup {None}]
    /\ msg \in [Node -> Message \cup {None}]
    /\ exiting \in [Caller -> Node \cup {None}]
    /\ todo \in [Caller -> SUBSET Pipe]
    /\ idle \subseteq Stopper
    /\ push \in [Thread -> Pipe \cup {None}]
    /\ out \in [Thread -> Message \cup {None}]
    /\ sent \in [Thread -> 0..MaxSend]
    /\ fate \in [Message -> Fate]
    /\ clock \in 0..MaxTime

Init ==
    /\ opened = {}
    /\ node = [p \in Pipe |-> None]
    /\ queue = [p \in Pipe |-> <<>>]
    /\ is_paused = [p \in Pipe |-> FALSE]
    /\ is_shutdown = [p \in Pipe |-> FALSE]
    /\ waiting = [p \in Pipe |-> {}]
    /\ do_run = [n \in Node |-> TRUE]
    /\ notify_map = [n \in Node |-> [r \in Prio |-> <<>>]]
    /\ pipe_list = [n \in Node |-> {}]
    /\ pc = [n \in Node |-> "loop"]
    /\ mode = [n \in Node |-> "poll"]
    /\ vnx_pipe = [n \in Node |-> None]
    /\ msg = [n \in Node |-> None]
    /\ exiting = [c \in Caller |-> None]
    /\ todo = [c \in Caller |-> {}]
    /\ idle = Stopper
    /\ push = [t \in Thread |-> None]
    /\ out = [t \in Thread |-> None]
    /\ sent = [t \in Thread |-> 0]
    /\ fate = [m \in Message |-> "unsent"]
    /\ clock = 0

(***************************************************************************)
(* Pipes: opening, pausing, closing                                        *)
(***************************************************************************)

\* open_pipe(): a new pipe is attached to a node that still runs. The pipe
\* mutex is held throughout and the node mutex inside of it.
Connect(p, n) ==
    /\ p \notin opened
    /\ opened' = opened \cup {p}
    /\ IF do_run[n]
         THEN /\ pipe_list' = [pipe_list EXCEPT ![n] = @ \cup {p}]
              /\ node' = [node EXCEPT ![p] = n]
         ELSE UNCHANGED <<pipe_list, node>>
    /\ UNCHANGED <<queue, is_paused, is_shutdown, waiting, do_run, notify_map,
                   readVars, exitVars, sendVars, fate, clock>>

Pause(p) ==
    /\ ~is_paused[p]
    /\ is_paused' = [is_paused EXCEPT ![p] = TRUE]
    /\ waiting' = [waiting EXCEPT ![p] = {}]
    /\ UNCHANGED <<opened, node, queue, is_shutdown, nodeVars, readVars,
                   exitVars, sendVars, fate, clock>>

Resume(p) ==
    /\ is_paused[p]
    /\ is_paused' = [is_paused EXCEPT ![p] = FALSE]
    /\ waiting' = [waiting EXCEPT ![p] = {}]
    /\ UNCHANGED <<opened, node, queue, is_shutdown, nodeVars, readVars,
                   exitVars, sendVars, fate, clock>>

Queued(p) == {queue[p][i].msg : i \in DOMAIN queue[p]}

\* Mutant: close() drops the requests that are left over.
PipeCloseSilent(p) ==
    /\ pipe_list' = [n \in Node |-> pipe_list[n] \ {p}]
    /\ node' = [node EXCEPT ![p] = None]
    /\ queue' = [queue EXCEPT ![p] = <<>>]
    /\ waiting' = [waiting EXCEPT ![p] = {}]
    /\ fate' = [m \in Message |-> IF m \in Queued(p) THEN "discarded" ELSE fate[m]]

\* Mutant: close() forgets to reset the pointer to the node.
PipeCloseAttached(p) ==
    /\ pipe_list' = [n \in Node |-> pipe_list[n] \ {p}]
    /\ queue' = [queue EXCEPT ![p] = <<>>]
    /\ waiting' = [waiting EXCEPT ![p] = {}]
    /\ fate' = [m \in Message |->
                  IF m \in Queued(p)
                    THEN IF IsRequest(m) THEN "bounced" ELSE "discarded"
                    ELSE fate[m]]
    /\ UNCHANGED node

\* Pipe::close(): detached from its node, emptied, the waiters woken; requests
\* left over are answered with NoSuchService. Its notifications stay behind.
PipeClose(p) ==
    /\ pipe_list' = [n \in Node |-> IF n = node[p] THEN pipe_list[n] \ {p}
                                                  ELSE pipe_list[n]]
    /\ node' = [node EXCEPT ![p] = None]
    /\ queue' = [queue EXCEPT ![p] = <<>>]
    /\ waiting' = [waiting EXCEPT ![p] = {}]
    /\ fate' = [m \in Message |->
                  IF m \in Queued(p)
                    THEN IF IsRequest(m) THEN "bounced" ELSE "discarded"
                    ELSE fate[m]]

\* close_pipe(): any thread may close a pipe.
ClosePipe(p) ==
    /\ node[p] # None
    /\ PipeClose(p)
    /\ UNCHANGED <<opened, is_paused, is_shutdown, do_run, notify_map, readVars,
                   exitVars, sendVars, clock>>

(***************************************************************************)
(* Pipe::push()                                                            *)
(***************************************************************************)

\* Mutant: > instead of >=.
IsFullLate(p) ==
    /\ queue[p] # <<>>
    /\ \/ /\ MaxUs[p] > 0
          /\ queue[p][Len(queue[p])].time - Head(queue[p]).time > MaxUs[p]
       \/ MaxSize[p] > 0 /\ Len(queue[p]) > MaxSize[p]

IsFull(p) ==
    /\ queue[p] # <<>>
    /\ \/ /\ MaxUs[p] > 0
          /\ queue[p][Len(queue[p])].time - Head(queue[p]).time >= MaxUs[p]
       \/ MaxSize[p] > 0 /\ Len(queue[p]) >= MaxSize[p]

\* Mutant: without the test for BLOCKING.
EvictsAny(p) == ~is_shutdown[p] /\ ~is_paused[p] /\ IsFull(p) /\ p \in Latest

\* PIPE_MODE_LATEST gives up its oldest message, unless that is BLOCKING.
Evicts(p) ==
    /\ ~is_shutdown[p] /\ ~is_paused[p] /\ IsFull(p)
    /\ p \in Latest /\ ~BLOCKING(Head(queue[p]).msg)

MustWait(p) ==
    ~is_shutdown[p] /\ ~Evicts(p) /\ (is_paused[p] \/ IsFull(p))

\* condition.wait()
PushWait(t, p, m) ==
    /\ MustWait(p) /\ BLOCKING(m) /\ ~NON_BLOCKING(m)
    /\ waiting' = [waiting EXCEPT ![p] = @ \cup {t}]
    /\ push' = [push EXCEPT ![t] = p]
    /\ out' = [out EXCEPT ![t] = m]
    /\ UNCHANGED <<queue, notify_map, pc, fate>>

\* Any result but PIPE_OK, or the exception "pipe overflow".
PushRefuse(t, p, m) ==
    /\ IF MustWait(p) THEN BLOCKING(m) => NON_BLOCKING(m)
                      ELSE is_shutdown[p] \/ node[p] = None
    /\ fate' = [fate EXCEPT ![m] = "refused"]
    /\ push' = [push EXCEPT ![t] = None]
    /\ out' = [out EXCEPT ![t] = None]
    /\ UNCHANGED <<queue, waiting, notify_map, pc>>

\* Mutant: no condition.notify_one().
NotifySilent(n, p) ==
    notify_map' = [notify_map EXCEPT ![n][Priority[p]] = Append(@, p)] /\ pc' = pc

\* Node::notify(): queues the pipe at its priority and wakes the reader.
Notify(n, p) ==
    /\ notify_map' = [notify_map EXCEPT ![n][Priority[p]] = Append(@, p)]
    /\ pc' = IF pc[n] = "wait" THEN [pc EXCEPT ![n] = "lock"] ELSE pc

\* PIPE_OK
PushAppend(t, p, m) ==
    /\ ~MustWait(p) /\ ~Evicts(p) /\ ~is_shutdown[p] /\ node[p] # None
    /\ queue' = [queue EXCEPT ![p] = Append(@, [msg |-> m, time |-> clock])]
    /\ fate' = [fate EXCEPT ![m] = "queued"]
    /\ Notify(node[p], p)
    /\ push' = [push EXCEPT ![t] = None]
    /\ out' = [out EXCEPT ![t] = None]
    /\ UNCHANGED waiting

\* Mutant: the newer message gets a notification of its own.
PushReplaceNotifies(t, p, m) ==
    /\ Evicts(p) /\ node[p] # None
    /\ queue' = [queue EXCEPT ![p] = Append(Tail(@), [msg |-> m, time |-> clock])]
    /\ fate' = [fate EXCEPT ![Head(queue[p]).msg] = "evicted", ![m] = "queued"]
    /\ Notify(node[p], p)
    /\ push' = [push EXCEPT ![t] = None]
    /\ out' = [out EXCEPT ![t] = None]
    /\ UNCHANGED waiting

\* PIPE_OK, replacing the oldest message and using its notification.
PushReplace(t, p, m) ==
    /\ Evicts(p) /\ node[p] # None
    /\ queue' = [queue EXCEPT ![p] = Append(Tail(@), [msg |-> m, time |-> clock])]
    /\ fate' = [fate EXCEPT ![Head(queue[p]).msg] = "evicted", ![m] = "queued"]
    /\ push' = [push EXCEPT ![t] = None]
    /\ out' = [out EXCEPT ![t] = None]
    /\ UNCHANGED <<waiting, notify_map, pc>>

Push(t, p, m) ==
    \/ PushWait(t, p, m) \/ PushRefuse(t, p, m)
    \/ PushAppend(t, p, m) \/ PushReplace(t, p, m)

pushFrame == <<opened, node, is_paused, is_shutdown, do_run, pipe_list,
               mode, vnx_pipe, msg, exitVars, clock>>

\* send_msg() from a thread, or from a handler that a node is executing.
Send(t, p, k) ==
    /\ push[t] = None /\ sent[t] < MaxSend
    /\ t \in Node => pc[t] = "handle"
    /\ sent' = [sent EXCEPT ![t] = @ + 1]
    /\ Push(t, p, [src |-> t, num |-> sent[t] + 1, kind |-> k])
    /\ UNCHANGED pushFrame

\* A thread woken in condition.wait() goes through the loop again.
Retry(t) ==
    /\ push[t] # None /\ t \notin waiting[push[t]]
    /\ Push(t, push[t], out[t])
    /\ UNCHANGED <<sent, pushFrame>>

\* condition.wait() may return without a notification.
SpuriousWake(t) ==
    /\ push[t] # None /\ t \in waiting[push[t]]
    /\ waiting' = [waiting EXCEPT ![push[t]] = @ \ {t}]
    /\ UNCHANGED <<opened, node, queue, is_paused, is_shutdown, nodeVars,
                   readVars, exitVars, sendVars, fate, clock>>

(***************************************************************************)
(* The reader: Node::read(), read_blocking() and pop_msg(), called from    *)
(* ModuleBase::vnx_process()                                               *)
(***************************************************************************)

\* The read function returned null, or the message has been handled.
AfterRead(n) == IF mode[n] = "drain" THEN "close" ELSE "loop"

\* Module::main() and vnx_process(): which read function is called depends on
\* the timers.
ReadBegin(n, md) ==
    /\ pc[n] = "loop" /\ do_run[n]
    /\ pc' = [pc EXCEPT ![n] = "check"]
    /\ mode' = [mode EXCEPT ![n] = md]
    /\ UNCHANGED <<pipeVars, nodeVars, vnx_pipe, msg, exitVars, sendVars, fate, clock>>

\* while(vnx_do_run), without the mutex
ReadCheck(n) ==
    /\ pc[n] = "check"
    /\ pc' = [pc EXCEPT ![n] = IF do_run[n] THEN "lock" ELSE AfterRead(n)]
    /\ UNCHANGED <<pipeVars, nodeVars, mode, vnx_pipe, msg, exitVars, sendVars, fate, clock>>

Notified(n) == {r \in Prio : notify_map[n][r] # <<>>}

\* read() does not look at vnx_do_run again under the mutex.
MayPop(n) == do_run[n] \/ mode[n] \in {"poll", "drain"}

\* pop_next(): notify_map is ordered by priority.
ReadNext(n) ==
    /\ pc[n] = "lock" /\ MayPop(n)
    /\ \E r \in Notified(n) :
         /\ \A s \in Notified(n) : r <= s
         /\ vnx_pipe' = [vnx_pipe EXCEPT ![n] = Head(notify_map[n][r])]
         /\ notify_map' = [notify_map EXCEPT ![n][r] = Tail(@)]
    /\ pc' = [pc EXCEPT ![n] = "pop"]
    /\ UNCHANGED <<pipeVars, do_run, pipe_list, mode, msg, exitVars, sendVars, fate, clock>>

ReadWait(n) ==
    /\ pc[n] = "lock" /\ do_run[n] /\ Notified(n) = {}
    /\ mode[n] \in {"block", "timed"}
    /\ pc' = [pc EXCEPT ![n] = "wait"]
    /\ UNCHANGED <<pipeVars, nodeVars, mode, vnx_pipe, msg, exitVars, sendVars, fate, clock>>

\* A timeout, or a spurious wakeup.
ReadWake(n) ==
    /\ pc[n] = "wait"
    /\ pc' = [pc EXCEPT ![n] = "lock"]
    /\ mode' = [mode EXCEPT ![n] = IF @ = "timed" THEN "once" ELSE @]
    /\ UNCHANGED <<pipeVars, nodeVars, vnx_pipe, msg, exitVars, sendVars, fate, clock>>

ReadNull(n) ==
    /\ pc[n] = "lock"
    /\ \/ ~MayPop(n)
       \/ Notified(n) = {} /\ mode[n] \in {"poll", "once", "drain"}
    /\ vnx_pipe' = [vnx_pipe EXCEPT ![n] = None]
    /\ pc' = [pc EXCEPT ![n] = AfterRead(n)]
    /\ UNCHANGED <<pipeVars, nodeVars, mode, msg, exitVars, sendVars, fate, clock>>

\* Pipe::pop()
ReadPop(n) ==
    /\ pc[n] = "pop" /\ queue[vnx_pipe[n]] # <<>>
    /\ LET p == vnx_pipe[n] IN
         /\ msg' = [msg EXCEPT ![n] = Head(queue[p]).msg]
         /\ queue' = [queue EXCEPT ![p] = Tail(@)]
         /\ fate' = [fate EXCEPT ![Head(queue[p]).msg] = "taken"]
    /\ pc' = [pc EXCEPT ![n] = "signal"]
    /\ UNCHANGED <<opened, node, is_paused, is_shutdown, waiting, nodeVars,
                   mode, vnx_pipe, exitVars, sendVars, clock>>

\* The pipe has been closed since it was notified.
ReadPopEmpty(n) ==
    /\ pc[n] = "pop" /\ queue[vnx_pipe[n]] = <<>>
    /\ pc' = [pc EXCEPT ![n] = "signal"]
    /\ UNCHANGED <<pipeVars, nodeVars, mode, vnx_pipe, msg, exitVars, sendVars,
                   fate, clock>>

\* Mutant: pop() wakes nobody.
NotifyNone(p) == p \in Pipe /\ UNCHANGED waiting

\* condition.notify_one(), after the mutex of the pipe is released
NotifyOne(p) ==
    \/ waiting[p] = {} /\ UNCHANGED waiting
    \/ \E t \in waiting[p] : waiting' = [waiting EXCEPT ![p] = @ \ {t}]

signalFrame == <<opened, node, queue, is_paused, is_shutdown, notify_map,
                 pipe_list, vnx_pipe, exitVars, sendVars, fate, clock>>

\* The message is returned to vnx_process(), which calls handle(msg).
ReadReturn(n) ==
    /\ pc[n] = "signal" /\ msg[n] # None /\ ~SHUTDOWN(msg[n])
    /\ NotifyOne(vnx_pipe[n])
    /\ pc' = [pc EXCEPT ![n] = "handle"]
    /\ UNCHANGED <<do_run, mode, msg, signalFrame>>

\* No message, or one that shuts down the node: the read goes on. A timed read
\* waits only once.
ReadAgain(n) ==
    /\ pc[n] = "signal" /\ (msg[n] # None => SHUTDOWN(msg[n]))
    /\ NotifyOne(vnx_pipe[n])
    /\ do_run' = IF msg[n] = None THEN do_run ELSE [do_run EXCEPT ![n] = FALSE]
    /\ pc' = [pc EXCEPT ![n] = "check"]
    /\ mode' = [mode EXCEPT ![n] = IF @ = "timed" THEN "once" ELSE @]
    /\ msg' = [msg EXCEPT ![n] = None]
    /\ UNCHANGED signalFrame

\* handle(msg) returns.
ReadDone(n) ==
    /\ pc[n] = "handle" /\ push[n] = None
    /\ pc' = [pc EXCEPT ![n] = IF mode[n] = "drain" THEN "check" ELSE "loop"]
    /\ msg' = [msg EXCEPT ![n] = None]
    /\ UNCHANGED <<pipeVars, nodeVars, mode, vnx_pipe, exitVars, sendVars, fate, clock>>

(***************************************************************************)
(* Node::exit(), Node::close() and ModuleBase::vnx_cleanup()               *)
(***************************************************************************)

\* The list of pipes is copied under the mutex of the node.
ExitBegin(c, n) ==
    /\ exiting[c] = None
    /\ do_run' = [do_run EXCEPT ![n] = FALSE]
    /\ exiting' = [exiting EXCEPT ![c] = n]
    /\ todo' = [todo EXCEPT ![c] = pipe_list[n]]

\* exit() called by another thread, or by a handler.
Stop(c, n) ==
    /\ c \in idle
    /\ idle' = idle \ {c}
    /\ ExitBegin(c, n)
    /\ UNCHANGED <<pipeVars, notify_map, pipe_list, readVars, sendVars, fate, clock>>

\* The main loop has ended, vnx_cleanup() calls exit().
Cleanup(n) ==
    /\ pc[n] = "loop" /\ ~do_run[n]
    /\ ExitBegin(n, n)
    /\ pc' = [pc EXCEPT ![n] = "exit"]
    /\ UNCHANGED <<pipeVars, notify_map, pipe_list, mode, vnx_pipe, msg, idle,
                   sendVars, fate, clock>>

\* Pipe::shutdown()
ExitPipe(c, p) ==
    /\ exiting[c] # None /\ p \in todo[c]
    /\ c \in Node => pc[c] = "exit"
    /\ is_shutdown' = [is_shutdown EXCEPT ![p] = TRUE]
    /\ waiting' = [waiting EXCEPT ![p] = {}]
    /\ todo' = [todo EXCEPT ![c] = @ \ {p}]
    /\ UNCHANGED <<opened, node, queue, is_paused, nodeVars, readVars, exiting,
                   idle, sendVars, fate, clock>>

\* Mutant: exit() without condition.notify_all().
WakeNobody(n) == IF n \in Node THEN pc ELSE pc

\* condition.notify_all() under the mutex of the node
WakeReader(n) == IF pc[n] = "wait" THEN [pc EXCEPT ![n] = "lock"] ELSE pc

StopEnd(c) ==
    /\ c \in Stopper /\ exiting[c] # None /\ todo[c] = {}
    /\ pc' = WakeReader(exiting[c])
    /\ exiting' = [exiting EXCEPT ![c] = None]
    /\ UNCHANGED <<pipeVars, nodeVars, mode, vnx_pipe, msg, todo, idle,
                   sendVars, fate, clock>>

\* exit() has returned to vnx_cleanup(), which reads what is left if
\* vnx_clean_exit is set and then closes.
CleanupRead(n) ==
    /\ pc[n] = "exit" /\ todo[n] = {}
    /\ exiting' = [exiting EXCEPT ![n] = None]
    /\ IF n \in CleanExit
         THEN /\ pc' = [pc EXCEPT ![n] = "check"]
              /\ mode' = [mode EXCEPT ![n] = "drain"]
         ELSE /\ pc' = [pc EXCEPT ![n] = "close"]
              /\ UNCHANGED mode
    /\ UNCHANGED <<pipeVars, nodeVars, vnx_pipe, msg, todo, idle, sendVars, fate, clock>>

\* close(): its call of exit() repeats the one above; then the list of pipes is
\* copied, and they are closed one by one without the mutex of the node.
CloseBegin(n) ==
    /\ pc[n] = "close" /\ exiting[n] = None
    /\ do_run' = [do_run EXCEPT ![n] = FALSE]
    /\ exiting' = [exiting EXCEPT ![n] = n]
    /\ todo' = [todo EXCEPT ![n] = pipe_list[n]]
    /\ UNCHANGED <<pipeVars, notify_map, pipe_list, readVars, idle, sendVars, fate, clock>>

CloseEach(n, p) ==
    /\ pc[n] = "close" /\ exiting[n] # None /\ p \in todo[n]
    /\ PipeClose(p)
    /\ todo' = [todo EXCEPT ![n] = @ \ {p}]
    /\ UNCHANGED <<opened, is_paused, is_shutdown, do_run, notify_map, readVars,
                   exiting, idle, sendVars, clock>>

CloseEnd(n) ==
    /\ pc[n] = "close" /\ exiting[n] # None /\ todo[n] = {}
    /\ pipe_list' = [pipe_list EXCEPT ![n] = {}]
    /\ vnx_pipe' = [vnx_pipe EXCEPT ![n] = None]
    /\ exiting' = [exiting EXCEPT ![n] = None]
    /\ pc' = [pc EXCEPT ![n] = "closed"]
    /\ mode' = [mode EXCEPT ![n] = "poll"]
    /\ UNCHANGED <<pipeVars, do_run, notify_map, msg, todo, idle, sendVars, fate, clock>>

\* Module::vnx_entry() with do_restart; vnx_setup() opens new pipes.
Restart(n) ==
    /\ pc[n] = "closed"
    /\ do_run' = [do_run EXCEPT ![n] = TRUE]
    /\ pc' = [pc EXCEPT ![n] = "loop"]
    /\ UNCHANGED <<pipeVars, notify_map, pipe_list, mode, vnx_pipe, msg,
                   exitVars, sendVars, fate, clock>>

Tick ==
    /\ clock < MaxTime
    /\ clock' = clock + 1
    /\ UNCHANGED <<pipeVars, nodeVars, readVars, exitVars, sendVars, fate>>

(***************************************************************************)
(* The specification                                                       *)
(***************************************************************************)

ReaderStep(n) ==
    \/ \E md \in ReadMode : ReadBegin(n, md)
    \/ ReadCheck(n) \/ ReadNext(n) \/ ReadWait(n) \/ ReadNull(n)
    \/ ReadPop(n) \/ ReadPopEmpty(n) \/ ReadReturn(n) \/ ReadAgain(n) \/ ReadDone(n)

OwnerStep(n) ==
    \/ Cleanup(n) \/ CleanupRead(n) \/ CloseBegin(n) \/ CloseEnd(n)
    \/ \E p \in Pipe : CloseEach(n, p) \/ ExitPipe(n, p)

StopperStep(c) == StopEnd(c) \/ \E p \in Pipe : ExitPipe(c, p)

Next ==
    \/ \E p \in Pipe, n \in Node : <<p, n>> \in Opens /\ Connect(p, n)
    \/ \E p \in Pausing : Pause(p) \/ Resume(p)
    \/ \E p \in Closing : ClosePipe(p)
    \/ \E t \in Thread, p \in Pipe, k \in Kind : <<t, p>> \in Route /\ Send(t, p, k)
    \/ \E t \in Thread : Retry(t) \/ SpuriousWake(t)
    \/ \E n \in Node : ReaderStep(n) \/ OwnerStep(n) \/ ReadWake(n)
    \/ \E n \in Restarting : Restart(n)
    \/ \E c \in Stopper : StopperStep(c) \/ \E n \in Node : Stop(c, n)
    \/ Tick

Spec == Init /\ [][Next]_vars

\* The threads that have something to do are scheduled; nothing is assumed of
\* the environment, which need not send, stop, resume or tick.
Fairness ==
    /\ \A n \in Node : WF_vars(ReaderStep(n) \/ OwnerStep(n))
    /\ \A c \in Stopper : WF_vars(StopperStep(c))
    /\ \A t \in Thread : WF_vars(Retry(t))

FairSpec == Spec /\ Fairness

(***************************************************************************)
(* Properties                                                              *)
(***************************************************************************)

\* How often pipe p stands in a queue of notifications.
Count(s, p) == Cardinality({i \in DOMAIN s : s[i] = p})

\* 1 while the reader of p has taken a notification but not popped the pipe.
Held(p) == IF pc[node[p]] = "pop" /\ vnx_pipe[node[p]] = p THEN 1 ELSE 0

\* No message is stranded: a pipe that belongs to a node has exactly one
\* notification (queued, or just taken by the reader) for every message in its
\* queue, although messages are replaced without a notification, popped after
\* the node's mutex is released, and pipes are closed in between. A pipe without
\* a node holds no message. (Pipe::push, do_notify; Node::pop_next; Pipe::close)
NotStranded ==
    \A p \in Pipe :
       IF node[p] = None
         THEN queue[p] = <<>>
         ELSE Len(queue[p]) = Count(notify_map[node[p]][Priority[p]], p) + Held(p)

\* close() leaves no pipe behind: once it has returned no pipe refers to the
\* node, which may then be deleted, whatever opens raced with it.
\* (Node::add_pipe tests vnx_do_run; "make sure no more pipes can connect")
NoDanglingNode ==
    \A n \in Node, p \in Pipe : pc[n] = "closed" => node[p] # n

\* "Will shutdown all pipes, to prevent any new messages from being added to
\* the queues" (Node.h, exit): when exit() has returned to the module, every
\* pipe of the node refuses messages.
ExitShutsPipes ==
    \A n \in Node, p \in Pipe :
       (pc[n] = "close" \/ mode[n] = "drain") /\ node[p] = n => is_shutdown[p]

\* Pipe::push never drops a BLOCKING message for a newer one, and a request that
\* was accepted is handled or answered by close(), never silently lost.
RequestsKept ==
    \A m \in Message :
       /\ BLOCKING(m) => fate[m] # "evicted"
       /\ IsRequest(m) => fate[m] # "discarded"

\* The queue never exceeds max_queue_size, by any number of senders.
QueueBounded ==
    \A p \in Pipe : MaxSize[p] > 0 => Len(queue[p]) <= MaxSize[p]

\* "The maximum queue size is specified in terms of maximum latency" (Pipe.h):
\* but for the newest one, messages in a pipe of the default mode were pushed
\* less than max_queue_us after the oldest.
LatencyBounded ==
    \A p \in Pipe \ Latest :
       \A i \in 1..(Len(queue[p]) - 1) :
          MaxUs[p] > 0 => queue[p][i].time - Head(queue[p]).time < MaxUs[p]

\* vnx_clean_exit is documented "If to process all remaining messages on
\* shutdown" (ModuleBase.h): when vnx_cleanup() comes to close the node, nothing
\* is left in its pipes. Refuted: exit() has cleared vnx_do_run, and read()
\* returns null at once.
CleanExitProcessesAll ==
    \A n \in CleanExit, p \in Pipe :
       pc[n] = "close" /\ exiting[n] = None /\ node[p] = n => queue[p] = <<>>

\* A thread blocked in push() comes back.
SenderReturns == \A t \in Thread : push[t] # None ~> push[t] = None

\* "notify that pipe is closed now" (Pipe::close): a thread blocked in push() of
\* a pipe that was closed comes back. Refuted when the pipe is paused.
ClosedReleasesSenders ==
    \A t \in Thread, p \in Pipe :
       push[t] = p /\ node[p] = None ~> push[t] # p

\* A module that is told to exit closes.
ExitCompletes == \A n \in Node : ~do_run[n] ~> pc[n] = "closed"

\* A message that was accepted leaves its pipe.
AcceptedLeaves == \A m \in Message : fate[m] = "queued" ~> fate[m] # "queued"

(***************************************************************************)
(* The safety behind the liveness: no wake-up is lost                      *)
(***************************************************************************)

\* The reader sleeps only while its pipes are empty and nobody told it to exit,
\* or an exit() that will wake it is under way, although messages are pushed and
\* vnx_do_run is cleared with other mutexes or none (Node::notify, read_blocking
\* and exit).
ReaderAwake ==
    \A n \in Node : pc[n] = "wait" =>
       /\ \A p \in Pipe : node[p] = n => queue[p] = <<>>
       /\ do_run[n] \/ \E c \in Stopper : exiting[c] = n

\* Somebody is about to look at the waiters of p: a thread that was woken and goes
\* through the loop of push() again, or a reader that has popped.
Stirred(p) ==
    \/ \E t \in Thread : push[t] = p /\ t \notin waiting[p]
    \/ \E n \in Node : pc[n] = "signal" /\ vnx_pipe[n] = p

\* A thread that waits in push() is not forgotten: its pipe is paused, or somebody
\* is about to look, or there are messages that an awake reader will pop, each time
\* with a notification; although pop() wakes one thread only, and that one may
\* not use the room (Pipe::push, pop, close, shutdown and resume).
SendersKnown ==
    \A p \in Pipe : waiting[p] # {} =>
       \/ is_paused[p]
       \/ Stirred(p)
       \/ node[p] # None /\ queue[p] # <<>> /\ pc[node[p]] # "wait"

(***************************************************************************)
(* The inductive invariant behind NotStranded, NoDanglingNode and          *)
(* ExitShutsPipes (see PipeNodeProofs)                                     *)
(***************************************************************************)

Shape ==
    /\ \A t \in Thread : push[t] # None => out[t] # None
    /\ \A n \in Node : pc[n] \in {"pop", "signal"} => vnx_pipe[n] # None

\* A pipe is only ever known to the one node it was opened for.
Owned ==
    /\ \A p \in Pipe : node[p] # None => p \in opened /\ p \in pipe_list[node[p]]
    /\ \A n \in Node, r \in Prio : \A i \in DOMAIN notify_map[n][r] :
          LET p == notify_map[n][r][i] IN
             Priority[p] = r /\ p \in opened /\ node[p] \in {n, None}
    /\ \A n \in Node : pc[n] = "pop" =>
          vnx_pipe[n] \in opened /\ node[vnx_pipe[n]] \in {n, None}

\* What exit() and close() of a module have already done.
Stopping ==
    \A n \in Node :
       /\ pc[n] \in {"exit", "close", "closed"} \/ mode[n] = "drain" => ~do_run[n]
       /\ mode[n] = "drain" =>
             pc[n] \in {"check", "lock", "pop", "signal", "handle", "close"}
       /\ exiting[n] # None => pc[n] \in {"exit", "close"}
       /\ \A p \in Pipe : node[p] = n =>
             /\ pc[n] = "exit" => is_shutdown[p] \/ p \in todo[n]
             /\ pc[n] = "close" /\ exiting[n] # None => p \in todo[n]

\* The conjunction is inductive; the second to fourth conjuncts are there for
\* the sake of the last three. (Pipe::connect, Pipe::close, Node::exit and
\* Node::close together)
IndInv ==
    /\ TypeOK /\ Shape /\ Owned /\ Stopping
    /\ NotStranded /\ NoDanglingNode /\ ExitShutsPipes


(***************************************************************************)
(* The refinement of MessageChannel                                        *)
(***************************************************************************)

Became(f) == {m \in Message : fate[m] = f}
Msgs(q)   == [i \in DOMAIN q |-> q[i].msg]
Attached  == {p \in Pipe : node[p] # None}
Accepted  == [p \in Pipe |-> Msgs(queue[p])]

Channel == INSTANCE MessageChannel WITH
    Blocking  <- BLOCKING,
    Request   <- IsRequest,
    open      <- Attached,
    pending   <- Accepted,
    delivered <- Became("taken"),
    answered  <- Became("bounced"),
    dropped   <- Became("evicted") \cup Became("discarded")

\* Every step of the pipes, nodes and senders is a step of MessageChannel or
\* changes nothing there: nothing is delivered twice, out of order, or from a
\* closed pipe; nothing accepted disappears. (Pipe::push, pop and close)
ImplementsChannel == Channel!Spec

(***************************************************************************)
(* The inductive invariant behind ReaderAwake and SendersKnown             *)
(***************************************************************************)

\* Who waits in push() does so for a message that may wait.
Blocked ==
    /\ \A t \in Thread, p \in Pipe : t \in waiting[p] => push[t] = p
    /\ \A t \in Thread : push[t] # None => BLOCKING(out[t]) /\ ~NON_BLOCKING(out[t])

\* The reader sleeps without notifications, and is told to exit while it does
\* only by other threads.
Asleep ==
    \A n \in Node : pc[n] = "wait" =>
       /\ Notified(n) = {}
       /\ do_run[n] \/ \E c \in Stopper : exiting[c] = n

\* The waiters of a pipe; a pipe that is shut down has none, and one without a
\* node only while it is paused.
Waiters ==
    \A p \in Pipe : waiting[p] # {} =>
       /\ ~is_shutdown[p]
       /\ node[p] = None => is_paused[p]
       /\ is_paused[p] \/ Stirred(p) \/ queue[p] # <<>>

WakeInv == Blocked /\ Asleep /\ Waiters

=============================================================================
