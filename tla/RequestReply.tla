---------------------------- MODULE RequestReply ----------------------------
(***************************************************************************)
(* Remote procedure calls within a process: vnx::Client, which waits for   *)
(* the answer, vnx::AsyncClient, whose module gets a callback, and a       *)
(* service, a module that answers at once or later, by the call            *)
(* vnx_async_return() of another thread (ModuleBase::handle, vnx_cleanup). *)
(*                                                                         *)
(* Instances of the service open a pipe known by the same address, one     *)
(* after the other or at the same time. Each may be told to exit while it  *)
(* handles a request; what is left in its pipe, and what it has promised   *)
(* to answer later, is then answered by exceptions. The pipes of PipeNode  *)
(* are here the list of messages in them, and exit() is one step.          *)
(***************************************************************************)
EXTENDS Integers, Sequences, FiniteSets

CONSTANTS
    None,
    Service,        \* instances of the service, numbered as they start
    MaxQueueSize,   \* max_queue_size of its pipe, 0 is UNLIMITED
    Client,         \* clients
    Async,          \* those that are an AsyncClient
    NonBlocking,    \* those with vnx_is_non_blocking
    Thread,         \* threads that make calls
    ClientOf,       \* the client each uses; an AsyncClient has one thread
    MaxCalls,       \* bound: calls by each thread
    MaxId           \* bound: requests of each client

Id == 1..MaxId

Request == [src : Client, id : Id, NO_RETURN : BOOLEAN]

ASSUME ConstantsAssumption ==
    /\ Service \subseteq Nat /\ None \notin Service \cup Request
    /\ MaxQueueSize \in Nat /\ MaxId \in Nat /\ MaxCalls \in [Thread -> Nat]
    /\ Async \subseteq Client /\ NonBlocking \subseteq Client
    /\ ClientOf \in [Thread -> Client]

VARIABLES
    pipe_map,       \* the pipe registered for the address of the service
    state,          \* how far an instance is in its life
    queue,          \* the requests in its pipe
    vnx_request,    \* ModuleBase::vnx_request, the request it is handling
    async_requests, \* ModuleBase::async_requests
    jobs,           \* the requests other threads are to answer
    returning,      \* those whose answer vnx_async_return() is about to send
    leftover,       \* Pipe::close()'s leftover
    service_pipe,   \* vnx_service_pipe of a client
    next_id,        \* vnx_next_id of a client
    inbox,          \* the returns in its vnx_return_pipe
    pending,        \* vnx_pending of an AsyncClient
    ended,          \* how far the module of an AsyncClient is with vnx_cleanup()
    at,             \* where a thread is in vnx_request()
    request,        \* the request of the call
    target,         \* service_pipe of the call
    calls,          \* calls it has left
    answers,        \* how often a request was answered (history)
    called          \* how often its callback was called (history)

serviceVars == <<pipe_map, state, queue, vnx_request, async_requests, jobs, returning, leftover>>
callVars    == <<at, request, target, calls>>
vars == <<serviceVars, service_pipe, next_id, inbox, pending, ended, callVars, answers, called>>

TypeOK ==
    /\ pipe_map \in Service \cup {None}
    /\ state \in [Service -> {"new", "run", "exit", "close", "cancel", "gone"}]
    /\ queue \in [Service -> Seq(Request)]
    /\ vnx_request \in [Service -> Request \cup {None}]
    /\ async_requests \in [Service -> SUBSET Request]
    /\ jobs \in [Service -> SUBSET Request]
    /\ returning \subseteq Request
    /\ leftover \in [Service -> Seq(Request)]
    /\ service_pipe \in [Client -> Service \cup {None}]
    /\ next_id \in [Client -> Nat]
    /\ inbox \in [Client -> Seq(Nat)]
    /\ pending \in [Client -> SUBSET Nat]
    /\ ended \in [Client -> {"no", "closed", "yes"}]
    /\ at \in [Thread -> {"idle", "send", "read"}]
    /\ request \in [Thread -> Request \cup {None}]
    /\ target \in [Thread -> Service \cup {None}]
    /\ calls \in [Thread -> Nat]
    /\ answers \in [Request -> Nat]
    /\ called \in [Client -> [Id -> Nat]]

Init ==
    /\ pipe_map = None
    /\ state = [s \in Service |-> "new"]
    /\ queue = [s \in Service |-> <<>>]
    /\ vnx_request = [s \in Service |-> None]
    /\ async_requests = [s \in Service |-> {}]
    /\ jobs = [s \in Service |-> {}]
    /\ returning = {}
    /\ leftover = [s \in Service |-> <<>>]
    /\ service_pipe = [c \in Client |-> None]
    /\ next_id = [c \in Client |-> 0]
    /\ inbox = [c \in Client |-> <<>>]
    /\ pending = [c \in Client |-> {}]
    /\ ended = [c \in Client |-> "no"]
    /\ at = [t \in Thread |-> "idle"]
    /\ request = [t \in Thread |-> None]
    /\ target = [t \in Thread |-> None]
    /\ calls = MaxCalls
    /\ answers = [r \in Request |-> 0]
    /\ called = [c \in Client |-> [i \in Id |-> 0]]

-----------------------------------------------------------------------------
(* The service. *)

Closed(s) == state[s] \in {"new", "close", "cancel", "gone"}

\* A return is sent to its client, whose pipe is never full.
Answer(r) ==
    /\ answers' = [answers EXCEPT ![r] = @ + 1]
    /\ inbox' = IF ended[r.src] = "no"
                THEN [inbox EXCEPT ![r.src] = Append(@, r.id)] ELSE inbox

\* A new instance opens its pipe, which replaces another of that address.
Start(s) ==
    /\ state[s] = "new" /\ \A k \in Service : k < s => state[k] # "new"
    /\ state' = [state EXCEPT ![s] = "run"]
    /\ pipe_map' = s
    /\ UNCHANGED <<queue, vnx_request, async_requests, jobs, returning, leftover, service_pipe,
                   next_id, inbox, pending, ended, callVars, answers, called>>

\* handle() of the next request, which is in async_requests before the method is
\* called. If it is one that returns later, another thread may know it now.
Take(s) ==
    /\ state[s] = "run" /\ vnx_request[s] = None /\ queue[s] # <<>>
    /\ LET r == Head(queue[s]) IN
         /\ queue' = [queue EXCEPT ![s] = Tail(@)]
         /\ vnx_request' = [vnx_request EXCEPT ![s] = r]
         /\ async_requests' = [async_requests EXCEPT ![s] = @ \cup {r}]
         /\ jobs' \in {jobs, [jobs EXCEPT ![s] = @ \cup {r}]}
    /\ UNCHANGED <<pipe_map, state, returning, leftover, service_pipe, next_id, inbox,
                   pending, ended, callVars, answers, called>>

\* The method has returned a value, or thrown: it is answered now.
Reply(s) ==
    LET r == vnx_request[s] IN
    /\ r # None /\ r \notin jobs[s] /\ r \in async_requests[s]
    /\ vnx_request' = [vnx_request EXCEPT ![s] = None]
    /\ async_requests' = [async_requests EXCEPT ![s] = @ \ {r}]
    /\ IF r.NO_RETURN THEN UNCHANGED <<answers, inbox>> ELSE Answer(r)
    /\ UNCHANGED <<pipe_map, state, queue, jobs, returning, leftover, service_pipe, next_id,
                   pending, ended, callVars, called>>

\* The method returns nothing: its answer comes later, or was given already.
Defer(s) ==
    LET r == vnx_request[s] IN
    /\ r # None /\ (r \in jobs[s] \/ r \notin async_requests[s])
    /\ vnx_request' = [vnx_request EXCEPT ![s] = None]
    /\ UNCHANGED <<pipe_map, state, queue, async_requests, jobs, returning, leftover,
                   service_pipe, next_id, inbox, pending, ended, callVars, answers, called>>

\* Mutant: the request is not removed.
AsyncReturnKeeps(s, r) ==
    /\ r \in jobs[s]
    /\ jobs' = [jobs EXCEPT ![s] = @ \ {r}]
    /\ returning' = IF r \in async_requests[s] THEN returning \cup {r} ELSE returning
    /\ UNCHANGED <<pipe_map, state, queue, vnx_request, async_requests, leftover, service_pipe,
                   next_id, inbox, pending, ended, callVars, answers, called>>

\* vnx_async_return() by another thread: the request is removed, if it has not
\* been cancelled, under the mutex, and answered after that. The flags of the
\* return have lost NO_RETURN.
AsyncReturn(s, r) ==
    /\ r \in jobs[s]
    /\ jobs' = [jobs EXCEPT ![s] = @ \ {r}]
    /\ async_requests' = [async_requests EXCEPT ![s] = @ \ {r}]
    /\ returning' = IF r \in async_requests[s] THEN returning \cup {r} ELSE returning
    /\ UNCHANGED <<pipe_map, state, queue, vnx_request, leftover, service_pipe,
                   next_id, inbox, pending, ended, callVars, answers, called>>

AsyncSend(r) ==
    /\ r \in returning
    /\ returning' = returning \ {r}
    /\ Answer(r)
    /\ UNCHANGED <<pipe_map, state, queue, vnx_request, async_requests, jobs, leftover,
                   service_pipe, next_id, pending, ended, callVars, called>>

\* exit(), at any time.
Exit(s) ==
    /\ state[s] = "run"
    /\ state' = [state EXCEPT ![s] = "exit"]
    /\ UNCHANGED <<pipe_map, queue, vnx_request, async_requests, jobs, returning, leftover,
                   service_pipe, next_id, inbox, pending, ended, callVars, answers, called>>

\* Mutant: what is in the pipe is dropped.
CloseDrops(s) ==
    /\ state[s] = "exit" /\ vnx_request[s] = None
    /\ state' = [state EXCEPT ![s] = "close"]
    /\ pipe_map' = None
    /\ queue' = [queue EXCEPT ![s] = <<>>]
    /\ UNCHANGED <<vnx_request, async_requests, jobs, returning, leftover, service_pipe,
                   next_id, inbox, pending, ended, callVars, answers, called>>

\* vnx_cleanup() closes the pipe, which removes its address from the map whoever
\* is registered there, and takes what is left in it.
Close(s) ==
    /\ state[s] = "exit" /\ vnx_request[s] = None
    /\ state' = [state EXCEPT ![s] = "close"]
    /\ pipe_map' = None
    /\ leftover' = [leftover EXCEPT ![s] = queue[s]]
    /\ queue' = [queue EXCEPT ![s] = <<>>]
    /\ UNCHANGED <<vnx_request, async_requests, jobs, returning, service_pipe, next_id,
                   inbox, pending, ended, callVars, answers, called>>

\* Each is answered by NoSuchService.
Leftover(s) ==
    /\ state[s] = "close"
    /\ IF leftover[s] # <<>>
       THEN /\ Answer(Head(leftover[s]))
            /\ leftover' = [leftover EXCEPT ![s] = Tail(@)]
            /\ UNCHANGED state
       ELSE /\ state' = [state EXCEPT ![s] = "cancel"]
            /\ UNCHANGED <<leftover, answers, inbox>>
    /\ UNCHANGED <<pipe_map, queue, vnx_request, async_requests, jobs, returning, service_pipe,
                   next_id, pending, ended, callVars, called>>

\* Mutant: async_requests is cleared without an answer.
CancelClears(s) ==
    /\ state[s] = "cancel"
    /\ async_requests' = [async_requests EXCEPT ![s] = {}]
    /\ state' = [state EXCEPT ![s] = "gone"]
    /\ UNCHANGED <<pipe_map, queue, vnx_request, jobs, returning, leftover, service_pipe,
                   next_id, inbox, pending, ended, callVars, answers, called>>

\* What was to be answered later is answered by NoSuchService, under the mutex.
Cancel(s) ==
    /\ state[s] = "cancel"
    /\ \/ \E r \in async_requests[s] :
            /\ Answer(r)
            /\ async_requests' = [async_requests EXCEPT ![s] = @ \ {r}]
            /\ UNCHANGED state
       \/ /\ async_requests[s] = {}
          /\ state' = [state EXCEPT ![s] = "gone"]
          /\ UNCHANGED <<async_requests, answers, inbox>>
    /\ UNCHANGED <<pipe_map, queue, vnx_request, jobs, returning, leftover, service_pipe,
                   next_id, pending, ended, callVars, called>>

-----------------------------------------------------------------------------
(* The clients. *)

\* An error that an AsyncClient sends itself, in place of an answer.
Fail(c, id) == inbox' = IF c \in Async THEN [inbox EXCEPT ![c] = Append(@, id)] ELSE inbox

\* vnx_request() up to send_msg(): the pipe of the service is looked up again if
\* it is closed. Without one the call fails.
Call(t, noReturn) ==
    LET c  == ClientOf[t]
        s  == service_pipe[c]
        p  == IF s = None \/ Closed(s) THEN pipe_map ELSE s
        id == next_id[c] + 1
    IN  /\ at[t] = "idle" /\ calls[t] > 0 /\ ended[c] = "no"
        /\ id \in Id /\ (noReturn => c \notin Async)
        /\ calls' = [calls EXCEPT ![t] = @ - 1]
        /\ service_pipe' = [service_pipe EXCEPT ![c] = p]
        /\ IF p = None /\ c \notin Async
           THEN UNCHANGED <<next_id, pending, at, request, target, inbox>>
           ELSE /\ next_id' = [next_id EXCEPT ![c] = id]
                /\ pending' = IF c \in Async THEN [pending EXCEPT ![c] = @ \cup {id}] ELSE pending
                /\ request' = [request EXCEPT ![t] = [src |-> c, id |-> id, NO_RETURN |-> noReturn]]
                /\ target' = [target EXCEPT ![t] = p]
                /\ IF p = None THEN Fail(c, id) /\ UNCHANGED at
                   ELSE at' = [at EXCEPT ![t] = "send"] /\ UNCHANGED inbox
        /\ UNCHANGED <<serviceVars, ended, answers, called>>

Full(s) == MaxQueueSize > 0 /\ Len(queue[s]) >= MaxQueueSize

\* send_msg(): the pipe is shut or closed, or full for a client that does not
\* block, and the call fails; or it takes the request.
Send(t) ==
    LET c == ClientOf[t]
        s == target[t]
        r == request[t]
        refused == Closed(s) \/ state[s] = "exit"
    IN  /\ at[t] = "send"
        /\ \/ /\ refused
              /\ service_pipe' = [service_pipe EXCEPT ![c] = IF @ = s THEN None ELSE @]
              /\ at' = [at EXCEPT ![t] = "idle"]
              /\ Fail(c, r.id)
              /\ UNCHANGED queue
           \/ /\ ~ refused /\ Full(s) /\ c \in NonBlocking
              /\ at' = [at EXCEPT ![t] = "idle"]
              /\ Fail(c, r.id)
              /\ UNCHANGED <<queue, service_pipe>>
           \/ /\ ~ refused /\ ~ Full(s)
              /\ queue' = [queue EXCEPT ![s] = Append(@, r)]
              /\ at' = [at EXCEPT ![t] = IF r.NO_RETURN \/ c \in Async THEN "idle" ELSE "read"]
              /\ UNCHANGED <<service_pipe, inbox>>
        /\ UNCHANGED <<pipe_map, state, vnx_request, async_requests, jobs, returning, leftover,
                       next_id, pending, ended, request, target, calls, answers, called>>

\* The loop that waits for the answer drops those to other requests.
Read(t) ==
    LET c == ClientOf[t] IN
    /\ at[t] = "read" /\ inbox[c] # <<>>
    /\ inbox' = [inbox EXCEPT ![c] = Tail(@)]
    /\ at' = [at EXCEPT ![t] = IF Head(inbox[c]) = request[t].id THEN "idle" ELSE "read"]
    /\ UNCHANGED <<serviceVars, service_pipe, next_id, pending, ended, request, target, calls,
                   answers, called>>

\* Mutant: the request stays pending.
CallbackKeeps(t) ==
    LET c == ClientOf[t]  id == Head(inbox[c]) IN
    /\ c \in Async /\ at[t] = "idle" /\ ended[c] = "no" /\ inbox[c] # <<>>
    /\ inbox' = [inbox EXCEPT ![c] = Tail(@)]
    /\ called' = [called EXCEPT ![c][id] = @ + 1]
    /\ UNCHANGED <<pending, serviceVars, service_pipe, next_id, ended, callVars, answers>>

\* The module handles a return: vnx_callback(), for a request that is pending.
Callback(t) ==
    LET c == ClientOf[t]  id == Head(inbox[c]) IN
    /\ c \in Async /\ at[t] = "idle" /\ ended[c] = "no" /\ inbox[c] # <<>>
    /\ inbox' = [inbox EXCEPT ![c] = Tail(@)]
    /\ IF id \in pending[c]
       THEN /\ pending' = [pending EXCEPT ![c] = @ \ {id}]
            /\ called' = [called EXCEPT ![c][id] = @ + 1]
       ELSE UNCHANGED <<pending, called>>
    /\ UNCHANGED <<serviceVars, service_pipe, next_id, ended, callVars, answers>>

\* The module of an AsyncClient ends: vnx_cleanup() closes the return pipe, then
\* vnx_shutdown() calls the error callbacks.
ModuleClose(t) ==
    LET c == ClientOf[t] IN
    /\ c \in Async /\ at[t] = "idle" /\ ended[c] = "no"
    /\ ended' = [ended EXCEPT ![c] = "closed"]
    /\ inbox' = [inbox EXCEPT ![c] = <<>>]
    /\ UNCHANGED <<serviceVars, service_pipe, next_id, pending, callVars, answers, called>>

Shutdown(t) ==
    LET c == ClientOf[t] IN
    /\ ended[c] = "closed"
    /\ ended' = [ended EXCEPT ![c] = "yes"]
    /\ service_pipe' = [service_pipe EXCEPT ![c] = None]
    /\ pending' = [pending EXCEPT ![c] = {}]
    /\ called' = [called EXCEPT ![c] = [i \in DOMAIN @ |-> @[i] + (IF i \in pending[c] THEN 1 ELSE 0)]]
    /\ UNCHANGED <<serviceVars, next_id, inbox, callVars, answers>>

-----------------------------------------------------------------------------
ServiceStep(s) == Take(s) \/ Reply(s) \/ Defer(s) \/ Close(s) \/ Leftover(s) \/ Cancel(s)

WorkerStep == \E r \in Request : AsyncSend(r) \/ \E s \in Service : AsyncReturn(s, r)

\* A call that is under way, or a module that reads or ends.
CallStep(t) == Send(t) \/ Read(t) \/ Callback(t) \/ Shutdown(t)

Next ==
    \/ \E s \in Service : Start(s) \/ Exit(s) \/ ServiceStep(s)
    \/ WorkerStep
    \/ \E t \in Thread :
         CallStep(t) \/ ModuleClose(t) \/ \E noReturn \in BOOLEAN : Call(t, noReturn)

Spec == Init /\ [][Next]_vars

\* Threads run, methods return, and what is promised for later is answered.
\* No instance has to start or to exit.
FairSpec ==
    /\ Spec
    /\ \A s \in Service : WF_vars(ServiceStep(s))
    /\ \A r \in Request : WF_vars(AsyncSend(r) \/ \E s \in Service : AsyncReturn(s, r))
    /\ \A t \in Thread : WF_vars(CallStep(t))

-----------------------------------------------------------------------------
(* Properties. *)

\* A request is answered at most once, although the service, the thread it left
\* the answer to, and the end of the module may all try (ModuleBase.cpp:433,
\* 458, 618; Pipe.cpp:227).
OneAnswer == \A r \in Request : answers[r] <= 1

\* The places where an instance keeps a request that it has yet to answer.
Held(r) ==
    \/ r \in returning
    \/ \E s \in Service :
         \/ \E i \in DOMAIN queue[s] : queue[s][i] = r
         \/ \E i \in DOMAIN leftover[s] : leftover[s][i] = r
         \/ r \in async_requests[s]

Received(c, id) == \E i \in DOMAIN inbox[c] : inbox[c][i] = id

\* Whoever waits has an answer coming: the request is with an instance that has
\* not finished with it, or the return is in the client's pipe. A second thread
\* that uses the client would take it away (Client.cpp:142).
AnswerComing ==
    \A t \in Thread :
        LET c == ClientOf[t] IN
        /\ at[t] = "read" => Held(request[t]) \/ Received(c, request[t].id)
        /\ ended[c] = "no" =>
             \A id \in pending[c] :
                 \/ at[t] = "send" /\ request[t].id = id
                 \/ Held([src |-> c, id |-> id, NO_RETURN |-> FALSE])
                 \/ Received(c, id)

\* The callback of an asynchronous call runs once, by the time its module has
\* ended (AsyncClient.cpp:85, 105).
CalledOnce ==
    \A c \in Async : \A id \in 1..next_id[c] :
        called[c][id] = IF id \in pending[c] THEN 0 ELSE 1

\* "Client is [thread-safe] now" (Client.h:33): a call returns, with the answer
\* or an exception, and so do the callbacks. Refuted for two threads that use
\* one client: each drops the answers of the other.
CallReturns ==
    \A t \in Thread : []<>(at[t] = "idle" /\ pending[ClientOf[t]] = {})

-----------------------------------------------------------------------------
(* What the proofs rest on. *)

Shape ==
    \A t \in Thread : at[t] = "send" => request[t] \in Request /\ target[t] \in Service

\* Where a request may be: with the thread that sends it, in a pipe, left over
\* from one, promised for later, about to be answered, or answered.
Kind  == {"send", "queue", "leftover", "async", "returning", "answered"}
Owner == Thread \cup Service \cup {None}

Place(r, k, x) ==
    \/ k = "send" /\ x \in Thread /\ at[x] = "send" /\ request[x] = r
    \/ k = "queue" /\ x \in Service /\ \E i \in DOMAIN queue[x] : queue[x][i] = r
    \/ k = "leftover" /\ x \in Service /\ \E i \in DOMAIN leftover[x] : leftover[x][i] = r
    \/ k = "async" /\ x \in Service /\ r \in async_requests[x]
    \/ k = "returning" /\ x = None /\ r \in returning
    \/ k = "answered" /\ x = None /\ answers[r] > 0

\* It is in one place only, and once,
OnePlace ==
    \A r \in Request : \A k, l \in Kind : \A x, y \in Owner :
        Place(r, k, x) /\ Place(r, l, y) => k = l /\ x = y
Injective(q) == \A i, j \in DOMAIN q : q[i] = q[j] => i = j
Once == \A s \in Service : Injective(queue[s]) /\ Injective(leftover[s])

\* and has a number that its client has used.
Numbered ==
    \A r \in Request : \A k \in Kind : \A x \in Owner :
        Place(r, k, x) => r.id <= next_id[r.src]

\* The numbers of a client, and the calls of its callbacks.
Called ==
    /\ \A c \in Client : next_id[c] <= MaxId /\ pending[c] \subseteq 1..next_id[c]
    /\ \A c \in Async : \A id \in Id :
          called[c][id] = IF id \in pending[c] \/ id > next_id[c] THEN 0 ELSE 1

IndInv == TypeOK /\ Shape /\ OnePlace /\ Once /\ Numbered /\ OneAnswer /\ Called

\* Whoever waits has an answer coming when clients are not shared.
OneThreadEach == \A t, u \in Thread : ClientOf[t] = ClientOf[u] => t = u

Waiting ==
    /\ \A t \in Thread : at[t] # "idle" =>
         /\ request[t] \in Request /\ request[t].src = ClientOf[t]
         /\ at[t] = "read" => ~ request[t].NO_RETURN /\ ClientOf[t] \notin Async
         /\ ClientOf[t] \in Async => ~ request[t].NO_RETURN
    /\ \A c \in Client \ Async : ended[c] = "no" /\ pending[c] = {}
    /\ \A s \in Service : state[s] \in {"new", "run", "exit"} => leftover[s] = <<>>
=============================================================================
