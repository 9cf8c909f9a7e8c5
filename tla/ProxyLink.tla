------------------------------ MODULE ProxyLink ------------------------------
(***************************************************************************)
(* A proxy that forwards requests to another process: vnx::BaseProxy and   *)
(* vnx::Proxy. Its main thread handles the messages in its pipes and       *)
(* writes to the socket; its read thread makes the connection, reads the   *)
(* returns, and tells the main thread of every connection and              *)
(* disconnection by a call that waits for the answer.                      *)
(*                                                                         *)
(* The connection may break at any time, with requests and returns under   *)
(* way. Requests that were written are kept in request_map, so that they   *)
(* can be answered by an exception when the connection is lost or the      *)
(* proxy ends; pipes may be paused until there is a new connection. The    *)
(* other end is what it is for the proxy: it answers, in any order.        *)
(***************************************************************************)
EXTENDS Naturals, Sequences, FiniteSets

CONSTANTS
    None,
    Client,         \* clients, each with one thread, that call through the proxy
    Config,         \* configurations of the proxy
    MaxCalls,       \* bound: calls of each client
    MaxConnect      \* bound: connections the read thread makes

Option == {"endpoint", "no_retry", "block_until_connect", "block_until_reconnect"}

Request == [method : {"request"}, src : Client, id : 1..MaxCalls]
OwnCall == [method : {"on_connect", "on_disconnect"}]

ASSUME ConstantsAssumption ==
    /\ Config \subseteq SUBSET Option
    /\ MaxCalls \in Nat /\ MaxConnect \in Nat /\ None \notin Request

VARIABLES
    config,         \* the options that are set; "endpoint" if it may connect
    do_run,         \* Node::vnx_do_run, and whether its pipes take messages
    queue,          \* the messages in its pipes
    paused,         \* whether the pipes of the forwarded services are paused
    is_connected,   \* BaseProxy::is_connected
    request_map,    \* BaseProxy::request_map
    main,           \* the place of the main thread
    current,        \* the request it has written
    reader,         \* the place of the read thread
    call,           \* its call to the proxy
    returned,       \* the return it has forwarded
    socket,         \* "none", "up", or "cut" when the connection is lost
    connects,       \* connections that were made
    sent,           \* requests the other end has to answer
    received,       \* returns to be read from the socket
    at,             \* where a client is in its call
    calls,          \* the number of its calls
    inbox           \* the returns in its pipe, by request

proxyVars  == <<config, do_run, queue, paused, is_connected, request_map, main, current>>
readerVars == <<reader, call, returned>>
linkVars   == <<socket, connects, sent, received>>
clientVars == <<at, calls, inbox>>
vars == <<proxyVars, readerVars, linkVars, clientVars>>

TypeOK ==
    /\ config \in Config
    /\ do_run \in BOOLEAN /\ paused \in BOOLEAN /\ is_connected \in BOOLEAN
    /\ queue \in Seq(Request \cup OwnCall)
    /\ request_map \subseteq Request
    /\ main \in {"run", "track", "shut", "join", "gone"}
    /\ current \in Request \cup {None} /\ returned \in Request \cup {None}
    /\ reader \in {"loop", "rewire", "connected", "connect", "read", "forget",
                   "lost", "disconnect", "leave", "done"}
    /\ call \in {"none", "pending", "ok", "fail"}
    /\ socket \in {"none", "up", "cut"}
    /\ connects \in 0..MaxConnect
    /\ sent \subseteq Request /\ received \in Seq(Request)
    /\ at \in [Client -> {"idle", "blocked", "wait"}]
    /\ calls \in [Client -> 0..MaxCalls]
    /\ inbox \in [Client -> SUBSET (1..MaxCalls)]

\* main() has set up the pipes; a proxy that was given a socket is connected.
Init ==
    /\ config \in Config
    /\ do_run = TRUE
    /\ queue = <<>>
    /\ paused = (/\ "endpoint" \in config
                 /\ config \cap {"block_until_connect", "block_until_reconnect"} # {})
    /\ is_connected = ("endpoint" \notin config)
    /\ request_map = {}
    /\ main = "run" /\ current = None
    /\ reader = "loop" /\ call = "none" /\ returned = None
    /\ socket = IF "endpoint" \in config THEN "none" ELSE "up"
    /\ connects = 0 /\ sent = {} /\ received = <<>>
    /\ at = [c \in Client |-> "idle"]
    /\ calls = [c \in Client |-> 0]
    /\ inbox = [c \in Client |-> {}]

-----------------------------------------------------------------------------
(* The clients: vnx::Client, see RequestReply. *)

RequestOf(c) == [method |-> "request", src |-> c, id |-> calls[c]]

\* Pipe::push() of the request of client c, which is BLOCKING.
Push(c, r) ==
    /\ at' = [at EXCEPT ![c] = IF ~ do_run THEN "idle" ELSE IF paused THEN "blocked" ELSE "wait"]
    /\ queue' = IF do_run /\ ~ paused THEN Append(queue, r) ELSE queue

Call(c) ==
    /\ at[c] = "idle" /\ calls[c] < MaxCalls
    /\ calls' = [calls EXCEPT ![c] = @ + 1]
    /\ Push(c, [RequestOf(c) EXCEPT !.id = @ + 1])
    /\ UNCHANGED <<config, do_run, paused, is_connected, request_map, main, current,
                   readerVars, linkVars, inbox>>

\* push() goes on when the pipe is resumed or shut.
Retry(c) ==
    /\ at[c] = "blocked" /\ (~ paused \/ ~ do_run)
    /\ Push(c, RequestOf(c))
    /\ UNCHANGED <<config, do_run, paused, is_connected, request_map, main, current,
                   readerVars, linkVars, calls, inbox>>

\* A client takes the return to its request and drops others.
Receive(c) ==
    /\ at[c] = "wait"
    /\ \E id \in inbox[c] :
         /\ inbox' = [inbox EXCEPT ![c] = @ \ {id}]
         /\ at' = [at EXCEPT ![c] = IF id = calls[c] THEN "idle" ELSE @]
    /\ UNCHANGED <<proxyVars, readerVars, linkVars, calls>>

\* Returns to requests rs are sent to their clients.
Answer(rs) ==
    inbox' = [c \in Client |-> inbox[c] \cup {r.id : r \in {q \in rs : q.src = c}}]

-----------------------------------------------------------------------------
(* The main thread. *)

Taken(method) ==
    /\ main = "run" /\ do_run /\ queue # <<>> /\ Head(queue).method = method
    /\ queue' = Tail(queue)

\* Mutant: a request that could not be written is forgotten.
HandleRequestFailed ==
    LET r == Head(queue) IN
    /\ Taken("request")
    /\ \/ /\ is_connected
          /\ sent' = IF socket = "up" THEN sent \cup {r} ELSE sent
          /\ main' = "track" /\ current' = r
          /\ UNCHANGED inbox
       \/ /\ is_connected => socket = "cut"
          /\ UNCHANGED <<inbox, sent, main, current>>
    /\ UNCHANGED <<config, do_run, paused, is_connected, request_map, readerVars, socket,
                   connects, received, at, calls>>

\* handle(Request): it is written to the socket, where it may be lost; or it is
\* answered when there is no connection, or the write fails.
HandleRequest ==
    LET r == Head(queue) IN
    /\ Taken("request")
    /\ \/ /\ is_connected
          /\ sent' = IF socket = "up" THEN sent \cup {r} ELSE sent
          /\ main' = "track" /\ current' = r
          /\ UNCHANGED inbox
       \/ /\ is_connected => socket = "cut"
          /\ Answer({r})
          /\ UNCHANGED <<sent, main, current>>
    /\ UNCHANGED <<config, do_run, paused, is_connected, request_map, readerVars, socket,
                   connects, received, at, calls>>

\* After it was written it is put in request_map.
Track ==
    /\ main = "track"
    /\ request_map' = request_map \cup {current}
    /\ main' = "run"
    /\ UNCHANGED <<config, do_run, queue, paused, is_connected, current, readerVars,
                   linkVars, clientVars>>

\* on_connect() resumes the pipes. Its heartbeat throws if it cannot be written.
OnConnect ==
    /\ Taken("on_connect")
    /\ paused' = FALSE
    /\ is_connected' = TRUE
    /\ call' \in IF socket = "cut" THEN {"ok", "fail"} ELSE {"ok"}
    /\ UNCHANGED <<config, do_run, request_map, main, current, reader, returned, linkVars,
                   clientVars>>

\* Mutant: request_map is kept.
DisconnectKeeps ==
    /\ paused' = (paused \/ "block_until_reconnect" \in config)
    /\ Answer(request_map)
    /\ UNCHANGED request_map
    /\ is_connected' = FALSE

\* on_disconnect() pauses the pipes and answers what is in request_map.
Disconnect ==
    /\ paused' = (paused \/ "block_until_reconnect" \in config)
    /\ Answer(request_map)
    /\ request_map' = {}
    /\ is_connected' = FALSE

OnDisconnect ==
    /\ Taken("on_disconnect")
    /\ Disconnect
    /\ call' = "ok"
    /\ UNCHANGED <<config, do_run, main, current, reader, returned, linkVars, at, calls>>

\* exit(), by a shutdown of the process or any other thread.
Exit ==
    /\ do_run
    /\ do_run' = FALSE
    /\ UNCHANGED <<config, queue, paused, is_connected, request_map, main, current,
                   readerVars, linkVars, clientVars>>

\* vnx_cleanup() closes the pipes: what is in them is answered by exceptions.
Cleanup ==
    /\ main = "run" /\ ~ do_run
    /\ Answer({queue[i] : i \in DOMAIN queue} \cap Request)
    /\ call' = IF call = "pending" THEN "fail" ELSE call
    /\ queue' = <<>>
    /\ main' = "shut"
    /\ UNCHANGED <<config, do_run, paused, is_connected, request_map, current, reader,
                   returned, linkVars, at, calls>>

\* Mutant: it is skipped.
SkipShutdown ==
    /\ main = "shut"
    /\ main' = "join"
    /\ UNCHANGED <<config, do_run, queue, paused, is_connected, request_map, current,
                   readerVars, linkVars, clientVars>>

\* shutdown_socket() makes the read thread stop reading.
ShutdownSocket ==
    /\ main = "shut"
    /\ main' = "join"
    /\ socket' = IF socket = "up" THEN "cut" ELSE socket
    /\ UNCHANGED <<config, do_run, queue, paused, is_connected, request_map, current,
                   readerVars, connects, sent, received, clientVars>>

\* main() has joined the read thread: it closes the socket and cleans up.
Join ==
    /\ main = "join" /\ reader = "done"
    /\ socket' = "none" /\ sent' = {} /\ received' = <<>>
    /\ Disconnect
    /\ main' = "gone"
    /\ UNCHANGED <<config, do_run, queue, current, readerVars, connects, at, calls>>

MainStep ==
    HandleRequest \/ Track \/ OnConnect \/ OnDisconnect \/ Cleanup \/ ShutdownSocket \/ Join

-----------------------------------------------------------------------------
(* The read thread. *)

\* read_loop() looks at vnx_do_run and at the socket.
Loop ==
    /\ reader = "loop"
    /\ reader' = IF ~ do_run THEN "leave"
                 ELSE IF socket # "none" THEN "read"
                 ELSE IF "endpoint" \in config THEN "rewire" ELSE "leave"
    /\ UNCHANGED <<proxyVars, call, returned, linkVars, clientVars>>

\* rewire_connection(), until it succeeds or the proxy is to end.
Rewire ==
    /\ reader = "rewire"
    /\ \/ /\ ~ do_run \/ "no_retry" \in config
          /\ reader' = "leave"
          /\ UNCHANGED linkVars
       \/ /\ connects < MaxConnect
          /\ reader' = "connected"
          /\ socket' = "up" /\ connects' = connects + 1
          /\ UNCHANGED <<sent, received>>
    /\ UNCHANGED <<proxyVars, call, returned, clientVars>>

\* A call to the proxy: it waits for the answer, or fails.
CallProxy(method, wait, fail) ==
    /\ IF do_run
       THEN /\ queue' = Append(queue, [method |-> method])
            /\ call' = "pending" /\ reader' = wait
       ELSE /\ reader' = fail
            /\ UNCHANGED <<queue, call>>
    /\ UNCHANGED <<config, do_run, paused, is_connected, request_map, main, current,
                   returned, linkVars, clientVars>>

CallConnect == reader = "connected" /\ CallProxy("on_connect", "connect", "leave")

Connected ==
    /\ reader = "connect" /\ call \in {"ok", "fail"}
    /\ reader' = IF call = "ok" THEN "read" ELSE "leave"
    /\ call' = "none"
    /\ UNCHANGED <<proxyVars, returned, linkVars, clientVars>>

\* process(Return): it is sent to the client,
ReadReturn ==
    /\ reader = "read" /\ received # <<>>
    /\ Answer({Head(received)})
    /\ received' = Tail(received)
    /\ returned' = Head(received)
    /\ reader' = "forget"
    /\ UNCHANGED <<proxyVars, call, socket, connects, sent, at, calls>>

\* and then the request is removed from request_map.
Forget ==
    /\ reader = "forget"
    /\ request_map' = request_map \ {returned}
    /\ reader' = "read"
    /\ UNCHANGED <<config, do_run, queue, paused, is_connected, main, current, call,
                   returned, linkVars, clientVars>>

\* Mutant: the proxy is not told.
ReadErrorSilent ==
    /\ reader = "read" /\ socket = "cut"
    /\ reader' = "disconnect" /\ call' = "ok"
    /\ UNCHANGED <<proxyVars, returned, linkVars, clientVars>>

ReadError ==
    /\ reader = "read" /\ socket = "cut"
    /\ reader' = "lost"
    /\ UNCHANGED <<proxyVars, call, returned, linkVars, clientVars>>

CallDisconnect == reader = "lost" /\ CallProxy("on_disconnect", "disconnect", "disconnect")

\* Whatever the call returned, the socket is closed.
CloseSocket ==
    /\ reader = "disconnect" /\ call # "pending"
    /\ socket' = "none" /\ sent' = {} /\ received' = <<>>
    /\ call' = "none"
    /\ reader' = "loop"
    /\ UNCHANGED <<proxyVars, returned, connects, clientVars>>

\* read_loop() ends with exit().
Leave ==
    /\ reader = "leave"
    /\ do_run' = FALSE
    /\ reader' = "done"
    /\ UNCHANGED <<config, queue, paused, is_connected, request_map, main, current, call,
                   returned, linkVars, clientVars>>

ReaderStep ==
    \/ Loop \/ CallConnect \/ Connected \/ ReadReturn \/ Forget \/ ReadError
    \/ CallDisconnect \/ CloseSocket \/ Leave

-----------------------------------------------------------------------------
(* The other end and the network. *)

RemoteAnswer ==
    /\ socket = "up"
    /\ \E r \in sent :
         /\ sent' = sent \ {r}
         /\ received' = Append(received, r)
    /\ UNCHANGED <<proxyVars, readerVars, socket, connects, clientVars>>

\* The connection breaks: requests on their way are lost, and returns may be.
Cut ==
    /\ socket = "up"
    /\ socket' = "cut"
    /\ sent' = {}
    /\ received' \in {received, <<>>}
    /\ UNCHANGED <<proxyVars, readerVars, connects, clientVars>>

-----------------------------------------------------------------------------
Next ==
    \/ \E c \in Client : Call(c) \/ Retry(c) \/ Receive(c)
    \/ MainStep \/ ReaderStep \/ Rewire \/ Exit \/ RemoteAnswer \/ Cut

Spec == Init /\ [][Next]_vars

\* Threads run, and the other end answers while the connection holds. Nothing
\* has to connect, and nobody to tell the proxy to exit.
FairSpec ==
    /\ Spec
    /\ WF_vars(MainStep) /\ WF_vars(ReaderStep) /\ WF_vars(RemoteAnswer)
    /\ WF_vars(Rewire /\ ~ do_run)
    /\ \A c \in Client : WF_vars(Retry(c) \/ Receive(c))

-----------------------------------------------------------------------------
(* Properties. *)

\* Where a request is until its return is in the pipe of the client.
Tracked(r) ==
    \/ \E i \in DOMAIN queue : queue[i] = r
    \/ main = "track" /\ current = r
    \/ r \in request_map
    \/ r.id \in inbox[r.src]

\* A client that waits has an answer coming: its request is in the pipe of the
\* proxy, about to be put in request_map or in it, or the return is there. A
\* connection that breaks finds each request in one of these places
\* (BaseProxy.cpp:222, 389, 764; Pipe.cpp:227).
ForwardTracked == \A c \in Client : at[c] = "wait" => Tracked(RequestOf(c))

\* A connection starts clean: while the read thread looks for a new one the
\* proxy is not connected, and neither keeps nor is about to keep a request of
\* the last one, which nobody would answer (BaseProxy.cpp:385, 627, 643).
ConnectsClean ==
    reader \in {"rewire", "connected"} /\ do_run =>
        ~ is_connected /\ request_map = {} /\ main # "track"

\* A call that was accepted returns, through whatever happens to the connection
\* and to the proxy, and no call outlasts the proxy.
ForwardReturns ==
    \A c \in Client : at[c] = "wait" \/ (at[c] = "blocked" /\ ~ do_run) ~> at[c] = "idle"

\* A proxy that is told to exit ends: main() joins the read thread, which may
\* wait for the socket, for a connection, or for main() (BaseProxy.cpp:128).
ProxyEnds == ~ do_run ~> main = "gone"

-----------------------------------------------------------------------------
(* What the proofs rest on. *)

\* What is used at the places where it is used.
Shape ==
    /\ \A c \in Client : at[c] # "idle" => calls[c] > 0
    /\ main = "track" => current # None
    /\ main \in {"shut", "join", "gone"} => ~ do_run
    /\ reader = "forget" => returned # None

\* A request that is under way belongs to a call that was made.
Underway(r) ==
    \/ \E i \in DOMAIN queue : queue[i] = r
    \/ r \in sent \/ r = returned
    \/ \E i \in DOMAIN received : received[i] = r
Issued ==
    \A r \in Request : Underway(r) =>
        r.id < calls[r.src] \/ (r.id = calls[r.src] /\ at[r.src] # "blocked")

\* A return that was sent on is in the client's pipe, or was received.
Returned ==
    reader = "forget" =>
        \A c \in Client : at[c] = "wait" /\ RequestOf(c) = returned => calls[c] \in inbox[c]

\* A call of the read thread is in the queue only while it waits for it, and once.
IsOwn(i) == queue[i].method # "request"
OneOwnCall ==
    /\ reader \in {"connect", "disconnect"} \/ call = "none"
    /\ reader = "disconnect" /\ do_run => call \in {"pending", "ok"}
    /\ \A i \in DOMAIN queue : IsOwn(i) =>
         call = "pending" /\ (queue[i].method = "on_connect" <=> reader = "connect")
    /\ \A i, j \in DOMAIN queue : IsOwn(i) /\ IsOwn(j) => i = j

\* From the answer to on_disconnect() until the next connection.
Between ==
    \/ reader \in {"rewire", "connected"}
    \/ reader = "disconnect" /\ call = "ok"
    \/ reader = "loop" /\ socket = "none" /\ "endpoint" \in config

Clean == do_run /\ Between => ~ is_connected /\ request_map = {} /\ main # "track"

IndInv == TypeOK /\ Shape /\ Issued /\ Returned /\ ForwardTracked /\ OneOwnCall /\ Clean
=============================================================================
