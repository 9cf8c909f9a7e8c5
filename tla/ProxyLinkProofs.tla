--------------------------- MODULE ProxyLinkProofs ---------------------------
(***************************************************************************)
(* Theorems about ProxyLink, for any number of clients, calls, connections *)
(* and configurations.                                                     *)
(*                                                                         *)
(* ForwardTracked needs to know that the read thread removes a request     *)
(* from request_map only after its return was sent on (Returned), and      *)
(* ConnectsClean that the proxy handles the calls of the read thread while *)
(* that waits for them (OneOwnCall).                                       *)
(***************************************************************************)
EXTENDS ProxyLink, TLAPS

-----------------------------------------------------------------------------
(* The queue of messages, and returns. *)

\* What is in a sequence after Append.
LEMMA Appended ==
  ASSUME NEW S, NEW q \in Seq(S), NEW e \in S
  PROVE  /\ Append(q, e) \in Seq(S)
         /\ DOMAIN Append(q, e) = 1..(Len(q) + 1) /\ DOMAIN q = 1..Len(q) /\ Len(q) \in Nat
         /\ \A i \in DOMAIN q : i \in DOMAIN Append(q, e) /\ Append(q, e)[i] = q[i]
         /\ Append(q, e)[Len(q) + 1] = e
OBVIOUS

\* What is left of a sequence by Tail.
LEMMA Left ==
  ASSUME NEW S, NEW q \in Seq(S), q # <<>>
  PROVE  /\ Tail(q) \in Seq(S) /\ Head(q) \in S /\ Head(q) = q[1]
         /\ \A i \in DOMAIN q : i = 1 \/ (i - 1 \in DOMAIN Tail(q) /\ Tail(q)[i - 1] = q[i])
         /\ \A i \in DOMAIN Tail(q) : i + 1 \in DOMAIN q /\ Tail(q)[i] = q[i + 1]
         /\ 1 \in DOMAIN q /\ DOMAIN q \subseteq Nat /\ DOMAIN Tail(q) \subseteq Nat
<1>1. Tail(q) \in Seq(S) /\ Len(Tail(q)) = Len(q) - 1 /\ Len(q) \in Nat \ {0}
  OBVIOUS
<1>2. DOMAIN q = 1..Len(q) /\ DOMAIN Tail(q) = 1..(Len(q) - 1)
  BY <1>1
<1>3. \A i \in 1..(Len(q) - 1) : Tail(q)[i] = q[i + 1]
  OBVIOUS
<1>4. Head(q) = q[1] /\ q[1] \in S
  OBVIOUS
<1> QED BY <1>1, <1>2, <1>3, <1>4

\* The first message of the pipes, when it is taken.
LEMMA TakenFirst ==
  ASSUME TypeOK, NEW method, Taken(method)
  PROVE  /\ queue' \in Seq(Request \cup OwnCall)
         /\ Head(queue) \in Request \cup OwnCall /\ Head(queue).method = method
         /\ main = "run" /\ do_run
         /\ 1 \in DOMAIN queue /\ queue[1] = Head(queue)
         /\ \A i \in DOMAIN queue : i = 1 \/ (i - 1 \in DOMAIN queue' /\ queue'[i - 1] = queue[i])
         /\ \A i \in DOMAIN queue' : i + 1 \in DOMAIN queue /\ queue'[i] = queue[i + 1]
         /\ DOMAIN queue \subseteq Nat /\ DOMAIN queue' \subseteq Nat
<1>1. queue \in Seq(Request \cup OwnCall) /\ queue # <<>> /\ queue' = Tail(queue)
  BY DEF TypeOK, Taken
<1>2. Head(queue).method = method /\ main = "run" /\ do_run
  BY DEF Taken
<1> QED BY <1>1, <1>2, Left

\* A client that has begun a call has a request, and its next call another.
LEMMA Requests ==
  ASSUME TypeOK, NEW c \in Client
  PROVE  /\ calls[c] > 0 => RequestOf(c) \in Request
         /\ calls[c] < MaxCalls => [RequestOf(c) EXCEPT !.id = @ + 1] \in Request
         /\ RequestOf(c).method = "request" /\ RequestOf(c).src = c /\ RequestOf(c).id = calls[c]
<1>1. calls[c] \in 0..MaxCalls /\ MaxCalls \in Nat
  BY ConstantsAssumption DEF TypeOK
<1> QED BY <1>1 DEF RequestOf, Request

\* A request is not a call of the read thread.
LEMMA Kinds ==
  /\ \A r \in Request : r.method = "request" /\ r.src \in Client /\ r.id \in 1..MaxCalls
  /\ \A r \in OwnCall : r.method \in {"on_connect", "on_disconnect"} /\ r.method # "request"
BY DEF Request, OwnCall

\* Answer(rs) sends what is in rs and takes nothing away.
LEMMA Answered ==
  ASSUME TypeOK, NEW rs \in SUBSET Request, Answer(rs)
  PROVE  /\ inbox' \in [Client -> SUBSET (1..MaxCalls)]
         /\ \A c \in Client : inbox[c] \subseteq inbox'[c]
         /\ \A r \in rs : r.id \in inbox'[r.src]
<1>1. \A c \in Client : {r.id : r \in {q \in rs : q.src = c}} \subseteq 1..MaxCalls
  BY Kinds
<1>2. inbox' = [c \in Client |-> inbox[c] \cup {r.id : r \in {q \in rs : q.src = c}}]
  BY DEF Answer
<1>3. inbox' \in [Client -> SUBSET (1..MaxCalls)]
  BY <1>1, <1>2 DEF TypeOK
<1>4. \A c \in Client : inbox'[c] = inbox[c] \cup {r.id : r \in {q \in rs : q.src = c}}
  BY <1>2
<1>5. \A r \in rs : r.src \in Client
  BY Kinds
<1> QED BY <1>3, <1>4, <1>5

-----------------------------------------------------------------------------
(* Types. *)

\* Initially.
LEMMA InitInv == Init => IndInv
<1> SUFFICES ASSUME Init PROVE IndInv
  OBVIOUS
<1>1. MaxCalls \in Nat /\ MaxConnect \in Nat /\ None \notin Request
  BY ConstantsAssumption
<1>2. TypeOK
  <2>1. calls \in [Client -> 0..MaxCalls] /\ at \in [Client -> {"idle", "blocked", "wait"}]
        /\ inbox \in [Client -> SUBSET (1..MaxCalls)]
    BY <1>1 DEF Init
  <2>2. do_run \in BOOLEAN /\ paused \in BOOLEAN /\ is_connected \in BOOLEAN
    BY DEF Init
  <2>3. config \in Config /\ queue \in Seq(Request \cup OwnCall) /\ request_map \subseteq Request
        /\ received \in Seq(Request) /\ sent \subseteq Request
    BY DEF Init
  <2>4. connects \in 0..MaxConnect /\ socket \in {"none", "up", "cut"}
    BY <1>1 DEF Init
  <2> QED BY <2>1, <2>2, <2>3, <2>4 DEF Init, TypeOK
<1>3. Shape /\ Returned
  BY DEF Init, Shape, Returned
<1>7. Issued
  <2>1. queue = <<>> /\ received = <<>> /\ sent = {} /\ returned \notin Request
    BY <1>1 DEF Init
  <2> QED BY <2>1 DEF Issued, Underway
<1>6. ForwardTracked
  <2>1. \A c \in Client : at[c] = "idle"
    BY DEF Init
  <2> QED BY <2>1 DEF ForwardTracked
<1>4. OneOwnCall
  BY DEF Init, OneOwnCall
<1>5. Clean
  <2>1. request_map = {} /\ main = "run" /\ reader = "loop"
    BY DEF Init
  <2>2. "endpoint" \in config => ~ is_connected
    BY DEF Init
  <2> QED BY <2>1, <2>2 DEF Clean, Between
<1> QED BY <1>2, <1>3, <1>4, <1>5, <1>6, <1>7 DEF IndInv

\* The steps of a client.
LEMMA ClientType ==
  ASSUME IndInv, NEW c \in Client, Call(c) \/ Retry(c) \/ Receive(c)
  PROVE  TypeOK'
<1> USE DEF IndInv
<1>1. queue' \in Seq(Request \cup OwnCall)
  <2>1. CASE Call(c)
    <3>1. [RequestOf(c) EXCEPT !.id = @ + 1] \in Request
      BY <2>1, Requests DEF Call
    <3> QED BY <2>1, <3>1, Appended DEF TypeOK, Call, Push
  <2>2. CASE Retry(c)
    <3>1. RequestOf(c) \in Request
      BY <2>2, Requests DEF Retry, Shape
    <3> QED BY <2>2, <3>1, Appended DEF TypeOK, Retry, Push
  <2>3. CASE Receive(c)
    BY <2>3 DEF TypeOK, Receive, proxyVars
  <2> QED BY <2>1, <2>2, <2>3
<1>2. at' \in [Client -> {"idle", "blocked", "wait"}]
  BY DEF TypeOK, Call, Retry, Receive, Push
<1>3. calls' \in [Client -> 0..MaxCalls]
  <2>1. MaxCalls \in Nat
    BY ConstantsAssumption
  <2> QED BY <2>1 DEF TypeOK, Call, Retry, Receive
<1>4. inbox' \in [Client -> SUBSET (1..MaxCalls)]
  BY SMTT(60) DEF TypeOK, Call, Retry, Receive
<1>5. UNCHANGED <<config, do_run, paused, is_connected, request_map, main, current,
                   reader, call, returned, socket, connects, sent, received>>
  BY DEF Call, Retry, Receive, proxyVars, readerVars, linkVars
<1> QED BY <1>1, <1>2, <1>3, <1>4, <1>5 DEF TypeOK

\* What the main thread leaves to the others.
LEMMA MainFrame ==
  ASSUME MainStep \/ Exit
  PROVE  UNCHANGED <<config, reader, returned, connects, at, calls>>
BY DEF MainStep, HandleRequest, Track, OnConnect, OnDisconnect, Exit, Cleanup, ShutdownSocket, Join,
    readerVars, linkVars, clientVars

\* It sends returns and takes none.
LEMMA MainAnswers ==
  ASSUME IndInv, MainStep \/ Exit
  PROVE  /\ inbox' \in [Client -> SUBSET (1..MaxCalls)]
         /\ \A c \in Client : inbox[c] \subseteq inbox'[c]
<1> USE DEF IndInv
<1>1. CASE HandleRequest
  <2>1. Head(queue) \in Request
    BY <1>1, TakenFirst, Kinds DEF HandleRequest
  <2>2. UNCHANGED inbox \/ Answer({Head(queue)})
    BY <1>1 DEF HandleRequest
  <2> QED BY <2>1, <2>2, Answered DEF TypeOK
<1>2. CASE OnDisconnect \/ Join
  <2>1. Answer(request_map) /\ request_map \in SUBSET Request
    BY <1>2 DEF OnDisconnect, Join, Disconnect, TypeOK
  <2> QED BY <2>1, Answered
<1>3. CASE Cleanup
  <2>1. Answer({queue[i] : i \in DOMAIN queue} \cap Request)
    BY <1>3 DEF Cleanup
  <2> QED BY <2>1, Answered
<1>4. CASE Track \/ OnConnect \/ Exit \/ ShutdownSocket
  BY <1>4 DEF Track, OnConnect, Exit, ShutdownSocket, clientVars, TypeOK
<1> QED BY <1>1, <1>2, <1>3, <1>4 DEF MainStep

\* The steps of the main thread, and exit().
LEMMA MainType ==
  ASSUME IndInv, MainStep \/ Exit
  PROVE  TypeOK'
<1> USE DEF IndInv
<1>1. /\ UNCHANGED <<config, reader, returned, connects, at, calls>>
      /\ inbox' \in [Client -> SUBSET (1..MaxCalls)]
  BY MainFrame, MainAnswers
<1>2. CASE HandleRequest
  <2>1. Taken("request") /\ queue' \in Seq(Request \cup OwnCall)
    BY <1>2, TakenFirst DEF HandleRequest
  <2>2. Head(queue) \in Request
    BY <2>1, TakenFirst, Kinds
  <2>4. sent' \subseteq Request /\ main' \in {"run", "track"} /\ current' \in Request \cup {None}
    BY <1>2, <2>1, <2>2, TakenFirst DEF HandleRequest, TypeOK
  <2> QED BY <1>1, <1>2, <2>1, <2>4 DEF TypeOK, HandleRequest, readerVars
<1>3. CASE Track
  <2>1. current \in Request
    BY <1>3 DEF Track, TypeOK, Shape
  <2> QED BY <1>1, <1>3, <2>1 DEF TypeOK, Track, readerVars, linkVars, clientVars
<1>4. CASE OnConnect
  <2>1. queue' \in Seq(Request \cup OwnCall)
    BY <1>4, TakenFirst DEF OnConnect
  <2> QED BY <1>1, <1>4, <2>1, ZenonT(60) DEF TypeOK, OnConnect, linkVars, clientVars
<1>5. CASE OnDisconnect
  <2>1. queue' \in Seq(Request \cup OwnCall)
    BY <1>5, TakenFirst DEF OnDisconnect
  <2>3. paused' \in BOOLEAN
    BY <1>5 DEF OnDisconnect, Disconnect
  <2> QED BY <1>1, <1>5, <2>1, <2>3, ZenonT(60) DEF TypeOK, OnDisconnect, Disconnect, linkVars
<1>6. CASE Exit
  <2>1. do_run' \in BOOLEAN
    BY <1>6 DEF Exit
  <2>2. UNCHANGED <<queue, paused, is_connected, request_map, main, current, call, socket, sent, received,
                    inbox>>
    BY <1>6 DEF Exit, readerVars, linkVars, clientVars
  <2> QED BY <1>1, <2>1, <2>2 DEF TypeOK
<1>7. CASE Cleanup
  <2>3. queue' \in Seq(Request \cup OwnCall)
    BY <1>7 DEF Cleanup
  <2> QED BY <1>1, <1>7, <2>3 DEF TypeOK, Cleanup, linkVars
<1>8. CASE ShutdownSocket
  BY <1>1, <1>8 DEF TypeOK, ShutdownSocket, readerVars, clientVars
<1>9. CASE Join
  <2>2. paused' \in BOOLEAN
    BY <1>9 DEF Join, Disconnect
  <2>3. received' \in Seq(Request)
    BY <1>9 DEF Join
  <2> QED BY <1>1, <1>9, <2>2, <2>3 DEF TypeOK, Join, Disconnect, readerVars
<1> QED BY <1>2, <1>3, <1>4, <1>5, <1>6, <1>7, <1>8, <1>9 DEF MainStep

\* What the read thread, the other end and the network leave to the others.
LEMMA ReaderFrame ==
  ASSUME ReaderStep \/ Rewire \/ RemoteAnswer \/ Cut
  PROVE  UNCHANGED <<config, paused, is_connected, main, current, at, calls>>
<1>1. CASE Rewire \/ RemoteAnswer \/ Cut
  BY <1>1 DEF Rewire, RemoteAnswer, Cut, proxyVars, clientVars
<1>2. CASE Loop \/ Connected \/ ReadReturn \/ ReadError \/ CloseSocket
  BY <1>2 DEF Loop, Connected, ReadReturn, ReadError, CloseSocket, proxyVars, clientVars
<1>3. CASE Forget \/ Leave \/ CallConnect \/ CallDisconnect
  BY <1>3 DEF Forget, Leave, CallConnect, CallDisconnect, CallProxy, clientVars
<1> QED BY <1>1, <1>2, <1>3 DEF ReaderStep

\* The steps of the read thread, of the other end and of the network.
LEMMA ReaderType ==
  ASSUME IndInv, ReaderStep \/ Rewire \/ RemoteAnswer \/ Cut
  PROVE  TypeOK'
<1> USE DEF IndInv
<1>1. UNCHANGED <<config, paused, is_connected, main, current, at, calls>>
  BY ReaderFrame
<1>2. CASE Loop \/ Connected \/ ReadError \/ Leave
  <2>1. do_run' \in BOOLEAN
    BY <1>2 DEF TypeOK, Loop, Connected, ReadError, Leave, proxyVars
  <2>2. UNCHANGED <<queue, request_map, returned, linkVars, inbox>>
    BY <1>2 DEF Loop, Connected, ReadError, Leave, proxyVars, clientVars
  <2>3. /\ reader' \in {"leave", "read", "rewire", "lost", "done"}
        /\ call' \in {"none", call}
    BY <1>2 DEF Loop, Connected, ReadError, Leave
  <2> QED BY <1>1, <2>1, <2>2, <2>3 DEF TypeOK, linkVars
<1>3. CASE CallConnect \/ CallDisconnect
  <2>1. ASSUME NEW method \in {"on_connect", "on_disconnect"}, NEW wait, NEW fail, CallProxy(method, wait, fail)
        PROVE  queue' \in Seq(Request \cup OwnCall)
    <3>1. [method |-> method] \in OwnCall
      BY DEF OwnCall
    <3>2. queue \in Seq(Request \cup OwnCall)
      BY DEF TypeOK
    <3>3. Append(queue, [method |-> method]) \in Seq(Request \cup OwnCall)
      BY <3>1, <3>2, Appended
    <3>4. queue' = queue \/ queue' = Append(queue, [method |-> method])
      BY <2>1 DEF CallProxy
    <3> QED BY <3>2, <3>3, <3>4
  <2>2. queue' \in Seq(Request \cup OwnCall)
    BY <1>3, <2>1 DEF CallConnect, CallDisconnect
  <2> QED BY <1>1, <1>3, <2>2 DEF TypeOK, CallConnect, CallDisconnect, CallProxy, linkVars, clientVars
<1>4. CASE ReadReturn
  <2>1. Head(received) \in Request /\ received' \in Seq(Request)
    BY <1>4, Left DEF ReadReturn, TypeOK
  <2>2. inbox' \in [Client -> SUBSET (1..MaxCalls)]
    BY <1>4, <2>1, Answered DEF ReadReturn
  <2> QED BY <1>1, <1>4, <2>1, <2>2 DEF TypeOK, ReadReturn, proxyVars
<1>5. CASE Forget
  BY <1>1, <1>5 DEF TypeOK, Forget, linkVars, clientVars
<1>6. CASE CloseSocket
  <2>1. received' \in Seq(Request)
    BY <1>6 DEF CloseSocket
  <2> QED BY <1>1, <1>6, <2>1 DEF TypeOK, CloseSocket, proxyVars, clientVars
<1>7. CASE Rewire
  <2>1. MaxConnect \in Nat
    BY ConstantsAssumption
  <2>2. UNCHANGED <<do_run, queue, request_map, call, returned, sent, received, inbox>>
    BY <1>7 DEF Rewire, proxyVars, linkVars, clientVars
  <2>3. reader' \in {"leave", "connected"} /\ socket' \in {socket, "up"} /\ connects' \in 0..MaxConnect
    BY <1>7, <2>1 DEF TypeOK, Rewire, linkVars
  <2> QED BY <1>1, <2>2, <2>3 DEF TypeOK
<1>8. CASE RemoteAnswer
  <2>1. received' \in Seq(Request) /\ sent' \subseteq Request
    <3>1. sent \subseteq Request /\ received \in Seq(Request)
      BY DEF TypeOK
    <3>2. PICK r \in sent : sent' = sent \ {r} /\ received' = Append(received, r)
      BY <1>8 DEF RemoteAnswer
    <3> HIDE DEF IndInv
    <3> QED BY <3>1, <3>2, Appended
  <2>2. UNCHANGED <<do_run, queue, request_map, reader, call, returned, socket, connects, inbox>>
    BY <1>8 DEF RemoteAnswer, proxyVars, readerVars, clientVars
  <2> QED BY <1>1, <2>1, <2>2 DEF TypeOK
<1>9. CASE Cut
  <2>1. received' \in Seq(Request)
    <3>1. received' = received \/ received' = <<>>
      BY <1>9 DEF Cut
    <3>2. received \in Seq(Request) /\ <<>> \in Seq(Request)
      BY DEF TypeOK
    <3> QED BY <3>1, <3>2
  <2>2. UNCHANGED <<do_run, queue, request_map, reader, call, returned, connects, inbox>>
    BY <1>9 DEF Cut, proxyVars, readerVars, clientVars
  <2>3. socket' = "cut" /\ sent' = {}
    BY <1>9 DEF Cut
  <2> QED BY <1>1, <2>1, <2>2, <2>3 DEF TypeOK
<1> QED BY <1>2, <1>3, <1>4, <1>5, <1>6, <1>7, <1>8, <1>9 DEF ReaderStep

-----------------------------------------------------------------------------
(* What is under way: Shape, Issued, Returned. *)

\* The first return that the read thread reads.
LEMMA FirstReturn ==
  ASSUME TypeOK, ReadReturn
  PROVE  /\ returned' = Head(received) /\ Head(received) \in Request
         /\ \E i \in DOMAIN received : received[i] = returned'
         /\ \A i \in DOMAIN received' : \E j \in DOMAIN received : received[j] = received'[i]
<1>1. received \in Seq(Request) /\ received # <<>>
  BY DEF TypeOK, ReadReturn
<1>2. received' = Tail(received) /\ returned' = Head(received)
  BY DEF ReadReturn
<1> QED BY <1>1, <1>2, Left

\* A client sends requests of the call it is in.
LEMMA ClientIssued ==
  ASSUME IndInv, NEW c \in Client, Call(c) \/ Retry(c) \/ Receive(c)
  PROVE  Issued'
<1> USE DEF IndInv
<1>1. calls \in [Client -> 0..MaxCalls] /\ MaxCalls \in Nat
  BY ConstantsAssumption DEF TypeOK
<1>2. \A d \in Client :
         /\ calls'[d] \in Nat /\ calls[d] \in Nat /\ calls[d] <= calls'[d]
         /\ at'[d] = "blocked" /\ calls'[d] = calls[d] => at[d] = "blocked"
  <2>1. at \in [Client -> {"idle", "blocked", "wait"}]
    BY DEF TypeOK
  <2> QED BY <1>1, <2>1, SMTT(60) DEF Call, Retry, Receive, Push
<1>3. ASSUME NEW e \in Request, queue' = Append(queue, e), e.id = calls'[e.src], at'[e.src] = "wait",
             UNCHANGED <<sent, returned, received>>
      PROVE  Issued'
  <2>1. queue \in Seq(Request \cup OwnCall)
    BY DEF TypeOK
  <2>2. \A i \in DOMAIN queue' : queue'[i] = e \/ (i \in DOMAIN queue /\ queue'[i] = queue[i])
    <3> HIDE DEF IndInv
    <3> QED BY <1>3, <2>1
  <2>3. \A r \in Request : Underway(r)' => Underway(r) \/ r = e
    BY <1>3, <2>2 DEF Underway
  <2>4. \A r \in Request : r.src \in Client /\ r.id \in Nat
    BY <1>1, Kinds
  <2> QED BY <1>2, <1>3, <2>3, <2>4, SMTT(60) DEF Issued
<1>4. UNCHANGED <<sent, returned, received>>
  BY DEF Call, Retry, Receive, readerVars, linkVars
<1>5. CASE queue' = queue
  <2>1. \A r \in Request : Underway(r)' <=> Underway(r)
    BY <1>4, <1>5 DEF Underway
  <2>2. \A r \in Request : r.src \in Client /\ r.id \in Nat
    BY <1>1, Kinds
  <2> QED BY <1>2, <2>1, <2>2 DEF Issued
<1>6. CASE Call(c)
  <2> DEFINE e == [RequestOf(c) EXCEPT !.id = @ + 1]
  <2>1. e \in Request /\ e.src = c /\ e.id = calls[c] + 1 /\ calls'[c] = calls[c] + 1
    BY <1>1, <1>6, Requests DEF Call, RequestOf
  <2>2. queue' = queue \/ (queue' = Append(queue, e) /\ at'[c] = "wait")
    BY <1>6 DEF Call, Push, TypeOK
  <2> HIDE DEF e
  <2> QED BY <1>2, <1>3, <1>4, <1>5, <2>1, <2>2
<1>7. CASE Retry(c)
  <2> DEFINE e == RequestOf(c)
  <2>1. e \in Request /\ e.src = c /\ e.id = calls[c] /\ calls'[c] = calls[c]
    BY <1>1, <1>7, Requests DEF Retry, Shape
  <2>2. queue' = queue \/ (queue' = Append(queue, e) /\ at'[c] = "wait")
    BY <1>7 DEF Retry, Push, TypeOK
  <2> HIDE DEF e
  <2> QED BY <1>2, <1>3, <1>4, <1>5, <2>1, <2>2
<1>8. CASE Receive(c)
  BY <1>5, <1>8 DEF Receive, proxyVars
<1> QED BY <1>6, <1>7, <1>8

\* A step that moves requests issues none.
LEMMA MovesIssued ==
  ASSUME Issued, UNCHANGED <<at, calls>>, \A r \in Request : Underway(r)' => Underway(r)
  PROVE  Issued'
BY DEF Issued

\* The steps of the main thread.
LEMMA MainIssued ==
  ASSUME IndInv, MainStep \/ Exit
  PROVE  Issued'
<1> USE DEF IndInv
<1>1. UNCHANGED <<at, calls, returned>>
  BY MainFrame
<1>2. ASSUME NEW method, Taken(method)
      PROVE  /\ \A i \in DOMAIN queue' : \E j \in DOMAIN queue : queue[j] = queue'[i]
             /\ \E j \in DOMAIN queue : queue[j] = Head(queue)
  BY <1>2, TakenFirst
<1>3. CASE HandleRequest
  <2>1. Taken("request") /\ sent' \subseteq sent \cup {Head(queue)} /\ UNCHANGED received
    BY <1>3 DEF HandleRequest
  <2>2. \A r \in Request : Underway(r)' => Underway(r)
    BY <1>1, <1>2, <2>1 DEF Underway
  <2> QED BY <1>1, <2>2, MovesIssued
<1>4. CASE OnConnect
  <2>1. Taken("on_connect") /\ UNCHANGED <<sent, received>>
    BY <1>4 DEF OnConnect, linkVars
  <2>2. \A r \in Request : Underway(r)' => Underway(r)
    BY <1>1, <1>2, <2>1 DEF Underway
  <2> QED BY <1>1, <2>2, MovesIssued
<1>5. CASE OnDisconnect
  <2>1. Taken("on_disconnect") /\ UNCHANGED <<sent, received>>
    BY <1>5 DEF OnDisconnect, linkVars
  <2>2. \A r \in Request : Underway(r)' => Underway(r)
    BY <1>1, <1>2, <2>1 DEF Underway
  <2> QED BY <1>1, <2>2, MovesIssued
<1>6. CASE Track \/ Exit \/ Cleanup \/ ShutdownSocket \/ Join
  <2>1. queue' = queue \/ queue' = <<>>
    BY <1>6 DEF Track, Exit, Cleanup, ShutdownSocket, Join
  <2>2. received' = received \/ received' = <<>>
    BY <1>6 DEF Track, Exit, Cleanup, ShutdownSocket, Join, linkVars
  <2>3. sent' \subseteq sent
    BY <1>6 DEF Track, Exit, Cleanup, ShutdownSocket, Join, linkVars
  <2>4. DOMAIN <<>> = {}
    OBVIOUS
  <2>5. \A r \in Request : Underway(r)' => Underway(r)
    <3> HIDE DEF IndInv
    <3> QED BY <1>1, <2>1, <2>2, <2>3, <2>4 DEF Underway
  <2> QED BY <1>1, <2>5, MovesIssued
<1> QED BY <1>3, <1>4, <1>5, <1>6 DEF MainStep

\* The steps of the read thread, of the other end and of the network.
LEMMA ReaderIssued ==
  ASSUME IndInv, ReaderStep \/ Rewire \/ RemoteAnswer \/ Cut
  PROVE  Issued'
<1> USE DEF IndInv
<1>1. UNCHANGED <<at, calls>>
  BY ReaderFrame
<1>2. CASE CallConnect \/ CallDisconnect
  <2>1. PICK m \in {"on_connect", "on_disconnect"} : queue' = queue \/ queue' = Append(queue, [method |-> m])
    BY <1>2 DEF CallConnect, CallDisconnect, CallProxy
  <2>2. [method |-> m] \in OwnCall /\ [method |-> m] \notin Request
    BY Kinds DEF OwnCall
  <2>3. queue \in Seq(Request \cup OwnCall)
    BY DEF TypeOK
  <2>4. \A i \in DOMAIN queue' : queue'[i] \notin Request \/ (i \in DOMAIN queue /\ queue'[i] = queue[i])
    <3> HIDE DEF IndInv
    <3>1. CASE queue' = queue
      BY <3>1
    <3>2. CASE queue' = Append(queue, [method |-> m])
      <4> DEFINE e == [method |-> m]
      <4>1. \A i \in DOMAIN queue' : queue'[i] = e \/ (i \in DOMAIN queue /\ queue'[i] = queue[i])
        <5> HIDE DEF e
        <5> QED BY <2>2, <2>3, <3>2 DEF e
      <4> QED BY <2>2, <4>1
    <3> QED BY <2>1, <3>1, <3>2
  <2>5. UNCHANGED <<sent, returned, received>>
    BY <1>2 DEF CallConnect, CallDisconnect, CallProxy, linkVars
  <2>6. \A r \in Request : Underway(r)' => Underway(r)
    <3> HIDE DEF IndInv
    <3> QED BY <2>4, <2>5 DEF Underway
  <2> QED BY <1>1, <2>6, MovesIssued
<1>3. CASE ReadReturn
  <2>1. UNCHANGED <<queue, sent>>
    BY <1>3 DEF ReadReturn, proxyVars
  <2>2. \A r \in Request : Underway(r)' => Underway(r)
    BY <1>3, <2>1, FirstReturn DEF Underway
  <2> QED BY <1>1, <2>2, MovesIssued
<1>4. CASE RemoteAnswer
  <2>1. PICK q \in sent : sent' = sent \ {q} /\ received' = Append(received, q)
    BY <1>4 DEF RemoteAnswer
  <2>2. received \in Seq(Request) /\ q \in Request
    BY DEF TypeOK
  <2>3. \A i \in DOMAIN received' : received'[i] = q \/ (i \in DOMAIN received /\ received'[i] = received[i])
    <3> HIDE DEF IndInv
    <3> QED BY <2>1, <2>2
  <2>4. UNCHANGED <<queue, returned>>
    BY <1>4 DEF RemoteAnswer, proxyVars, readerVars
  <2>5. \A r \in Request : Underway(r)' => Underway(r)
    BY <2>1, <2>3, <2>4 DEF Underway
  <2> QED BY <1>1, <2>5, MovesIssued
<1>5. CASE Loop \/ Connected \/ Forget \/ ReadError \/ CloseSocket \/ Leave \/ Rewire \/ Cut
  <2>1. UNCHANGED <<queue, returned>>
    BY <1>5 DEF Loop, Connected, Forget, ReadError, CloseSocket, Leave, Rewire, Cut, proxyVars, readerVars
  <2>2. received' = received \/ received' = <<>>
    BY <1>5 DEF Loop, Connected, Forget, ReadError, CloseSocket, Leave, Rewire, Cut, linkVars
  <2>3. sent' \subseteq sent
    BY <1>5 DEF Loop, Connected, Forget, ReadError, CloseSocket, Leave, Rewire, Cut, linkVars
  <2>4. DOMAIN <<>> = {}
    OBVIOUS
  <2>5. \A r \in Request : Underway(r)' => Underway(r)
    <3> HIDE DEF IndInv
    <3> QED BY <2>1, <2>2, <2>3, <2>4 DEF Underway
  <2> QED BY <1>1, <2>5, MovesIssued
<1> QED BY <1>2, <1>3, <1>4, <1>5 DEF ReaderStep

\* What is used at the places where it is used.
LEMMA NextShape == IndInv /\ [Next]_vars => Shape'
<1> SUFFICES ASSUME IndInv, [Next]_vars PROVE Shape'
  OBVIOUS
<1> USE DEF IndInv
<1>1. ASSUME NEW c \in Client, Call(c) \/ Retry(c) \/ Receive(c) PROVE Shape'
  <2>1. UNCHANGED <<main, current, do_run, reader, returned>>
    BY <1>1 DEF Call, Retry, Receive, proxyVars, readerVars
  <2>2. MaxCalls \in Nat /\ \A d \in Client : calls[d] \in Nat
    BY ConstantsAssumption DEF TypeOK
  <2>3. \A d \in Client : at'[d] # "idle" => calls'[d] > 0
    BY <1>1, <2>2 DEF TypeOK, Shape, Call, Retry, Receive, Push
  <2> QED BY <2>1, <2>3 DEF Shape
<1>2. ASSUME MainStep \/ Exit PROVE Shape'
  <2>1. UNCHANGED <<at, calls, reader, returned>>
    BY <1>2, MainFrame
  <2>2. CASE HandleRequest
    <3>1. Head(queue) \in Request /\ main = "run" /\ do_run
      BY <2>2, TakenFirst, Kinds DEF HandleRequest
    <3>2. Head(queue) # None /\ UNCHANGED do_run
      BY <2>2, <3>1, ConstantsAssumption DEF HandleRequest
    <3>3. (main' = "track" /\ current' = Head(queue)) \/ UNCHANGED main
      BY <2>2 DEF HandleRequest
    <3> QED BY <2>1, <3>1, <3>2, <3>3 DEF Shape
  <2>3. CASE Track \/ OnConnect \/ OnDisconnect
    <3>1. UNCHANGED <<do_run, current>> /\ main' \in {"run", main}
      BY <2>3 DEF Track, OnConnect, OnDisconnect
    <3> QED BY <2>1, <3>1 DEF Shape
  <2>4. CASE Exit
    BY <2>1, <2>4 DEF Shape, Exit
  <2>5. CASE Cleanup \/ ShutdownSocket \/ Join
    <3>1. UNCHANGED do_run /\ main' # "track" /\ (~ do_run \/ main \in {"shut", "join"})
      BY <2>5 DEF Cleanup, ShutdownSocket, Join
    <3> QED BY <2>1, <3>1 DEF Shape
  <2> QED BY <1>2, <2>2, <2>3, <2>4, <2>5 DEF MainStep
<1>3. ASSUME ReaderStep \/ Rewire \/ RemoteAnswer \/ Cut PROVE Shape'
  <2>1. UNCHANGED <<at, calls, main, current>>
    BY <1>3, ReaderFrame
  <2>2. do_run' => do_run
    BY <1>3 DEF ReaderStep, Rewire, RemoteAnswer, Cut, Loop, CallConnect, CallProxy, Connected, ReadReturn,
        Forget, ReadError, CallDisconnect, CloseSocket, Leave, proxyVars
  <2>3. reader' = "forget" => returned' # None
    <3>1. CASE ReadReturn
      BY <3>1, FirstReturn, ConstantsAssumption
    <3>2. CASE RemoteAnswer \/ Cut
      BY <3>2 DEF RemoteAnswer, Cut, readerVars, Shape
    <3>3. CASE Rewire \/ Loop \/ Connected \/ Forget \/ ReadError \/ CloseSocket \/ Leave
      BY <3>3 DEF Rewire, Loop, Connected, Forget, ReadError, CloseSocket, Leave
    <3>4. CASE CallConnect \/ CallDisconnect
      BY <3>4 DEF CallConnect, CallDisconnect, CallProxy
    <3> QED BY <1>3, <3>1, <3>2, <3>3, <3>4 DEF ReaderStep
  <2> QED BY <2>1, <2>2, <2>3 DEF Shape
<1>4. CASE UNCHANGED vars
  BY <1>4 DEF Shape, vars, proxyVars, readerVars, clientVars
<1> QED BY <1>1, <1>2, <1>3, <1>4 DEF Next

\* A client drops only returns to other calls while it waits.
LEMMA ClientWaits ==
  ASSUME IndInv, NEW c \in Client, Call(c) \/ Retry(c) \/ Receive(c),
         NEW d \in Client, at'[d] = "wait"
  PROVE  \/ /\ at[d] = "wait" /\ RequestOf(d)' = RequestOf(d) /\ UNCHANGED calls[d]
            /\ calls[d] \in inbox[d] => calls[d] \in inbox'[d]
         \/ /\ ~ Receive(c) /\ RequestOf(d)' \in Request /\ RequestOf(d)'.src = d
            /\ calls'[d] = calls[d] + 1 \/ (at[d] = "blocked" /\ UNCHANGED calls[d])
            /\ RequestOf(d)'.id = calls'[d]
            /\ d = c /\ queue' = Append(queue, RequestOf(d)')
<1> USE DEF IndInv
<1>1. /\ at \in [Client -> {"idle", "blocked", "wait"}] /\ calls \in [Client -> 0..MaxCalls]
      /\ inbox \in [Client -> SUBSET (1..MaxCalls)] /\ MaxCalls \in Nat
  BY ConstantsAssumption DEF TypeOK
<1>2. CASE d # c
  BY <1>1, <1>2 DEF Call, Retry, Receive, Push, RequestOf
<1>3. CASE d = c /\ Call(c)
  <2>1. calls'[d] = calls[d] + 1 /\ calls[d] + 1 \in 1..MaxCalls
    BY <1>1, <1>3 DEF Call
  <2>2. RequestOf(d)' = [RequestOf(d) EXCEPT !.id = @ + 1]
    BY <2>1 DEF RequestOf
  <2>3. RequestOf(d)' \in Request /\ RequestOf(d)'.src = d /\ RequestOf(d)'.id = calls'[d]
    BY <2>1 DEF RequestOf, Request
  <2>4. queue' = Append(queue, RequestOf(d)')
    BY <1>1, <1>3, <2>2 DEF Call, Push
  <2>5. ~ Receive(c)
    BY <1>3 DEF Call, Receive
  <2> QED BY <1>3, <2>1, <2>3, <2>4, <2>5
<1>4. CASE d = c /\ Retry(c)
  <2>1. calls'[d] = calls[d] /\ at[d] = "blocked" /\ RequestOf(d)' = RequestOf(d)
    BY <1>4 DEF Retry, RequestOf
  <2>2. RequestOf(d) \in Request /\ RequestOf(d).src = d /\ RequestOf(d).id = calls[d]
    BY <2>1, Requests DEF Shape
  <2>3. queue' = Append(queue, RequestOf(d))
    BY <1>1, <1>4 DEF Retry, Push
  <2>4. ~ Receive(c)
    BY <2>1, <1>4 DEF Receive
  <2> QED BY <1>4, <2>1, <2>2, <2>3, <2>4
<1>5. CASE d = c /\ Receive(c)
  <2>1. UNCHANGED calls /\ at[d] = "wait"
    BY <1>5 DEF Receive
  <2>2. PICK id \in inbox[c] : /\ inbox' = [inbox EXCEPT ![c] = @ \ {id}]
                               /\ at' = [at EXCEPT ![c] = IF id = calls[c] THEN "idle" ELSE @]
    BY <1>5 DEF Receive
  <2>3. id # calls[d]
    BY <1>1, <1>5, <2>2
  <2> QED BY <1>1, <1>5, <2>1, <2>2, <2>3 DEF RequestOf
<1> QED BY <1>2, <1>3, <1>4, <1>5

\* A return that was sent on stays known.
LEMMA NextReturned == IndInv /\ [Next]_vars => Returned'
<1> SUFFICES ASSUME IndInv, [Next]_vars, reader' = "forget", NEW d \in Client, at'[d] = "wait",
                    RequestOf(d)' = returned'
             PROVE  calls'[d] \in inbox'[d]
  BY DEF Returned
<1> USE DEF IndInv
<1>1. ASSUME NEW c \in Client, Call(c) \/ Retry(c) \/ Receive(c) PROVE calls'[d] \in inbox'[d]
  <2>1. UNCHANGED <<reader, returned>>
    BY <1>1 DEF Call, Retry, Receive, readerVars
  <2>2. calls[d] \in Nat /\ calls[c] \in Nat /\ MaxCalls \in Nat
    BY ConstantsAssumption DEF TypeOK
  <2>3. CASE at[d] = "wait" /\ RequestOf(d)' = RequestOf(d) /\ UNCHANGED calls[d]
             /\ (calls[d] \in inbox[d] => calls[d] \in inbox'[d])
    BY <2>1, <2>3 DEF Returned
  <2>4. CASE /\ RequestOf(d)' \in Request /\ RequestOf(d)'.src = d /\ RequestOf(d)'.id = calls'[d]
             /\ calls'[d] = calls[d] + 1 \/ (at[d] = "blocked" /\ UNCHANGED calls[d])
    <3>1. Underway(returned)
      BY DEF Underway
    <3>2. returned.id < calls[returned.src] \/ (returned.id = calls[returned.src] /\ at[returned.src] # "blocked")
      BY <2>1, <2>4, <3>1 DEF Issued
    <3> QED BY <2>1, <2>2, <2>4, <3>2
  <2> QED BY <1>1, <2>3, <2>4, ClientWaits
<1>2. ASSUME MainStep \/ Exit PROVE calls'[d] \in inbox'[d]
  <2>1. UNCHANGED <<at, calls, reader, returned>>
    BY <1>2, MainFrame
  <2>2. inbox[d] \subseteq inbox'[d]
    BY <1>2, MainAnswers
  <2> QED BY <2>1, <2>2 DEF Returned, RequestOf
<1>3. ASSUME ReaderStep \/ Rewire \/ RemoteAnswer \/ Cut PROVE calls'[d] \in inbox'[d]
  <2>1. UNCHANGED <<at, calls>>
    BY <1>3, ReaderFrame
  <2>2. CASE ReadReturn
    <3>1. Head(received) \in Request /\ returned' = Head(received) /\ Answer({Head(received)})
      BY <2>2, FirstReturn DEF ReadReturn
    <3>2. Head(received).id \in inbox'[Head(received).src]
      BY <3>1, Answered
    <3>3. RequestOf(d)'.id = calls'[d] /\ RequestOf(d)'.src = d
      BY DEF RequestOf
    <3> QED BY <3>1, <3>2, <3>3
  <2>3. CASE RemoteAnswer \/ Cut
    <3>1. UNCHANGED <<reader, returned, inbox>>
      BY <2>3 DEF RemoteAnswer, Cut, readerVars, clientVars
    <3> QED BY <2>1, <3>1 DEF Returned, RequestOf
  <2>4. CASE Rewire \/ Loop \/ Connected \/ Forget \/ ReadError \/ CloseSocket \/ Leave
    BY <2>4 DEF Rewire, Loop, Connected, Forget, ReadError, CloseSocket, Leave
  <2>5. CASE CallConnect \/ CallDisconnect
    BY <2>5 DEF CallConnect, CallDisconnect, CallProxy
  <2> QED BY <1>3, <2>2, <2>3, <2>4, <2>5 DEF ReaderStep
<1>4. CASE UNCHANGED vars
  BY <1>4 DEF Returned, RequestOf, vars, readerVars, clientVars
<1> QED BY <1>1, <1>2, <1>3, <1>4 DEF Next

-----------------------------------------------------------------------------
(* ForwardTracked *)

\* A step keeps it that answers or keeps whatever it takes from a place.
LEMMA Carried ==
  ASSUME IndInv, UNCHANGED <<at, calls>>,
         \A c \in Client : inbox[c] \subseteq inbox'[c],
         \A r \in Request : Tracked(r) => Tracked(r)' \/ (reader = "forget" /\ r = returned)
  PROVE  ForwardTracked'
<1> USE DEF IndInv
<1> SUFFICES ASSUME NEW c \in Client, at'[c] = "wait", NEW r, r = RequestOf(c)'
             PROVE  Tracked(r)'
  BY DEF ForwardTracked
<1>1. at[c] = "wait" /\ r = RequestOf(c) /\ calls'[c] = calls[c]
  BY DEF RequestOf
<1>2. r \in Request /\ r.src = c /\ r.id = calls[c]
  BY <1>1, Requests DEF Shape
<1>3. Tracked(r)
  BY <1>1 DEF ForwardTracked
<1>4. CASE reader = "forget" /\ r = returned
  <2>1. calls[c] \in inbox'[c]
    BY <1>1, <1>4 DEF Returned
  <2> QED BY <1>2, <2>1 DEF Tracked
<1> QED BY <1>2, <1>3, <1>4

\* A request stays where it is, or is answered.
LEMMA Stays ==
  ASSUME TypeOK, NEW r \in Request, Tracked(r), UNCHANGED <<queue, main, current, request_map>>,
         \A c \in Client : inbox[c] \subseteq inbox'[c]
  PROVE  Tracked(r)'
<1>1. r.src \in Client
  BY Kinds
<1> QED BY <1>1 DEF Tracked

\* The steps of a client.
LEMMA ClientTracked ==
  ASSUME IndInv, NEW c \in Client, Call(c) \/ Retry(c) \/ Receive(c)
  PROVE  ForwardTracked'
<1> USE DEF IndInv
<1> SUFFICES ASSUME NEW d \in Client, at'[d] = "wait", NEW r, r = RequestOf(d)'
             PROVE  Tracked(r)'
  BY DEF ForwardTracked
<1>1. UNCHANGED <<main, current, request_map>>
  BY DEF Call, Retry, Receive, proxyVars
<1>2. queue \in Seq(Request \cup OwnCall) /\ r.src = d /\ r.id = calls'[d]
  BY DEF TypeOK, RequestOf
<1>3. CASE r \in Request /\ queue' = Append(queue, r)
  <2>1. \E i \in DOMAIN queue' : queue'[i] = r
    <3>1. queue'[Len(queue) + 1] = r /\ Len(queue) + 1 \in DOMAIN queue'
      <4> HIDE DEF IndInv
      <4> QED BY <1>2, <1>3
    <3> QED BY <3>1
  <2> QED BY <2>1 DEF Tracked
<1>4. CASE /\ at[d] = "wait" /\ r = RequestOf(d) /\ UNCHANGED calls[d]
           /\ calls[d] \in inbox[d] => calls[d] \in inbox'[d]
  <2>1. Tracked(r)
    BY <1>4 DEF ForwardTracked
  <2>2. \A i \in DOMAIN queue : i \in DOMAIN queue' /\ queue'[i] = queue[i]
    <3>1. UNCHANGED queue \/ \E e : queue' = Append(queue, e)
      BY DEF Call, Retry, Receive, Push, proxyVars
    <3> HIDE DEF IndInv
    <3> QED BY <1>2, <3>1
  <2> QED BY <1>1, <1>2, <1>4, <2>1, <2>2 DEF Tracked
<1> QED BY <1>3, <1>4, ClientWaits

\* The steps of the main thread.
LEMMA MainTracked ==
  ASSUME IndInv, MainStep \/ Exit
  PROVE  ForwardTracked'
<1> USE DEF IndInv
<1>1. UNCHANGED <<at, calls>> /\ \A c \in Client : inbox[c] \subseteq inbox'[c]
  BY MainFrame, MainAnswers
<1> SUFFICES ASSUME NEW r \in Request, Tracked(r) PROVE Tracked(r)'
  BY <1>1, Carried
<1>2. r.src \in Client /\ r.method = "request"
  BY Kinds
<1>3. r.id \in inbox[r.src] => r.id \in inbox'[r.src]
  BY <1>1, <1>2
<1>4. ASSUME NEW method, Taken(method)
      PROVE  (\E i \in DOMAIN queue : queue[i] = r) => r = Head(queue) \/ \E i \in DOMAIN queue' : queue'[i] = r
  BY <1>4, TakenFirst
<1>5. CASE HandleRequest
  <2>1. Taken("request") /\ UNCHANGED request_map
    BY <1>5 DEF HandleRequest
  <2>2. main = "run" /\ Head(queue) \in Request
    BY <2>1, TakenFirst, Kinds
  <2>3. r = Head(queue) => Tracked(r)'
    <3>1. (main' = "track" /\ current' = Head(queue)) \/ Answer({Head(queue)})
      BY <1>5 DEF HandleRequest
    <3>2. Answer({Head(queue)}) => Head(queue).id \in inbox'[Head(queue).src]
      BY <2>2, Answered
    <3> QED BY <3>1, <3>2 DEF Tracked
  <2> QED BY <1>3, <1>4, <2>1, <2>2, <2>3 DEF Tracked
<1>6. CASE Track
  <2>1. UNCHANGED queue /\ request_map' = request_map \cup {current}
    BY <1>6 DEF Track
  <2> QED BY <1>3, <2>1 DEF Tracked
<1>7. CASE OnConnect
  <2>1. Taken("on_connect") /\ UNCHANGED <<main, current, request_map>>
    BY <1>7 DEF OnConnect
  <2>2. r # Head(queue)
    BY <1>2, <2>1, TakenFirst
  <2> QED BY <1>3, <1>4, <2>1, <2>2 DEF Tracked
<1>8. CASE OnDisconnect
  <2>1. Taken("on_disconnect") /\ UNCHANGED <<main, current>> /\ Answer(request_map)
    BY <1>8 DEF OnDisconnect, Disconnect
  <2>2. r # Head(queue)
    BY <1>2, <2>1, TakenFirst
  <2>3. r \in request_map => r.id \in inbox'[r.src]
    BY <2>1, Answered DEF TypeOK
  <2> QED BY <1>3, <1>4, <2>1, <2>2, <2>3 DEF Tracked
<1>9. CASE Cleanup
  <2> DEFINE rs == {queue[i] : i \in DOMAIN queue} \cap Request
  <2>1. Answer(rs) /\ UNCHANGED <<current, request_map>> /\ main = "run"
    BY <1>9 DEF Cleanup
  <2>2. (\E i \in DOMAIN queue : queue[i] = r) => r.id \in inbox'[r.src]
    BY <2>1, Answered
  <2> QED BY <1>3, <2>1, <2>2 DEF Tracked
<1>10. CASE Exit
  BY <1>1, <1>10, Stays DEF Exit
<1>11. CASE ShutdownSocket
  <2>1. UNCHANGED <<queue, current, request_map>> /\ main = "shut"
    BY <1>11 DEF ShutdownSocket
  <2> QED BY <1>3, <2>1 DEF Tracked
<1>12. CASE Join
  <2>1. UNCHANGED <<queue, current>> /\ main = "join" /\ Answer(request_map)
    BY <1>12 DEF Join, Disconnect
  <2>2. r \in request_map => r.id \in inbox'[r.src]
    BY <2>1, Answered DEF TypeOK
  <2> QED BY <1>3, <2>1, <2>2 DEF Tracked
<1> QED BY <1>5, <1>6, <1>7, <1>8, <1>9, <1>10, <1>11, <1>12 DEF MainStep

\* The steps of the read thread, of the other end and of the network.
LEMMA ReaderTracked ==
  ASSUME IndInv, ReaderStep \/ Rewire \/ RemoteAnswer \/ Cut
  PROVE  ForwardTracked'
<1> USE DEF IndInv
<1>1. UNCHANGED <<main, current, at, calls>>
  BY ReaderFrame
<1>2. \A c \in Client : inbox[c] \subseteq inbox'[c]
  <2>1. CASE ReadReturn
    BY <2>1, FirstReturn, Answered DEF ReadReturn
  <2>2. CASE RemoteAnswer \/ Cut \/ Rewire \/ Loop \/ Connected \/ Forget \/ ReadError \/ CloseSocket \/ Leave
    BY <2>2 DEF RemoteAnswer, Cut, Rewire, Loop, Connected, Forget, ReadError, CloseSocket, Leave, clientVars
  <2>3. CASE CallConnect \/ CallDisconnect
    BY <2>3 DEF CallConnect, CallDisconnect, CallProxy, clientVars
  <2> QED BY <2>1, <2>2, <2>3 DEF ReaderStep
<1> SUFFICES ASSUME NEW r \in Request, Tracked(r)
             PROVE  Tracked(r)' \/ (reader = "forget" /\ r = returned)
  BY <1>1, <1>2, Carried
<1>3. CASE Forget
  <2>1. r \in request_map => r \in request_map' \/ (reader = "forget" /\ r = returned)
    BY <1>3 DEF Forget
  <2>2. UNCHANGED <<queue, inbox>>
    BY <1>3 DEF Forget, clientVars
  <2> QED BY <1>1, <2>1, <2>2 DEF Tracked
<1>4. CASE CallConnect \/ CallDisconnect
  <2>1. UNCHANGED <<request_map, inbox>>
    BY <1>4 DEF CallConnect, CallDisconnect, CallProxy, clientVars
  <2>2. UNCHANGED queue \/ \E e : queue' = Append(queue, e)
    BY <1>4 DEF CallConnect, CallDisconnect, CallProxy
  <2>3. queue \in Seq(Request \cup OwnCall)
    BY DEF TypeOK
  <2>4. \A i \in DOMAIN queue : i \in DOMAIN queue' /\ queue'[i] = queue[i]
    <3> HIDE DEF IndInv
    <3> QED BY <2>2, <2>3
  <2> QED BY <1>1, <2>1, <2>4 DEF Tracked
<1>5. CASE ReadReturn \/ RemoteAnswer \/ Cut \/ Rewire \/ Loop \/ Connected \/ ReadError \/ CloseSocket
  <2>1. UNCHANGED <<queue, request_map>>
    BY <1>5 DEF ReadReturn, RemoteAnswer, Cut, Rewire, Loop, Connected, ReadError, CloseSocket, proxyVars
  <2> QED BY <1>1, <1>2, <2>1, Stays
<1>6. CASE Leave
  <2>1. UNCHANGED <<queue, request_map>>
    BY <1>6 DEF Leave
  <2> QED BY <1>1, <1>2, <2>1, Stays
<1> QED BY <1>3, <1>4, <1>5, <1>6 DEF ReaderStep

-----------------------------------------------------------------------------
(* OneOwnCall: the read thread's calls. *)

\* A step that adds no call to the queue and leaves the read thread alone.
LEMMA KeepsCall ==
  ASSUME IndInv, UNCHANGED <<reader, call>>, do_run' => do_run,
         NEW f \in [DOMAIN queue' -> Nat],
         \A i \in DOMAIN queue' : IsOwn(i)' => f[i] \in DOMAIN queue /\ queue'[i] = queue[f[i]],
         \A i, j \in DOMAIN queue' : f[i] = f[j] => i = j
  PROVE  OneOwnCall'
<1> USE DEF IndInv
<1>1. \A i \in DOMAIN queue' : IsOwn(i)' => IsOwn(f[i])
  BY DEF IsOwn
<1>2. \A i \in DOMAIN queue' : IsOwn(i)' =>
        call' = "pending" /\ (queue'[i].method = "on_connect" <=> reader' = "connect")
  BY <1>1 DEF OneOwnCall
<1>3. \A i, j \in DOMAIN queue' : IsOwn(i)' /\ IsOwn(j)' => i = j
  BY <1>1 DEF OneOwnCall
<1> QED BY <1>2, <1>3 DEF OneOwnCall

\* So does one that leaves the queue alone.
LEMMA KeepsQueue ==
  ASSUME IndInv, UNCHANGED <<reader, call, queue>>, do_run' => do_run
  PROVE  OneOwnCall'
BY DEF IndInv, OneOwnCall, IsOwn

\* Without a call in the queue.
LEMMA NoCall ==
  ASSUME \A i \in DOMAIN queue' : ~ IsOwn(i)',
         reader' \in {"connect", "disconnect"} \/ call' = "none",
         reader' = "disconnect" /\ do_run' => call' \in {"pending", "ok"}
  PROVE  OneOwnCall'
BY DEF OneOwnCall

\* The steps of a client.
LEMMA ClientOwn ==
  ASSUME IndInv, NEW c \in Client, Call(c) \/ Retry(c) \/ Receive(c)
  PROVE  OneOwnCall'
<1> USE DEF IndInv
<1>1. UNCHANGED <<do_run, reader, call>>
  BY DEF Call, Retry, Receive, proxyVars, readerVars
<1>2. queue \in Seq(Request \cup OwnCall)
  BY DEF TypeOK
<1>3. UNCHANGED queue \/ \E e : queue' = Append(queue, e) /\ e.method = "request"
  <2>1. RequestOf(c).method = "request" /\ [RequestOf(c) EXCEPT !.id = @ + 1].method = "request"
    BY DEF RequestOf
  <2> QED BY <2>1 DEF Call, Retry, Receive, Push, proxyVars
<1>4. CASE UNCHANGED queue
  BY <1>1, <1>4, KeepsQueue
<1>5. CASE \E e : queue' = Append(queue, e) /\ e.method = "request"
  <2> DEFINE f == [i \in DOMAIN queue' |-> i]
  <2>1. \A i \in DOMAIN queue' : i \in Nat /\ (queue'[i].method = "request" \/ (i \in DOMAIN queue /\ queue'[i] = queue[i]))
    <3> HIDE DEF IndInv
    <3> QED BY <1>2, <1>5
  <2>2. f \in [DOMAIN queue' -> Nat] /\ \A i \in DOMAIN queue' : f[i] = i
    BY <2>1
  <2> HIDE DEF f
  <2>3. \A i \in DOMAIN queue' : IsOwn(i)' => f[i] \in DOMAIN queue /\ queue'[i] = queue[f[i]]
    BY <2>1, <2>2 DEF IsOwn
  <2> QED BY <1>1, <2>2, <2>3, KeepsCall
<1> QED BY <1>3, <1>4, <1>5

\* The steps of the main thread.
LEMMA MainOwn ==
  ASSUME IndInv, MainStep \/ Exit
  PROVE  OneOwnCall'
<1> USE DEF IndInv
<1>1. UNCHANGED reader
  BY MainFrame
<1>2. CASE HandleRequest
  <2>1. Taken("request") /\ UNCHANGED <<do_run, call>>
    BY <1>2 DEF HandleRequest, readerVars
  <2> DEFINE f == [i \in DOMAIN queue' |-> i + 1]
  <2>2. f \in [DOMAIN queue' -> Nat] /\ \A i \in DOMAIN queue' : f[i] = i + 1 /\ i \in Nat
    BY <2>1, TakenFirst
  <2> HIDE DEF f
  <2>3. \A i \in DOMAIN queue' : f[i] \in DOMAIN queue /\ queue'[i] = queue[f[i]]
    BY <2>1, <2>2, TakenFirst
  <2>4. \A i, j \in DOMAIN queue' : f[i] = f[j] => i = j
    BY <2>2
  <2> QED BY <1>1, <2>1, <2>2, <2>3, <2>4, KeepsCall
<1>3. ASSUME NEW method \in {"on_connect", "on_disconnect"}, Taken(method)
      PROVE  /\ call = "pending" /\ (method = "on_connect" <=> reader = "connect")
             /\ \A i \in DOMAIN queue' : ~ IsOwn(i)'
  <2>1. IsOwn(1) /\ 1 \in DOMAIN queue /\ queue[1].method = method
    BY <1>3, TakenFirst DEF IsOwn
  <2>2. \A i \in DOMAIN queue' : i \in Nat /\ i + 1 \in DOMAIN queue /\ queue'[i] = queue[i + 1]
    BY <1>3, TakenFirst
  <2>3. \A i \in DOMAIN queue' : ~ IsOwn(i)'
    <3> SUFFICES ASSUME NEW i \in DOMAIN queue', IsOwn(i)' PROVE FALSE
      OBVIOUS
    <3>1. IsOwn(i + 1) /\ i + 1 \in DOMAIN queue /\ i \in Nat
      BY <2>2 DEF IsOwn
    <3>2. i + 1 = 1
      BY <2>1, <3>1 DEF OneOwnCall
    <3>3. queue' \in Seq(Request \cup OwnCall)
      BY <1>3, TakenFirst
    <3> HIDE DEF IndInv
    <3> QED BY <3>1, <3>2, <3>3
  <2> QED BY <2>1, <2>3 DEF OneOwnCall
<1>4. CASE OnConnect
  <2>1. Taken("on_connect")
    BY <1>4 DEF OnConnect
  <2> QED BY <1>1, <1>3, <2>1, NoCall
<1>5. CASE OnDisconnect
  <2>1. Taken("on_disconnect") /\ call' = "ok"
    BY <1>5 DEF OnDisconnect
  <2>2. reader = "disconnect"
    BY <1>3, <2>1 DEF OneOwnCall
  <2> QED BY <1>1, <1>3, <2>1, <2>2, NoCall
<1>6. CASE Cleanup
  <2>1. queue' = <<>> /\ ~ do_run' /\ (call' = call \/ call = "pending")
    BY <1>6 DEF Cleanup
  <2>2. reader' \in {"connect", "disconnect"} \/ call' = "none"
    BY <1>1, <2>1 DEF OneOwnCall
  <2> QED BY <2>1, <2>2, NoCall
<1>7. CASE Track \/ Exit \/ ShutdownSocket \/ Join
  <2>1. UNCHANGED <<queue, call>> /\ (do_run' => do_run)
    BY <1>7 DEF Track, Exit, ShutdownSocket, Join, readerVars
  <2> QED BY <1>1, <2>1, KeepsQueue
<1> QED BY <1>2, <1>4, <1>5, <1>6, <1>7 DEF MainStep

\* The steps of the read thread, of the other end and of the network.
LEMMA ReaderOwn ==
  ASSUME IndInv, ReaderStep \/ Rewire \/ RemoteAnswer \/ Cut
  PROVE  OneOwnCall'
<1> USE DEF IndInv
<1>1. call # "pending" => \A i \in DOMAIN queue : ~ IsOwn(i)
  BY DEF OneOwnCall
<1>2. ASSUME NEW m, NEW w \in {"connect", "disconnect"}, NEW x \in {"leave", "disconnect"}, CallProxy(m, w, x),
             reader \in {"connected", "lost"}, m # "request", m = "on_connect" <=> w = "connect"
      PROVE  OneOwnCall'
  <2>1. call = "none"
    BY <1>2 DEF OneOwnCall
  <2>2. CASE do_run
    <3> DEFINE e == [method |-> m]
    <3>1. queue' = Append(queue, e) /\ call' = "pending" /\ reader' = w
      BY <1>2, <2>2 DEF CallProxy
    <3>2. e.method = m
      OBVIOUS
    <3> HIDE DEF e
    <3>3. queue \in Seq(Request \cup OwnCall)
      BY DEF TypeOK
    <3>4. \A i \in DOMAIN queue' : (i = Len(queue) + 1 /\ queue'[i] = e) \/ (i \in DOMAIN queue /\ queue'[i] = queue[i])
      <4> HIDE DEF IndInv
      <4> QED BY <3>1, <3>3
    <3>5. \A i \in DOMAIN queue' : IsOwn(i)' => i = Len(queue) + 1 /\ queue'[i] = e
      BY <1>1, <2>1, <3>4 DEF IsOwn
    <3> QED BY <1>2, <3>1, <3>2, <3>5 DEF OneOwnCall
  <2>3. CASE ~ do_run
    <3>1. UNCHANGED <<queue, call, do_run>>
      BY <1>2, <2>3 DEF CallProxy
    <3> QED BY <1>1, <2>1, <2>3, <3>1, NoCall DEF IsOwn
  <2> QED BY <2>2, <2>3
<1>3. CASE CallConnect
  BY <1>2, <1>3 DEF CallConnect
<1>4. CASE CallDisconnect
  BY <1>2, <1>4 DEF CallDisconnect
<1>5. CASE Connected \/ CloseSocket
  <2>1. call # "pending" /\ call' = "none" /\ UNCHANGED queue /\ reader' \in {"read", "leave", "loop"}
    BY <1>5 DEF Connected, CloseSocket, proxyVars
  <2> QED BY <1>1, <2>1, NoCall DEF IsOwn
<1>6. CASE Loop \/ ReadReturn \/ Forget \/ ReadError \/ Leave \/ Rewire
  <2>1. reader \notin {"connect", "disconnect"} /\ reader' \notin {"connect", "disconnect"}
    BY <1>6 DEF Loop, ReadReturn, Forget, ReadError, Leave, Rewire
  <2>2. UNCHANGED <<call, queue>>
    BY <1>6 DEF Loop, ReadReturn, Forget, ReadError, Leave, Rewire, proxyVars
  <2>3. call = "none"
    BY <2>1 DEF OneOwnCall
  <2> QED BY <1>1, <2>1, <2>2, <2>3, NoCall DEF IsOwn
<1>7. CASE RemoteAnswer \/ Cut
  <2>1. UNCHANGED <<do_run, reader, call, queue>>
    BY <1>7 DEF RemoteAnswer, Cut, proxyVars, readerVars
  <2> QED BY <2>1, KeepsQueue
<1> QED BY <1>3, <1>4, <1>5, <1>6, <1>7 DEF ReaderStep

-----------------------------------------------------------------------------
(* Clean: between two connections. *)

\* Nothing changes while there is no connection.
LEMMA StaysClean ==
  ASSUME Clean, do_run' => do_run, do_run' /\ Between' => Between,
         Between => UNCHANGED <<is_connected, request_map, main>>
  PROVE  Clean'
BY DEF Clean

\* The steps of the main thread.
LEMMA MainClean ==
  ASSUME IndInv, MainStep \/ Exit
  PROVE  Clean'
<1> USE DEF IndInv
<1>1. UNCHANGED <<config, reader>>
  BY MainFrame
<1>2. CASE HandleRequest
  <2>1. UNCHANGED <<do_run, is_connected, request_map, call, socket>> /\ do_run
    BY <1>2, TakenFirst DEF HandleRequest, readerVars
  <2>2. Between' => Between
    BY <1>1, <2>1 DEF Between
  <2>3. Between => ~ is_connected
    BY <2>1 DEF Clean
  <2>4. Between => UNCHANGED main
    BY <1>2, <2>3 DEF HandleRequest
  <2> QED BY <2>1, <2>2, <2>4, StaysClean
<1>3. CASE Track
  <2>1. UNCHANGED <<do_run, call, socket>> /\ main = "track"
    BY <1>3 DEF Track, readerVars, linkVars
  <2>2. Between' => Between
    BY <1>1, <2>1 DEF Between
  <2> QED BY <2>1, <2>2 DEF Clean
<1>4. CASE OnConnect
  <2>1. Taken("on_connect") /\ UNCHANGED do_run
    BY <1>4 DEF OnConnect
  <2>2. 1 \in DOMAIN queue /\ IsOwn(1) /\ queue[1].method = "on_connect"
    BY <2>1, TakenFirst DEF IsOwn
  <2>3. reader = "connect"
    BY <2>2 DEF OneOwnCall
  <2> QED BY <1>1, <2>3 DEF Clean, Between
<1>5. CASE OnDisconnect
  <2>1. ~ is_connected' /\ request_map' = {} /\ UNCHANGED main /\ Taken("on_disconnect")
    BY <1>5 DEF OnDisconnect, Disconnect
  <2>2. main = "run"
    BY <2>1 DEF Taken
  <2> QED BY <2>1, <2>2 DEF Clean
<1>6. CASE Exit
  BY <1>6 DEF Exit, Clean
<1>7. CASE Cleanup \/ ShutdownSocket \/ Join
  <2>1. ~ do_run /\ UNCHANGED do_run
    BY <1>7 DEF Cleanup, ShutdownSocket, Join, Shape
  <2> QED BY <2>1 DEF Clean
<1> QED BY <1>2, <1>3, <1>4, <1>5, <1>6, <1>7 DEF MainStep

\* The steps of the read thread, of the other end and of the network.
LEMMA ReaderClean ==
  ASSUME IndInv, ReaderStep \/ Rewire \/ RemoteAnswer \/ Cut
  PROVE  Clean'
<1> USE DEF IndInv
<1>1. UNCHANGED <<config, is_connected, main>>
  BY ReaderFrame
<1>2. CASE Loop
  <2>1. UNCHANGED <<do_run, request_map>>
    BY <1>2 DEF Loop, proxyVars
  <2>2. do_run /\ reader' = "rewire" => Between
    BY <1>2 DEF Loop, Between
  <2>3. reader' \in {"leave", "read", "rewire"}
    BY <1>2 DEF Loop
  <2>4. do_run' /\ Between' => Between
    BY <2>1, <2>2, <2>3 DEF Between
  <2> QED BY <1>1, <2>1, <2>4, StaysClean
<1>3. CASE Rewire
  <2>1. UNCHANGED <<do_run, request_map>> /\ reader = "rewire"
    BY <1>3 DEF Rewire, proxyVars
  <2>2. Between
    BY <2>1 DEF Between
  <2> QED BY <1>1, <2>1, <2>2, StaysClean
<1>4. CASE CloseSocket
  <2>1. UNCHANGED <<do_run, request_map>> /\ reader = "disconnect" /\ call # "pending"
    BY <1>4 DEF CloseSocket, proxyVars
  <2>2. do_run => Between
    BY <2>1 DEF OneOwnCall, Between
  <2> QED BY <1>1, <2>1, <2>2, StaysClean
<1>5. CASE CallDisconnect \/ CallConnect
  <2>1. ~ (do_run' /\ Between')
    <3>1. CASE do_run
      BY <1>5, <3>1 DEF CallDisconnect, CallConnect, CallProxy, Between
    <3>2. CASE ~ do_run
      BY <1>5, <3>2 DEF CallDisconnect, CallConnect, CallProxy
    <3> QED BY <3>1, <3>2
  <2> QED BY <2>1 DEF Clean
<1>6. CASE Connected \/ ReadReturn \/ Forget \/ ReadError
  <2>1. reader' \in {"read", "leave", "forget", "lost"}
    BY <1>6 DEF Connected, ReadReturn, Forget, ReadError
  <2> QED BY <2>1 DEF Clean, Between
<1>7. CASE Leave
  BY <1>7 DEF Leave, Clean
<1>8. CASE RemoteAnswer \/ Cut
  <2>1. UNCHANGED <<do_run, request_map, reader, call>>
    BY <1>8 DEF RemoteAnswer, Cut, proxyVars, readerVars
  <2>2. socket' = "none" => socket = "none"
    BY <1>8 DEF RemoteAnswer, Cut
  <2>3. Between' => Between
    BY <1>1, <2>1, <2>2 DEF Between
  <2> QED BY <1>1, <2>1, <2>3, StaysClean
<1> QED BY <1>2, <1>3, <1>4, <1>5, <1>6, <1>7, <1>8 DEF ReaderStep

-----------------------------------------------------------------------------
(* Theorems. *)

\* Every step keeps the invariant.
LEMMA NextInv == IndInv /\ [Next]_vars => IndInv'
<1> SUFFICES ASSUME IndInv, [Next]_vars PROVE IndInv'
  OBVIOUS
<1>1. Shape' /\ Returned'
  BY NextShape, NextReturned
<1>2. ASSUME NEW c \in Client, Call(c) \/ Retry(c) \/ Receive(c)
      PROVE  TypeOK' /\ Issued' /\ ForwardTracked' /\ OneOwnCall' /\ Clean'
  <2>1. TypeOK' /\ Issued' /\ ForwardTracked' /\ OneOwnCall'
    BY <1>2, ClientType, ClientIssued, ClientTracked, ClientOwn
  <2>2. UNCHANGED <<config, do_run, is_connected, request_map, main, reader, call, socket>>
    BY <1>2 DEF Call, Retry, Receive, proxyVars, readerVars, linkVars
  <2>3. Clean'
    BY <2>2 DEF IndInv, Clean, Between
  <2> QED BY <2>1, <2>3
<1>3. ASSUME MainStep \/ Exit
      PROVE  TypeOK' /\ Issued' /\ ForwardTracked' /\ OneOwnCall' /\ Clean'
  BY <1>3, MainType, MainIssued, MainTracked, MainOwn, MainClean
<1>4. ASSUME ReaderStep \/ Rewire \/ RemoteAnswer \/ Cut
      PROVE  TypeOK' /\ Issued' /\ ForwardTracked' /\ OneOwnCall' /\ Clean'
  BY <1>4, ReaderType, ReaderIssued, ReaderTracked, ReaderOwn, ReaderClean
<1>5. CASE UNCHANGED vars
  <2>1. UNCHANGED <<config, do_run, queue, paused, is_connected, request_map, main, current, reader, call,
                    returned, socket, connects, sent, received, at, calls, inbox>>
    BY <1>5 DEF vars, proxyVars, readerVars, linkVars, clientVars
  <2>2. TypeOK'
    BY <2>1 DEF IndInv, TypeOK
  <2>4. Issued'
    <3>1. \A r \in Request : Underway(r)' => Underway(r)
      BY <2>1 DEF Underway
    <3> QED BY <2>1, <3>1, MovesIssued DEF IndInv
  <2>5. ForwardTracked'
    <3>1. \A r \in Request : Tracked(r) => Tracked(r)'
      BY <2>1 DEF Tracked
    <3> QED BY <2>1, <3>1, Carried
  <2>3. OneOwnCall' /\ Clean'
    BY <2>1 DEF IndInv, OneOwnCall, IsOwn, Clean, Between
  <2> QED BY <1>1, <2>2, <2>3, <2>4, <2>5 DEF IndInv
<1> QED BY <1>1, <1>2, <1>3, <1>4, <1>5 DEF Next, IndInv

\* The inductive invariant, with the types of the state.
THEOREM Invariance == Spec => []IndInv
BY InitInv, NextInv, PTL DEF Spec

\* A client that waits for a return has its request in the pipe of the proxy,
\* in request_map or on the way there, or the return in its pipe, however the
\* connection breaks and comes back (BaseProxy: handle, on_disconnect, process).
THEOREM NoRequestForgotten == Spec => []ForwardTracked
<1>1. IndInv => ForwardTracked
  BY DEF IndInv
<1> QED BY <1>1, Invariance, PTL

\* The read thread connects again only when the proxy has forgotten the last
\* connection and all requests it kept for it (BaseProxy: read_loop,
\* on_disconnect).
THEOREM EachConnectionClean == Spec => []ConnectsClean
<1>1. IndInv => ConnectsClean
  BY DEF IndInv, Clean, Between, ConnectsClean
<1> QED BY <1>1, Invariance, PTL
=============================================================================
