-------------------------- MODULE RequestReplyProofs --------------------------
(***************************************************************************)
(* Theorems about RequestReply, for any number of instances of the         *)
(* service, of clients, of threads that share them, and of calls.          *)
(*                                                                         *)
(* A request is answered once because every step that takes it from where  *)
(* it is leaves it in one place at most (OnePlace), and it enters the      *)
(* first of them with a number that is new (Numbered). A step that moves   *)
(* a request is an instance of Moved, one that may lose it of Dropped.     *)
(***************************************************************************)
EXTENDS RequestReply, TLAPS

-----------------------------------------------------------------------------
(* Queues and places. *)

\* What is in a sequence after Append.
LEMMA Appended ==
  ASSUME NEW S, NEW q \in Seq(S), NEW e \in S
  PROVE  /\ Append(q, e) \in Seq(S)
         /\ DOMAIN Append(q, e) = 1..(Len(q) + 1) /\ DOMAIN q = 1..Len(q) /\ Len(q) \in Nat
         /\ \A i \in DOMAIN q : i \in DOMAIN Append(q, e) /\ Append(q, e)[i] = q[i]
         /\ Append(q, e)[Len(q) + 1] = e
OBVIOUS

\* What is left of a sequence by Tail.
LEMMA Left ==
  ASSUME NEW S, NEW q \in Seq(S), q # <<>>
  PROVE  /\ Tail(q) \in Seq(S) /\ Head(q) \in S /\ Head(q) = q[1]
         /\ \A i \in DOMAIN q : i = 1 \/ (i - 1 \in DOMAIN Tail(q) /\ Tail(q)[i - 1] = q[i])
         /\ \A i \in DOMAIN Tail(q) : i + 1 \in DOMAIN q /\ Tail(q)[i] = q[i + 1]
         /\ 1 \in DOMAIN q /\ DOMAIN q \subseteq Nat /\ DOMAIN Tail(q) \subseteq Nat
<1>1. Tail(q) \in Seq(S) /\ Len(Tail(q)) = Len(q) - 1 /\ Len(q) \in Nat \ {0}
  OBVIOUS
<1>2. DOMAIN q = 1..Len(q) /\ DOMAIN Tail(q) = 1..(Len(q) - 1)
  BY <1>1
<1>3. \A i \in 1..(Len(q) - 1) : Tail(q)[i] = q[i + 1]
  OBVIOUS
<1>4. Head(q) = q[1] /\ q[1] \in S
  OBVIOUS
<1> QED BY <1>1, <1>2, <1>3, <1>4

\* A request at the end of a queue it is not in.
LEMMA AddedOnce ==
  ASSUME NEW q \in Seq(Request), NEW r \in Request, Injective(q), \A i \in DOMAIN q : q[i] # r
  PROVE  /\ Append(q, r) \in Seq(Request)
         /\ Injective(Append(q, r))
         /\ \A i \in DOMAIN Append(q, r) : Append(q, r)[i] = r \/ \E j \in DOMAIN q : q[j] = Append(q, r)[i]
<1>1. Append(q, r) \in Seq(Request) /\ DOMAIN q = 1..Len(q) /\ Len(q) \in Nat
  BY Appended
<1>2. \A i \in DOMAIN Append(q, r) : \/ i = Len(q) + 1 /\ Append(q, r)[i] = r
                                     \/ i \in DOMAIN q /\ Append(q, r)[i] = q[i]
  BY Appended
<1>3. Injective(Append(q, r))
  BY <1>1, <1>2 DEF Injective
<1> QED BY <1>1, <1>2, <1>3

\* A queue without its first request.
LEMMA TakenOnce ==
  ASSUME NEW q \in Seq(Request), Injective(q), q # <<>>
  PROVE  /\ Tail(q) \in Seq(Request) /\ Injective(Tail(q)) /\ Head(q) \in Request
         /\ \E j \in DOMAIN q : q[j] = Head(q)
         /\ \A i \in DOMAIN Tail(q) : Tail(q)[i] # Head(q) /\ \E j \in DOMAIN q : q[j] = Tail(q)[i]
<1>1. Tail(q) \in Seq(Request) /\ Head(q) \in Request /\ Head(q) = q[1] /\ 1 \in DOMAIN q
  BY Left
<1>2. \A i \in DOMAIN Tail(q) : i \in Nat /\ i + 1 \in DOMAIN q /\ Tail(q)[i] = q[i + 1]
  BY Left
<1>3. \A i \in DOMAIN Tail(q) : i + 1 # 1
  <2>1. \A i \in DOMAIN Tail(q) : i # 0
    BY <1>1
  <2> QED BY <1>2, <2>1
<1>4. \A i \in DOMAIN Tail(q) : Tail(q)[i] # Head(q)
  BY <1>1, <1>2, <1>3 DEF Injective
<1>5. Injective(Tail(q))
  <2> SUFFICES ASSUME NEW i \in DOMAIN Tail(q), NEW j \in DOMAIN Tail(q), Tail(q)[i] = Tail(q)[j]
               PROVE  i = j
    BY DEF Injective
  <2>1. i + 1 = j + 1
    BY <1>2 DEF Injective
  <2> QED BY <1>2, <2>1
<1> QED BY <1>1, <1>2, <1>4, <1>5

\* What is known of the places, where it is used.
LEMMA Types ==
  ASSUME IndInv
  PROVE  /\ \A s \in Service : queue[s] \in Seq(Request) /\ leftover[s] \in Seq(Request)
         /\ \A s \in Service : Injective(queue[s]) /\ Injective(leftover[s])
         /\ None \in Owner /\ Service \subseteq Owner /\ Thread \subseteq Owner
         /\ \A r \in Request : answers[r] \in Nat /\ answers[r] <= 1
BY DEF IndInv, TypeOK, Once, Owner, OneAnswer

\* The kinds of places.
LEMMA Kinds ==
  /\ "send" \in Kind /\ "queue" \in Kind /\ "leftover" \in Kind /\ "async" \in Kind /\ "returning" \in Kind
  /\ "answered" \in Kind
BY DEF Kind

\* Request q goes from a place m of v to a place n of w, and no other changes.
Moves(q, m, v, n, w) ==
    \A r \in Request : \A k \in Kind : \A x \in Owner :
        Place(r, k, x)' => \/ Place(r, k, x) /\ ~ (r = q /\ k = m /\ x = v)
                           \/ r = q /\ k = n /\ x = w

\* It is in one place after that.
LEMMA Moved ==
  ASSUME IndInv, NEW q \in Request, NEW m \in Kind, NEW v \in Owner, NEW n \in Kind, NEW w \in Owner,
         Place(q, m, v), UNCHANGED next_id, Moves(q, m, v, n, w)
  PROVE  OnePlace' /\ Numbered'
<1>1. OnePlace'
  BY DEF IndInv, OnePlace, Moves
<1>2. \A r \in Request : r.src \in Client
  BY DEF Request
<1>3. Numbered'
  BY <1>2 DEF IndInv, Numbered, Moves
<1> QED BY <1>1, <1>3

\* Requests that stay where they are, or are gone.
LEMMA Dropped ==
  ASSUME IndInv, UNCHANGED next_id,
         \A r \in Request : \A k \in Kind : \A x \in Owner : Place(r, k, x)' => Place(r, k, x)
  PROVE  OnePlace' /\ Numbered'
<1>1. OnePlace'
  BY DEF IndInv, OnePlace
<1>2. \A r \in Request : r.src \in Client
  BY DEF Request
<1>3. Numbered'
  BY <1>2 DEF IndInv, Numbered
<1> QED BY <1>1, <1>3

\* Answer() counts one answer more, of a request that is elsewhere.
LEMMA Answered ==
  ASSUME IndInv, NEW r \in Request, NEW k \in Kind \ {"answered"}, NEW x \in Owner, Place(r, k, x), Answer(r)
  PROVE  /\ OneAnswer' /\ answers' \in [Request -> Nat] /\ inbox' \in [Client -> Seq(Nat)]
         /\ \A q \in Request : answers'[q] > 0 => answers[q] > 0 \/ q = r
<1>1. answers \in [Request -> Nat] /\ answers' = [answers EXCEPT ![r] = @ + 1]
  BY DEF IndInv, TypeOK, Answer
<1>2. answers[r] = 0
  <2>1. ~ Place(r, "answered", None)
    BY DEF IndInv, OnePlace, Kind, Owner
  <2>2. ~ (answers[r] > 0)
    BY <2>1 DEF Place
  <2> QED BY <1>1, <2>2
<1>3. OneAnswer'
  BY <1>1, <1>2 DEF IndInv, OneAnswer
<1>4. inbox' \in [Client -> Seq(Nat)]
  <2>1. r.src \in Client /\ r.id \in Nat
    BY ConstantsAssumption DEF Request, Id
  <2>2. inbox \in [Client -> Seq(Nat)]
    BY DEF IndInv, TypeOK
  <2>3. Append(inbox[r.src], r.id) \in Seq(Nat)
    BY <2>1, <2>2, Appended
  <2> QED BY <2>1, <2>2, <2>3 DEF Answer
<1> QED BY <1>1, <1>3, <1>4

-----------------------------------------------------------------------------
(* The steps, and where they leave the requests. *)

\* Without a change of the places.
LEMMA Unplaced ==
  ASSUME IndInv, UNCHANGED <<queue, leftover, async_requests, returning, answers, request, target, next_id>>,
         \A t \in Thread : at'[t] = "send" => at[t] = "send"
  PROVE  Shape' /\ OnePlace' /\ Once' /\ Numbered' /\ OneAnswer'
<1>1. \A r \in Request : \A k \in Kind : \A x \in Owner : Place(r, k, x)' => Place(r, k, x)
  BY DEF Place
<1>2. OnePlace' /\ Numbered'
  BY <1>1, Dropped
<1>3. Shape' /\ Once' /\ OneAnswer'
  BY DEF IndInv, Shape, Once, Injective, OneAnswer
<1> QED BY <1>2, <1>3

\* The life of an instance, and a method that returns nothing.
LEMMA ServiceQuiet ==
  ASSUME IndInv, NEW s \in Service, Start(s) \/ Exit(s) \/ Defer(s)
  PROVE  TypeOK' /\ Shape' /\ OnePlace' /\ Once' /\ Numbered' /\ OneAnswer'
<1>1. UNCHANGED <<queue, leftover, async_requests, jobs, returning, answers, at, request, target, calls, next_id,
                  service_pipe, inbox, pending, ended, called>>
  BY DEF Start, Exit, Defer, callVars
<1>2. Shape' /\ OnePlace' /\ Once' /\ Numbered' /\ OneAnswer'
  BY <1>1, Unplaced
<1>3. /\ pipe_map' \in Service \cup {None} /\ vnx_request' \in [Service -> Request \cup {None}]
      /\ state' \in [Service -> {"new", "run", "exit", "close", "cancel", "gone"}]
  BY DEF Start, Exit, Defer, IndInv, TypeOK
<1>4. TypeOK'
  BY <1>1, <1>3 DEF IndInv, TypeOK
<1> QED BY <1>2, <1>4

\* A client that reads, and the end of its module.
LEMMA ClientQuiet ==
  ASSUME IndInv, NEW t \in Thread, Read(t) \/ Callback(t) \/ ModuleClose(t) \/ Shutdown(t)
  PROVE  TypeOK' /\ Shape' /\ OnePlace' /\ Once' /\ Numbered' /\ OneAnswer'
<1> DEFINE c == ClientOf[t]
<1>0. c \in Client
  BY ConstantsAssumption
<1>1. UNCHANGED <<serviceVars, answers, request, target, calls, next_id>>
  BY DEF Read, Callback, ModuleClose, Shutdown, callVars
<1>2. /\ at' \in [Thread -> {"idle", "send", "read"}]
      /\ \A x \in Thread : at'[x] = "send" => at[x] = "send"
  BY ZenonT(60) DEF Read, Callback, ModuleClose, Shutdown, callVars, IndInv, TypeOK
<1>3. Shape' /\ OnePlace' /\ Once' /\ Numbered' /\ OneAnswer'
  BY <1>1, <1>2, Unplaced DEF serviceVars
<1>4. inbox' \in [Client -> Seq(Nat)]
  <2>1. inbox \in [Client -> Seq(Nat)] /\ <<>> \in Seq(Nat)
    BY DEF IndInv, TypeOK
  <2>2. inbox[c] # <<>> => Tail(inbox[c]) \in Seq(Nat)
    BY <1>0, <2>1, Left
  <2>3. \/ UNCHANGED inbox \/ inbox' = [inbox EXCEPT ![c] = <<>>]
        \/ inbox[c] # <<>> /\ inbox' = [inbox EXCEPT ![c] = Tail(@)]
    BY DEF Read, Callback, ModuleClose, Shutdown
  <2> HIDE DEF c
  <2> QED BY <1>0, <2>1, <2>2, <2>3
<1>5. /\ service_pipe' \in [Client -> Service \cup {None}] /\ pending' \in [Client -> SUBSET Nat]
      /\ ended' \in [Client -> {"no", "closed", "yes"}]
  <2>1. /\ service_pipe \in [Client -> Service \cup {None}] /\ pending \in [Client -> SUBSET Nat]
        /\ ended \in [Client -> {"no", "closed", "yes"}]
    BY DEF IndInv, TypeOK
  <2>2. UNCHANGED service_pipe \/ service_pipe' = [service_pipe EXCEPT ![c] = None]
    BY DEF Read, Callback, ModuleClose, Shutdown
  <2>3. UNCHANGED ended \/ \E e \in {"closed", "yes"} : ended' = [ended EXCEPT ![c] = e]
    BY DEF Read, Callback, ModuleClose, Shutdown
  <2>4. UNCHANGED pending \/ \E i : pending' = [pending EXCEPT ![c] = @ \ {i}] \/ pending' = [pending EXCEPT ![c] = {}]
    BY DEF Read, Callback, ModuleClose, Shutdown
  <2> HIDE DEF c
  <2> QED BY <1>0, <2>1, <2>2, <2>3, <2>4
<1>6. called' \in [Client -> [Id -> Nat]]
  <2>1. called \in [Client -> [Id -> Nat]]
    BY DEF IndInv, TypeOK
  <2>2. CASE Callback(t)
    <3>1. UNCHANGED called \/ called' = [called EXCEPT ![c][Head(inbox[c])] = @ + 1]
      BY <2>2 DEF Callback
    <3> QED BY <1>0, <2>1, <3>1
  <2>3. CASE Shutdown(t)
    <3>1. called' = [called EXCEPT ![c] = [i \in DOMAIN @ |-> @[i] + (IF i \in pending[c] THEN 1 ELSE 0)]]
      BY <2>3 DEF Shutdown
    <3> QED BY <1>0, <2>1, <3>1
  <2>4. CASE Read(t) \/ ModuleClose(t)
    BY <2>1, <2>4 DEF Read, ModuleClose
  <2> QED BY <2>2, <2>3, <2>4
<1>7. TypeOK'
  BY <1>1, <1>2, <1>4, <1>5, <1>6 DEF IndInv, TypeOK, serviceVars
<1> QED BY <1>3, <1>7

\* A request is taken from the pipe.
LEMMA TakePlace ==
  ASSUME IndInv, NEW s \in Service, Take(s)
  PROVE  TypeOK' /\ Shape' /\ OnePlace' /\ Once' /\ Numbered' /\ OneAnswer'
<1> DEFINE r == Head(queue[s])
<1>1. /\ queue[s] \in Seq(Request) /\ Injective(queue[s]) /\ queue[s] # <<>>
      /\ queue' = [queue EXCEPT ![s] = Tail(@)] /\ queue \in [Service -> Seq(Request)]
      /\ async_requests' = [async_requests EXCEPT ![s] = @ \cup {r}]
      /\ async_requests \in [Service -> SUBSET Request]
  BY Types DEF Take, IndInv, TypeOK
<1>2. /\ Tail(queue[s]) \in Seq(Request) /\ Injective(Tail(queue[s])) /\ r \in Request
      /\ \E j \in DOMAIN queue[s] : queue[s][j] = r
      /\ \A i \in DOMAIN Tail(queue[s]) :
           Tail(queue[s])[i] # r /\ \E j \in DOMAIN queue[s] : queue[s][j] = Tail(queue[s])[i]
  BY <1>1, TakenOnce
<1> HIDE DEF r
<1>3. UNCHANGED <<pipe_map, state, returning, leftover, service_pipe, next_id, inbox,
                  pending, ended, at, request, target, calls, answers, called>>
  BY DEF Take, callVars
<1>4. Place(r, "queue", s)
  BY <1>2 DEF Place
<1>5. /\ queue'[s] = Tail(queue[s]) /\ \A x \in Service : x # s => queue'[x] = queue[x]
      /\ async_requests'[s] = async_requests[s] \cup {r}
      /\ \A x \in Service : x # s => async_requests'[x] = async_requests[x]
  BY <1>1
<1>6. Moves(r, "queue", s, "async", s)
  <2> SUFFICES ASSUME NEW q \in Request, NEW k \in Kind, NEW x \in Owner, Place(q, k, x)'
               PROVE  \/ Place(q, k, x) /\ ~ (q = r /\ k = "queue" /\ x = s)
                      \/ q = r /\ k = "async" /\ x = s
    BY DEF Moves
  <2>1. CASE k = "queue"
    <3>1. x \in Service /\ \E i \in DOMAIN queue'[x] : queue'[x][i] = q
      BY <2>1 DEF Place
    <3>2. CASE x = s
      <4>1. q # r /\ \E j \in DOMAIN queue[s] : queue[s][j] = q
        BY <1>2, <1>5, <3>1, <3>2, ZenonT(60)
      <4> QED BY <2>1, <3>1, <3>2, <4>1 DEF Place
    <3>3. CASE x # s
      BY <1>5, <2>1, <3>1, <3>3 DEF Place
    <3> QED BY <3>2, <3>3
  <2>2. CASE k = "async"
    BY <1>5, <2>2 DEF Place
  <2>3. CASE k \notin {"queue", "async"}
    BY <1>3, <2>3 DEF Place
  <2> QED BY <2>1, <2>2, <2>3
<1>7. OnePlace' /\ Numbered'
  BY <1>2, <1>3, <1>4, <1>6, Types, Kinds, Moved
<1>8. Once' /\ Shape' /\ OneAnswer'
  BY <1>2, <1>3, <1>5 DEF IndInv, Once, Shape, OneAnswer
<1>9. /\ vnx_request' \in [Service -> Request \cup {None}] /\ jobs' \in [Service -> SUBSET Request]
      /\ queue' \in [Service -> Seq(Request)] /\ async_requests' \in [Service -> SUBSET Request]
  <2>1. vnx_request' = [vnx_request EXCEPT ![s] = r] /\ (jobs' = jobs \/ jobs' = [jobs EXCEPT ![s] = @ \cup {r}])
    BY DEF Take, r
  <2>2. vnx_request \in [Service -> Request \cup {None}] /\ jobs \in [Service -> SUBSET Request]
    BY DEF IndInv, TypeOK
  <2> QED BY <1>1, <1>2, <2>1, <2>2, ZenonT(60)
<1>10. TypeOK'
  BY <1>3, <1>9 DEF IndInv, TypeOK
<1> QED BY <1>7, <1>8, <1>10

\* A request that is promised is answered, or dropped if nobody wants the answer.
LEMMA ReplyPlace ==
  ASSUME IndInv, NEW s \in Service, Reply(s)
  PROVE  TypeOK' /\ Shape' /\ OnePlace' /\ Once' /\ Numbered' /\ OneAnswer'
<1> DEFINE r == vnx_request[s]
<1>1. /\ async_requests' = [async_requests EXCEPT ![s] = @ \ {r}] /\ r \in async_requests[s]
      /\ async_requests \in [Service -> SUBSET Request]
      /\ vnx_request' = [vnx_request EXCEPT ![s] = None]
      /\ UNCHANGED <<answers, inbox>> \/ Answer(r)
  BY DEF Reply, IndInv, TypeOK
<1> HIDE DEF r
<1>2. r \in Request /\ Place(r, "async", s)
  BY <1>1 DEF Place
<1>3. UNCHANGED <<pipe_map, state, queue, jobs, returning, leftover, service_pipe, next_id,
                  pending, ended, at, request, target, calls, called>>
  BY DEF Reply, callVars
<1>4. \A x \in Service : async_requests'[x] = IF x = s THEN async_requests[s] \ {r} ELSE async_requests[x]
  BY <1>1
<1>5. /\ OneAnswer' /\ answers' \in [Request -> Nat] /\ inbox' \in [Client -> Seq(Nat)]
      /\ \A q \in Request : answers'[q] > 0 => answers[q] > 0 \/ q = r
  <2>1. CASE UNCHANGED <<answers, inbox>>
    BY <2>1 DEF IndInv, TypeOK, OneAnswer
  <2>2. CASE Answer(r)
    BY <1>2, <2>2, Types, Answered DEF Kind
  <2> QED BY <1>1, <2>1, <2>2
<1>6. Moves(r, "async", s, "answered", None)
  BY <1>3, <1>4, <1>5 DEF Place, Moves
<1>7. OnePlace' /\ Numbered'
  BY <1>2, <1>3, <1>6, Types, Kinds, Moved
<1>8. Once' /\ Shape'
  BY <1>3 DEF IndInv, Once, Injective, Shape
<1>9. vnx_request' \in [Service -> Request \cup {None}] /\ async_requests' \in [Service -> SUBSET Request]
  BY <1>1 DEF IndInv, TypeOK
<1>10. TypeOK'
  BY <1>3, <1>5, <1>9 DEF IndInv, TypeOK
<1> QED BY <1>5, <1>7, <1>8, <1>10

\* Another thread takes on the answer, and gives it.
LEMMA ReturnPlace ==
  ASSUME IndInv, NEW r \in Request, (\E s \in Service : AsyncReturn(s, r)) \/ AsyncSend(r)
  PROVE  TypeOK' /\ Shape' /\ OnePlace' /\ Once' /\ Numbered' /\ OneAnswer'
<1>1. ASSUME NEW s \in Service, AsyncReturn(s, r)
      PROVE  TypeOK' /\ Shape' /\ OnePlace' /\ Once' /\ Numbered' /\ OneAnswer'
  <2>1. UNCHANGED <<pipe_map, state, queue, vnx_request, leftover, service_pipe, next_id, inbox,
                    pending, ended, at, request, target, calls, answers, called>>
    BY <1>1 DEF AsyncReturn, callVars
  <2>2. /\ async_requests' = [async_requests EXCEPT ![s] = @ \ {r}] /\ jobs' = [jobs EXCEPT ![s] = @ \ {r}]
        /\ async_requests \in [Service -> SUBSET Request] /\ jobs \in [Service -> SUBSET Request]
        /\ returning' = IF r \in async_requests[s] THEN returning \cup {r} ELSE returning
        /\ returning \subseteq Request
    BY <1>1 DEF AsyncReturn, IndInv, TypeOK
  <2>3. \A x \in Service : async_requests'[x] = IF x = s THEN async_requests[s] \ {r} ELSE async_requests[x]
    BY <2>2
  <2>4. OnePlace' /\ Numbered'
    <3>1. CASE r \in async_requests[s]
      <4>1. Place(r, "async", s)
        BY <3>1 DEF Place
      <4>2. Moves(r, "async", s, "returning", None)
        BY <2>1, <2>2, <2>3 DEF Place, Moves
      <4> QED BY <2>1, <4>1, <4>2, Types, Kinds, Moved
    <3>2. CASE r \notin async_requests[s]
      <4>1. \A q \in Request : \A k \in Kind : \A x \in Owner : Place(q, k, x)' => Place(q, k, x)
        BY <2>1, <2>2, <2>3, <3>2 DEF Place
      <4> QED BY <2>1, <4>1, Dropped
    <3> QED BY <3>1, <3>2
  <2>5. Once' /\ Shape' /\ OneAnswer'
    BY <2>1 DEF IndInv, Once, Injective, Shape, OneAnswer
  <2>6. TypeOK'
    BY <2>1, <2>2 DEF IndInv, TypeOK
  <2> QED BY <2>4, <2>5, <2>6
<1>2. CASE AsyncSend(r)
  <2>1. UNCHANGED <<pipe_map, state, queue, vnx_request, async_requests, jobs, leftover, service_pipe,
                    next_id, pending, ended, at, request, target, calls, called>>
    BY <1>2 DEF AsyncSend, callVars
  <2>2. r \in returning /\ returning' = returning \ {r} /\ Answer(r)
    BY <1>2 DEF AsyncSend
  <2>3. Place(r, "returning", None)
    BY <2>2 DEF Place
  <2>4. /\ OneAnswer' /\ answers' \in [Request -> Nat] /\ inbox' \in [Client -> Seq(Nat)]
        /\ \A q \in Request : answers'[q] > 0 => answers[q] > 0 \/ q = r
    BY <2>2, <2>3, Types, Answered DEF Kind
  <2>5. Moves(r, "returning", None, "answered", None)
    BY <2>1, <2>2, <2>4 DEF Place, Moves
  <2>6. OnePlace' /\ Numbered'
    BY <2>1, <2>3, <2>5, Types, Kinds, Moved
  <2>7. Once' /\ Shape'
    BY <2>1 DEF IndInv, Once, Injective, Shape
  <2>8. TypeOK'
    BY <2>1, <2>2, <2>4 DEF IndInv, TypeOK
  <2> QED BY <2>4, <2>6, <2>7, <2>8
<1> QED BY <1>1, <1>2

\* close() takes all that is in the pipe.
LEMMA ClosePlace ==
  ASSUME IndInv, NEW s \in Service, Close(s)
  PROVE  TypeOK' /\ Shape' /\ OnePlace' /\ Once' /\ Numbered' /\ OneAnswer'
<1>1. UNCHANGED <<vnx_request, async_requests, jobs, returning, service_pipe, next_id,
                  inbox, pending, ended, at, request, target, calls, answers, called>>
  BY DEF Close, callVars
<1>2. /\ queue' = [queue EXCEPT ![s] = <<>>] /\ leftover' = [leftover EXCEPT ![s] = queue[s]]
      /\ queue \in [Service -> Seq(Request)] /\ leftover \in [Service -> Seq(Request)]
  BY DEF Close, IndInv, TypeOK
<1>3. /\ \A x \in Service : queue'[x] = IF x = s THEN <<>> ELSE queue[x]
      /\ \A x \in Service : leftover'[x] = IF x = s THEN queue[s] ELSE leftover[x]
      /\ DOMAIN <<>> = {}
  BY <1>2
<1>4. \A x \in Owner, r \in Request : Place(r, "queue", x)' => x # s /\ Place(r, "queue", x)
  BY <1>3 DEF Place
<1>5. \A x \in Owner, r \in Request : Place(r, "leftover", x)' =>
        IF x = s THEN Place(r, "queue", s) ELSE Place(r, "leftover", x)
  BY <1>3 DEF Place
<1>6. \A x \in Owner, r \in Request : \A k \in Kind \ {"queue", "leftover"} : Place(r, k, x)' => Place(r, k, x)
  BY <1>1 DEF Place
<1>7. OnePlace'
  <2> DEFINE From(k, x) == IF k = "leftover" /\ x = s THEN "queue" ELSE k
  <2>1. \A r \in Request : \A k \in Kind : \A x \in Owner :
          Place(r, k, x)' => From(k, x) \in Kind /\ Place(r, From(k, x), x) /\ (k = "queue" => x # s)
    BY <1>4, <1>5, <1>6, Kinds
  <2> SUFFICES ASSUME NEW r \in Request, NEW k \in Kind, NEW l \in Kind, NEW x \in Owner, NEW y \in Owner,
                      Place(r, k, x)', Place(r, l, y)'
               PROVE  k = l /\ x = y
    BY DEF OnePlace
  <2>2. From(k, x) = From(l, y) /\ x = y
    <3>1. /\ From(k, x) \in Kind /\ Place(r, From(k, x), x) /\ From(l, y) \in Kind /\ Place(r, From(l, y), y)
      BY <2>1
    <3> HIDE DEF From
    <3> QED BY <3>1 DEF IndInv, OnePlace
  <2>3. (k = "queue" => x # s) /\ (l = "queue" => y # s)
    BY <2>1
  <2> QED BY <2>2, <2>3
<1>8. Numbered'
  <2>1. \A r \in Request : \A k \in Kind : \A x \in Owner :
          Place(r, k, x)' => \E l \in Kind : Place(r, l, x)
    BY <1>4, <1>5, <1>6, Kinds
  <2>2. \A r \in Request : r.src \in Client
    BY DEF Request
  <2> QED BY <1>1, <2>1, <2>2 DEF IndInv, Numbered
<1>9. Once' /\ Shape' /\ OneAnswer'
  <2>1. \A x \in Service : Injective(queue'[x]) /\ Injective(leftover'[x])
    BY <1>3, Types DEF Injective
  <2> QED BY <1>1, <2>1 DEF IndInv, Once, Shape, OneAnswer
<1>10. TypeOK'
  <2>1. queue' \in [Service -> Seq(Request)] /\ leftover' \in [Service -> Seq(Request)]
    BY <1>2
  <2>2. pipe_map' \in Service \cup {None} /\ state' \in [Service -> {"new", "run", "exit", "close", "cancel", "gone"}]
    BY DEF Close, IndInv, TypeOK
  <2> QED BY <1>1, <2>1, <2>2 DEF IndInv, TypeOK
<1> QED BY <1>7, <1>8, <1>9, <1>10

\* What was left in the pipe is answered.
LEMMA LeftoverPlace ==
  ASSUME IndInv, NEW s \in Service, Leftover(s)
  PROVE  TypeOK' /\ Shape' /\ OnePlace' /\ Once' /\ Numbered' /\ OneAnswer'
<1>1. /\ UNCHANGED <<pipe_map, queue, vnx_request, async_requests, jobs, returning, service_pipe,
                  next_id, pending, ended, at, request, target, calls, called>>
      /\ state' \in [Service -> {"new", "run", "exit", "close", "cancel", "gone"}]
  BY DEF Leftover, callVars, IndInv, TypeOK
<1>2. CASE leftover[s] # <<>>
  <2> DEFINE r == Head(leftover[s])
  <2>1. /\ Answer(r) /\ leftover' = [leftover EXCEPT ![s] = Tail(@)] /\ leftover \in [Service -> Seq(Request)]
        /\ leftover[s] \in Seq(Request) /\ Injective(leftover[s])
    BY <1>2, Types DEF Leftover, IndInv, TypeOK
  <2>2. /\ Tail(leftover[s]) \in Seq(Request) /\ Injective(Tail(leftover[s])) /\ r \in Request
        /\ \E j \in DOMAIN leftover[s] : leftover[s][j] = r
        /\ \A i \in DOMAIN Tail(leftover[s]) :
             Tail(leftover[s])[i] # r /\ \E j \in DOMAIN leftover[s] : leftover[s][j] = Tail(leftover[s])[i]
    BY <1>2, <2>1, TakenOnce
  <2> HIDE DEF r
  <2>3. Place(r, "leftover", s)
    BY <2>2 DEF Place
  <2>4. leftover'[s] = Tail(leftover[s]) /\ \A x \in Service : x # s => leftover'[x] = leftover[x]
    BY <2>1
  <2>5. /\ OneAnswer' /\ answers' \in [Request -> Nat] /\ inbox' \in [Client -> Seq(Nat)]
        /\ \A q \in Request : answers'[q] > 0 => answers[q] > 0 \/ q = r
    BY <2>1, <2>2, <2>3, Types, Kinds, Answered
  <2>6. Moves(r, "leftover", s, "answered", None)
    <3> SUFFICES ASSUME NEW q \in Request, NEW k \in Kind, NEW x \in Owner, Place(q, k, x)'
                 PROVE  \/ Place(q, k, x) /\ ~ (q = r /\ k = "leftover" /\ x = s)
                        \/ q = r /\ k = "answered" /\ x = None
      BY DEF Moves
    <3>1. CASE k = "leftover"
      <4>1. x \in Service /\ \E i \in DOMAIN leftover'[x] : leftover'[x][i] = q
        BY <3>1 DEF Place
      <4>2. CASE x = s
        <5>1. q # r /\ \E j \in DOMAIN leftover[s] : leftover[s][j] = q
          BY <2>2, <2>4, <4>1, <4>2
        <5> QED BY <3>1, <4>1, <4>2, <5>1 DEF Place
      <4>3. CASE x # s
        BY <2>4, <3>1, <4>1, <4>3 DEF Place
      <4> QED BY <4>2, <4>3
    <3>2. CASE k = "answered"
      BY <2>5, <3>2 DEF Place
    <3>3. CASE k \notin {"leftover", "answered"}
      BY <1>1, <3>3 DEF Place
    <3> QED BY <3>1, <3>2, <3>3
  <2>7. OnePlace' /\ Numbered'
    BY <1>1, <2>2, <2>3, <2>6, Types, Kinds, Moved
  <2>8. Once' /\ Shape'
    BY <1>1, <2>2, <2>4 DEF IndInv, Once, Shape
  <2>9. leftover' \in [Service -> Seq(Request)]
    BY <2>1, <2>2
  <2>10. TypeOK'
    BY <1>1, <2>5, <2>9 DEF IndInv, TypeOK
  <2> QED BY <2>5, <2>7, <2>8, <2>10
<1>3. CASE leftover[s] = <<>>
  <2>1. UNCHANGED <<leftover, answers, inbox>>
    BY <1>3 DEF Leftover
  <2>2. Shape' /\ OnePlace' /\ Once' /\ Numbered' /\ OneAnswer'
    BY <1>1, <2>1, Unplaced
  <2>3. TypeOK'
    BY <1>1, <2>1 DEF IndInv, TypeOK
  <2> QED BY <2>2, <2>3
<1> QED BY <1>2, <1>3

\* What was promised is cancelled.
LEMMA CancelPlace ==
  ASSUME IndInv, NEW s \in Service, Cancel(s)
  PROVE  TypeOK' /\ Shape' /\ OnePlace' /\ Once' /\ Numbered' /\ OneAnswer'
<1>1. /\ UNCHANGED <<pipe_map, queue, vnx_request, jobs, returning, leftover, service_pipe,
                      next_id, pending, ended, at, request, target, calls, called>>
      /\ state' \in [Service -> {"new", "run", "exit", "close", "cancel", "gone"}]
  BY DEF Cancel, callVars, IndInv, TypeOK
<1>2. ASSUME NEW r \in async_requests[s], Answer(r), async_requests' = [async_requests EXCEPT ![s] = @ \ {r}]
      PROVE  TypeOK' /\ Shape' /\ OnePlace' /\ Once' /\ Numbered' /\ OneAnswer'
  <2>1. async_requests \in [Service -> SUBSET Request] /\ r \in Request
    BY DEF IndInv, TypeOK
  <2>2. Place(r, "async", s)
    BY DEF Place
  <2>3. \A x \in Service : async_requests'[x] = IF x = s THEN async_requests[s] \ {r} ELSE async_requests[x]
    BY <1>2, <2>1
  <2>4. /\ OneAnswer' /\ answers' \in [Request -> Nat] /\ inbox' \in [Client -> Seq(Nat)]
        /\ \A q \in Request : answers'[q] > 0 => answers[q] > 0 \/ q = r
    BY <1>2, <2>1, <2>2, Types, Kinds, Answered
  <2>5. Moves(r, "async", s, "answered", None)
    BY <1>1, <2>3, <2>4 DEF Place, Moves
  <2>6. OnePlace' /\ Numbered'
    BY <1>1, <2>1, <2>2, <2>5, Types, Kinds, Moved
  <2>7. Once' /\ Shape'
    BY <1>1 DEF IndInv, Once, Injective, Shape
  <2>8. async_requests' \in [Service -> SUBSET Request]
    BY <1>2, <2>1
  <2>9. TypeOK'
    BY <1>1, <2>4, <2>8 DEF IndInv, TypeOK
  <2> QED BY <2>4, <2>6, <2>7, <2>9
<1>3. CASE UNCHANGED <<async_requests, answers, inbox>>
  <2>1. Shape' /\ OnePlace' /\ Once' /\ Numbered' /\ OneAnswer'
    BY <1>1, <1>3, Unplaced
  <2>2. TypeOK'
    BY <1>1, <1>3 DEF IndInv, TypeOK
  <2> QED BY <2>1, <2>2
<1> QED BY <1>2, <1>3 DEF Cancel

\* A call numbers its request.
LEMMA CallPlace ==
  ASSUME IndInv, NEW t \in Thread, NEW noReturn \in BOOLEAN, Call(t, noReturn)
  PROVE  TypeOK' /\ Shape' /\ OnePlace' /\ Once' /\ Numbered' /\ OneAnswer'
<1> DEFINE c  == ClientOf[t]
           id == next_id[c] + 1
           r  == [src |-> c, id |-> id, NO_RETURN |-> noReturn]
           p  == IF service_pipe[c] = None \/ Closed(service_pipe[c]) THEN pipe_map ELSE service_pipe[c]
<1>0. /\ c \in Client /\ id \in Id /\ at[t] = "idle" /\ next_id \in [Client -> Nat]
      /\ r \in Request /\ r.src = c /\ r.id = id
      /\ p \in Service \cup {None} /\ id \in Nat /\ id > next_id[c]
  <2>1. c \in Client /\ MaxId \in Nat /\ Id = 1..MaxId
    BY ConstantsAssumption DEF Id
  <2>2. id \in Id /\ at[t] = "idle"
    BY DEF Call
  <2>3. next_id \in [Client -> Nat] /\ service_pipe \in [Client -> Service \cup {None}] /\ pipe_map \in Service \cup {None}
    BY DEF IndInv, TypeOK
  <2>4. r \in Request /\ r.src = c /\ r.id = id
    BY <2>1, <2>2 DEF Request
  <2>5. p \in Service \cup {None}
    BY <2>1, <2>3
  <2>6. id \in Nat /\ id > next_id[c]
    BY <2>1, <2>3
  <2> QED BY <2>1, <2>2, <2>3, <2>4, <2>5, <2>6
<1>1. /\ UNCHANGED <<serviceVars, ended, answers, called>>
      /\ calls' = [calls EXCEPT ![t] = @ - 1] /\ calls[t] > 0
      /\ service_pipe' = [service_pipe EXCEPT ![c] = p]
  BY DEF Call
<1>2. \/ UNCHANGED <<next_id, pending, at, request, target, inbox>>
      \/ /\ next_id' = [next_id EXCEPT ![c] = id]
         /\ pending' = pending \/ pending' = [pending EXCEPT ![c] = @ \cup {id}]
         /\ request' = [request EXCEPT ![t] = r] /\ target' = [target EXCEPT ![t] = p]
         /\ \/ (UNCHANGED inbox \/ inbox' = [inbox EXCEPT ![c] = Append(@, id)]) /\ UNCHANGED at
            \/ p # None /\ at' = [at EXCEPT ![t] = "send"] /\ UNCHANGED inbox
  <2>1. CASE p = None /\ c \notin Async
    BY <2>1 DEF Call
  <2>2. CASE ~ (p = None /\ c \notin Async)
    <3>1. /\ next_id' = [next_id EXCEPT ![c] = id]
          /\ pending' = pending \/ pending' = [pending EXCEPT ![c] = @ \cup {id}]
      BY <2>2 DEF Call
    <3>2. request' = [request EXCEPT ![t] = r] /\ target' = [target EXCEPT ![t] = p]
      BY <2>2 DEF Call
    <3>3. \/ (UNCHANGED inbox \/ inbox' = [inbox EXCEPT ![c] = Append(@, id)]) /\ UNCHANGED at
          \/ p # None /\ at' = [at EXCEPT ![t] = "send"] /\ UNCHANGED inbox
      BY <2>2 DEF Call, Fail
    <3> QED BY <3>1, <3>2, <3>3
  <2> QED BY <2>1, <2>2
<1> HIDE DEF r, id, p
<1>3. calls' \in [Thread -> Nat] /\ service_pipe' \in [Client -> Service \cup {None}]
  BY <1>0, <1>1, SMTT(60) DEF IndInv, TypeOK
<1>4. CASE UNCHANGED <<next_id, pending, at, request, target, inbox>>
  <2>1. Shape' /\ OnePlace' /\ Once' /\ Numbered' /\ OneAnswer'
    BY <1>1, <1>4, Unplaced DEF serviceVars
  <2>2. TypeOK'
    BY <1>1, <1>3, <1>4 DEF IndInv, TypeOK, serviceVars
  <2> QED BY <2>1, <2>2
<1>5. ASSUME next_id' = [next_id EXCEPT ![c] = id],
             pending' = pending \/ pending' = [pending EXCEPT ![c] = @ \cup {id}],
             request' = [request EXCEPT ![t] = r], target' = [target EXCEPT ![t] = p],
             \/ (UNCHANGED inbox \/ inbox' = [inbox EXCEPT ![c] = Append(@, id)]) /\ UNCHANGED at
             \/ p # None /\ at' = [at EXCEPT ![t] = "send"] /\ UNCHANGED inbox
      PROVE  TypeOK' /\ Shape' /\ OnePlace' /\ Once' /\ Numbered' /\ OneAnswer'
  <2>1. /\ request'[t] = r /\ \A x \in Thread : x # t => request'[x] = request[x] /\ target'[x] = target[x]
        /\ target'[t] = p
    BY <1>5 DEF IndInv, TypeOK
  <2>2. /\ \A x \in Thread : x # t => at'[x] = at[x]
        /\ at'[t] = "send" => p \in Service
        /\ at' \in [Thread -> {"idle", "send", "read"}]
    BY <1>0, <1>5 DEF IndInv, TypeOK
  <2>3. \A k \in Kind : \A x \in Owner : ~ Place(r, k, x)
    <3>1. \A k \in Kind : \A x \in Owner : Place(r, k, x) => r.id <= next_id[r.src]
      BY <1>0 DEF IndInv, Numbered
    <3> QED BY <1>0, <3>1
  <2>4. \A q \in Request : \A k \in Kind : \A x \in Owner :
          Place(q, k, x)' => Place(q, k, x) \/ (q = r /\ k = "send" /\ x = t)
    BY <1>1, <2>1, <2>2 DEF Place, serviceVars
  <2>5. OnePlace'
    BY <2>3, <2>4 DEF IndInv, OnePlace
  <2>6. \A q \in Request : q.src \in Client /\ q.id \in Nat
    BY ConstantsAssumption DEF Request, Id
  <2>7. \A d \in Client : next_id[d] \in Nat /\ next_id[d] <= next_id'[d] /\ next_id'[c] = id
    BY <1>0, <1>5
  <2>8. Numbered'
    <3> SUFFICES ASSUME NEW q \in Request, NEW k \in Kind, NEW x \in Owner, Place(q, k, x)'
                 PROVE  q.id <= next_id'[q.src]
      BY DEF Numbered
    <3>1. CASE Place(q, k, x)
      <4>1. q.id <= next_id[q.src]
        BY <3>1 DEF IndInv, Numbered
      <4>2. next_id' \in [Client -> Nat]
        BY <1>0, <1>5
      <4> QED BY <2>6, <2>7, <4>1, <4>2
    <3>2. CASE q = r
      BY <1>0, <2>7, <3>2
    <3> QED BY <2>4, <3>1, <3>2
  <2>9. Shape'
    BY <1>0, <2>1, <2>2 DEF IndInv, Shape
  <2>10. Once' /\ OneAnswer'
    BY <1>1 DEF IndInv, Once, Injective, OneAnswer, serviceVars
  <2>11. inbox' \in [Client -> Seq(Nat)]
    <3>1. inbox \in [Client -> Seq(Nat)]
      BY DEF IndInv, TypeOK
    <3>2. Append(inbox[c], id) \in Seq(Nat)
      BY <1>0, <3>1, Appended
    <3> QED BY <1>0, <1>5, <3>1, <3>2
  <2>12. pending' \in [Client -> SUBSET Nat]
    <3>1. pending \in [Client -> SUBSET Nat]
      BY DEF IndInv, TypeOK
    <3>2. CASE pending' = [pending EXCEPT ![c] = @ \cup {id}]
      <4>1. pending[c] \cup {id} \in SUBSET Nat
        BY <1>0, <3>1
      <4> QED BY <3>1, <3>2, <4>1
    <3> QED BY <1>5, <3>1, <3>2
  <2>13. /\ next_id' \in [Client -> Nat] /\ request' \in [Thread -> Request \cup {None}]
         /\ target' \in [Thread -> Service \cup {None}]
    BY <1>0, <1>5 DEF IndInv, TypeOK
  <2>14. TypeOK'
    BY <1>1, <1>3, <2>2, <2>11, <2>12, <2>13 DEF IndInv, TypeOK, serviceVars
  <2> QED BY <2>5, <2>8, <2>9, <2>10, <2>14
<1> QED BY <1>2, <1>4, <1>5

\* The pipe takes a request, or the call fails.
LEMMA SendPlace ==
  ASSUME IndInv, NEW t \in Thread, Send(t)
  PROVE  TypeOK' /\ Shape' /\ OnePlace' /\ Once' /\ Numbered' /\ OneAnswer'
<1> DEFINE c == ClientOf[t]
           s == target[t]
           r == request[t]
<1>0. c \in Client /\ s \in Service /\ r \in Request /\ at[t] = "send"
  BY ConstantsAssumption DEF Send, IndInv, Shape
<1>1. UNCHANGED <<pipe_map, state, vnx_request, async_requests, jobs, returning, leftover,
                  next_id, pending, ended, request, target, calls, answers, called>>
  BY DEF Send
<1>2. \E a \in {"idle", "read"} : at' = [at EXCEPT ![t] = a]
  BY DEF Send
<1>3. \/ UNCHANGED queue
      \/ queue' = [queue EXCEPT ![s] = Append(@, r)]
  BY DEF Send
<1>4. service_pipe' \in [Client -> Service \cup {None}]
  <2>1. UNCHANGED service_pipe \/ service_pipe' = [service_pipe EXCEPT ![c] = IF @ = s THEN None ELSE @]
    BY DEF Send
  <2>2. service_pipe \in [Client -> Service \cup {None}]
    BY DEF IndInv, TypeOK
  <2> QED BY <1>0, <2>1, <2>2
<1>5. inbox' \in [Client -> Seq(Nat)]
  <2>1. UNCHANGED inbox \/ inbox' = [inbox EXCEPT ![c] = Append(@, r.id)]
    BY DEF Send, Fail
  <2>2. inbox \in [Client -> Seq(Nat)] /\ r.id \in Nat
    BY <1>0, ConstantsAssumption, SMTT(60) DEF IndInv, TypeOK, Request, Id
  <2>3. Append(inbox[c], r.id) \in Seq(Nat)
    BY <1>0, <2>2, Appended
  <2> HIDE DEF c, r
  <2> QED BY <1>0, <2>1, <2>2, <2>3
<1> HIDE DEF c, s, r
<1>6. /\ at' \in [Thread -> {"idle", "send", "read"}] /\ at'[t] # "send"
      /\ \A x \in Thread : x # t => at'[x] = at[x]
  BY <1>2 DEF IndInv, TypeOK
<1>7. Shape' /\ OneAnswer'
  BY <1>1, <1>6 DEF IndInv, Shape, OneAnswer
<1>8. CASE UNCHANGED queue
  <2>1. \A x \in Thread : at'[x] = "send" => at[x] = "send"
    BY <1>6
  <2>2. OnePlace' /\ Once' /\ Numbered'
    BY <1>1, <1>8, <2>1, Unplaced
  <2>3. TypeOK'
    BY <1>1, <1>4, <1>5, <1>6, <1>8 DEF IndInv, TypeOK
  <2> QED BY <1>7, <2>2, <2>3
<1>9. CASE queue' = [queue EXCEPT ![s] = Append(@, r)]
  <2>1. queue \in [Service -> Seq(Request)] /\ queue[s] \in Seq(Request) /\ Injective(queue[s])
    BY <1>0, Types DEF IndInv, TypeOK
  <2>2. Place(r, "send", t)
    BY <1>0 DEF Place, r
  <2>3. \A i \in DOMAIN queue[s] : queue[s][i] # r
    <3>1. ~ Place(r, "queue", s)
      BY <1>0, <2>2, Types, Kinds DEF IndInv, OnePlace
    <3> QED BY <1>0, <3>1 DEF Place
  <2>4. /\ Append(queue[s], r) \in Seq(Request) /\ Injective(Append(queue[s], r))
        /\ \A i \in DOMAIN Append(queue[s], r) :
             Append(queue[s], r)[i] = r \/ \E j \in DOMAIN queue[s] : queue[s][j] = Append(queue[s], r)[i]
    BY <1>0, <2>1, <2>3, AddedOnce
  <2>5. queue'[s] = Append(queue[s], r) /\ \A x \in Service : x # s => queue'[x] = queue[x]
    BY <1>0, <1>9, <2>1
  <2>6. Moves(r, "send", t, "queue", s)
    <3> SUFFICES ASSUME NEW q \in Request, NEW k \in Kind, NEW x \in Owner, Place(q, k, x)'
                 PROVE  \/ Place(q, k, x) /\ ~ (q = r /\ k = "send" /\ x = t)
                        \/ q = r /\ k = "queue" /\ x = s
      BY DEF Moves
    <3>1. CASE k = "queue"
      <4>1. x \in Service /\ \E i \in DOMAIN queue'[x] : queue'[x][i] = q
        BY <3>1 DEF Place
      <4>2. CASE x = s
        <5>1. q = r \/ \E j \in DOMAIN queue[s] : queue[s][j] = q
          BY <2>4, <2>5, <4>1, <4>2
        <5> QED BY <3>1, <4>1, <4>2, <5>1 DEF Place
      <4>3. CASE x # s
        BY <2>5, <3>1, <4>1, <4>3 DEF Place
      <4> QED BY <4>2, <4>3
    <3>2. CASE k = "send"
      <4>1. x \in Thread /\ x # t /\ Place(q, k, x)
        BY <1>1, <1>6, <3>2 DEF Place
      <4> QED BY <4>1
    <3>3. CASE k \notin {"queue", "send"}
      BY <1>1, <3>3 DEF Place
    <3> QED BY <3>1, <3>2, <3>3
  <2>7. OnePlace' /\ Numbered'
    BY <1>0, <1>1, <2>2, <2>6, Types, Kinds, Moved
  <2>8. Once'
    BY <1>1, <2>4, <2>5 DEF IndInv, Once
  <2>9. queue' \in [Service -> Seq(Request)]
    BY <1>9, <2>1, <2>4
  <2>10. TypeOK'
    BY <1>1, <1>4, <1>5, <1>6, <2>9 DEF IndInv, TypeOK
  <2> QED BY <1>7, <2>7, <2>8, <2>10
<1> QED BY <1>3, <1>8, <1>9

-----------------------------------------------------------------------------
(* The callbacks. *)

\* A request is pending from its number to its callback.
LEMMA NextCalled == IndInv /\ [Next]_vars => Called'
<1> SUFFICES ASSUME IndInv, [Next]_vars PROVE Called'
  OBVIOUS
<1>1. /\ next_id \in [Client -> Nat] /\ pending \in [Client -> SUBSET Nat] /\ called \in [Client -> [Id -> Nat]]
      /\ MaxId \in Nat /\ Id = 1..MaxId /\ Async \subseteq Client /\ \A t \in Thread : ClientOf[t] \in Client
      /\ \A c \in Client : next_id[c] <= MaxId /\ pending[c] \subseteq 1..next_id[c]
      /\ \A c \in Async : \A id \in Id :
            called[c][id] = IF id \in pending[c] \/ id > next_id[c] THEN 0 ELSE 1
  BY ConstantsAssumption DEF IndInv, TypeOK, Called, Id
<1>2. CASE UNCHANGED <<next_id, pending, called>>
  BY <1>1, <1>2 DEF Called
<1>3. ASSUME NEW s \in Service, Start(s) \/ Exit(s) \/ ServiceStep(s) PROVE UNCHANGED <<next_id, pending, called>>
  BY <1>3 DEF Start, Exit, ServiceStep, Take, Reply, Defer, Close, Leftover, Cancel
<1>4. ASSUME WorkerStep PROVE UNCHANGED <<next_id, pending, called>>
  BY <1>4 DEF WorkerStep, AsyncSend, AsyncReturn
<1>5. ASSUME NEW t \in Thread, Send(t) \/ Read(t) \/ ModuleClose(t) PROVE UNCHANGED <<next_id, pending, called>>
  BY <1>5 DEF Send, Read, ModuleClose
<1>6. ASSUME NEW t \in Thread, Callback(t) PROVE Called'
  <2> DEFINE c  == ClientOf[t]
             id == Head(inbox[c])
  <2>1. UNCHANGED next_id
    BY <1>6 DEF Callback
  <2>2. CASE id \in pending[c]
    <3>1. pending' = [pending EXCEPT ![c] = @ \ {id}] /\ called' = [called EXCEPT ![c][id] = @ + 1]
      BY <1>6, <2>2 DEF Callback
    <3>2. c \in Client /\ id \in Id /\ id <= next_id[c] /\ id \in Nat
      BY <1>1, <2>2
    <3> HIDE DEF c, id
    <3>3. \A d \in Client : pending'[d] = IF d = c THEN pending[c] \ {id} ELSE pending[d]
      BY <1>1, <3>1
    <3>4. \A d \in Client : \A i \in Id : called'[d][i] = IF d = c /\ i = id THEN called[d][i] + 1 ELSE called[d][i]
      BY <1>1, <3>1, <3>2
    <3>5. \A d \in Client : next_id'[d] <= MaxId /\ pending'[d] \subseteq 1..next_id'[d]
      BY <1>1, <2>1, <3>3, ZenonT(60)
    <3>6. ASSUME NEW d \in Async, NEW i \in Id
          PROVE  called'[d][i] = IF i \in pending'[d] \/ i > next_id'[d] THEN 0 ELSE 1
      <4>1. d \in Client /\ called[d][i] = IF i \in pending[d] \/ i > next_id[d] THEN 0 ELSE 1
        BY <1>1
      <4>2. CASE d = c /\ i = id
        <5>1. called[d][i] = 0 /\ i \notin pending'[d] /\ ~ (i > next_id'[d])
          BY <1>1, <2>1, <2>2, <3>2, <3>3, <4>1, <4>2
        <5> QED BY <3>4, <4>1, <4>2, <5>1
      <4>3. CASE ~ (d = c /\ i = id)
        <5>1. i \in pending'[d] <=> i \in pending[d]
          BY <3>3, <4>1, <4>3
        <5>2. next_id'[d] = next_id[d] /\ called'[d][i] = called[d][i]
          BY <2>1, <3>4, <4>1, <4>3
        <5> QED BY <4>1, <5>1, <5>2
      <4> QED BY <4>2, <4>3
    <3> QED BY <3>5, <3>6 DEF Called
  <2>3. CASE id \notin pending[c]
    BY <1>2, <1>6, <2>1, <2>3 DEF Callback
  <2> QED BY <2>2, <2>3
<1>7. ASSUME NEW t \in Thread, Shutdown(t) PROVE Called'
  <2> DEFINE c == ClientOf[t]
  <2>1. /\ UNCHANGED next_id /\ c \in Client /\ pending' = [pending EXCEPT ![c] = {}]
        /\ called' = [called EXCEPT ![c] = [i \in DOMAIN @ |-> @[i] + (IF i \in pending[c] THEN 1 ELSE 0)]]
    BY <1>1, <1>7 DEF Shutdown
  <2> HIDE DEF c
  <2>2. \A d \in Client : pending'[d] = IF d = c THEN {} ELSE pending[d]
    BY <1>1, <2>1
  <2>3. \A d \in Client : \A i \in Id :
          called'[d][i] = IF d = c /\ i \in pending[c] THEN called[d][i] + 1 ELSE called[d][i]
    BY <1>1, <2>1
  <2> QED BY <1>1, <2>1, <2>2, <2>3, SMTT(60) DEF Called
<1>8. ASSUME NEW t \in Thread, NEW noReturn \in BOOLEAN, Call(t, noReturn) PROVE Called'
  <2> DEFINE c  == ClientOf[t]
             id == next_id[c] + 1
  <2>1. UNCHANGED called /\ c \in Client /\ id \in Id
    BY <1>1, <1>8 DEF Call
  <2>2. \/ UNCHANGED <<next_id, pending>>
        \/ /\ next_id' = [next_id EXCEPT ![c] = id]
           /\ pending' = IF c \in Async THEN [pending EXCEPT ![c] = @ \cup {id}] ELSE pending
    BY <1>8 DEF Call
  <2>3. CASE /\ next_id' = [next_id EXCEPT ![c] = id]
             /\ pending' = IF c \in Async THEN [pending EXCEPT ![c] = @ \cup {id}] ELSE pending
    <3>1. \A d \in Client : next_id'[d] = IF d = c THEN next_id[c] + 1 ELSE next_id[d]
      BY <1>1, <2>1, <2>3
    <3>2. \A d \in Client : pending'[d] = IF d = c /\ c \in Async THEN pending[c] \cup {next_id[c] + 1} ELSE pending[d]
      BY <1>1, <2>1, <2>3
    <3>3. next_id[c] + 1 \in 1..MaxId /\ next_id[c] \in Nat
      BY <1>1, <2>1
    <3> HIDE DEF c, id
    <3>4. ASSUME NEW d \in Client PROVE next_id'[d] <= MaxId /\ pending'[d] \subseteq 1..next_id'[d]
      <4>1. next_id[d] \in Nat /\ next_id[d] <= MaxId /\ pending[d] \subseteq 1..next_id[d]
        BY <1>1
      <4>2. CASE d = c
        <5>1. next_id'[d] = next_id[d] + 1 /\ next_id'[d] <= MaxId
          BY <1>1, <3>1, <3>3, <4>2
        <5>2. pending'[d] \subseteq pending[d] \cup {next_id[d] + 1}
          BY <3>2, <4>2
        <5> QED BY <4>1, <5>1, <5>2
      <4>3. CASE d # c
        BY <3>1, <3>2, <4>1, <4>3
      <4> QED BY <4>2, <4>3
    <3>5. \A d \in Async : \A i \in Id :
            called'[d][i] = IF i \in pending'[d] \/ i > next_id'[d] THEN 0 ELSE 1
      <4> SUFFICES ASSUME NEW d \in Async, NEW i \in Id
                   PROVE  called'[d][i] = IF i \in pending'[d] \/ i > next_id'[d] THEN 0 ELSE 1
        OBVIOUS
      <4>1. i \in Nat /\ next_id[d] \in Nat /\ d \in Client
        BY <1>1
      <4>2. (i \in pending'[d] \/ i > next_id'[d]) <=> (i \in pending[d] \/ i > next_id[d])
        <5>1. CASE d = c
          <6>1. pending'[d] = pending[d] \cup {next_id[d] + 1} /\ next_id'[d] = next_id[d] + 1
            BY <3>1, <3>2, <4>1, <5>1
          <6> QED BY <4>1, <6>1
        <5>2. CASE d # c
          BY <3>1, <3>2, <4>1, <5>2
        <5> QED BY <5>1, <5>2
      <4>3. called'[d][i] = IF i \in pending[d] \/ i > next_id[d] THEN 0 ELSE 1
        BY <1>1, <2>1
      <4> QED BY <4>2, <4>3
    <3> QED BY <3>4, <3>5 DEF Called
  <2> QED BY <1>2, <2>1, <2>2, <2>3
<1>9. CASE UNCHANGED vars
  BY <1>2, <1>9 DEF vars
<1> QED BY <1>2, <1>3, <1>4, <1>5, <1>6, <1>7, <1>8, <1>9 DEF Next, CallStep

-----------------------------------------------------------------------------
(* Theorems. *)

\* Initially no request is anywhere.
LEMMA InitInv == Init => IndInv
<1> SUFFICES ASSUME Init PROVE IndInv
  OBVIOUS
<1>1. TypeOK
  <2>1. \A c \in Client : [i \in Id |-> 0] \in [Id -> Nat]
    OBVIOUS
  <2>2. MaxCalls \in [Thread -> Nat]
    BY ConstantsAssumption
  <2>3. /\ queue \in [Service -> Seq(Request)] /\ leftover \in [Service -> Seq(Request)] /\ inbox \in [Client -> Seq(Nat)]
        /\ called \in [Client -> [Id -> Nat]]
    BY <2>1 DEF Init
  <2>4. /\ vnx_request \in [Service -> Request \cup {None}] /\ async_requests \in [Service -> SUBSET Request]
        /\ jobs \in [Service -> SUBSET Request] /\ returning \subseteq Request
    BY DEF Init
  <2>5. /\ pipe_map \in Service \cup {None} /\ state \in [Service -> {"new", "run", "exit", "close", "cancel", "gone"}]
        /\ service_pipe \in [Client -> Service \cup {None}] /\ next_id \in [Client -> Nat]
        /\ pending \in [Client -> SUBSET Nat] /\ ended \in [Client -> {"no", "closed", "yes"}]
    BY DEF Init
  <2>6. /\ at \in [Thread -> {"idle", "send", "read"}] /\ request \in [Thread -> Request \cup {None}]
        /\ target \in [Thread -> Service \cup {None}] /\ calls \in [Thread -> Nat] /\ answers \in [Request -> Nat]
    BY <2>2 DEF Init
  <2> QED BY <2>3, <2>4, <2>5, <2>6 DEF TypeOK
<1>2. \A r \in Request : \A k \in Kind : \A x \in Owner : ~ Place(r, k, x)
  <2>1. DOMAIN <<>> = {}
    OBVIOUS
  <2>2. \A s \in Service : queue[s] = <<>> /\ leftover[s] = <<>> /\ async_requests[s] = {}
    BY DEF Init
  <2>3. \A t \in Thread : at[t] = "idle"
    BY DEF Init
  <2>4. returning = {} /\ \A r \in Request : answers[r] = 0
    BY DEF Init
  <2> QED BY <2>1, <2>2, <2>3, <2>4 DEF Place
<1>3. OnePlace /\ Numbered
  BY <1>2 DEF OnePlace, Numbered
<1>4. Shape /\ Once /\ OneAnswer
  <2>1. \A s \in Service : queue[s] = <<>> /\ leftover[s] = <<>>
    BY DEF Init
  <2>2. \A t \in Thread : at[t] = "idle"
    BY DEF Init
  <2>3. \A r \in Request : answers[r] <= 1
    BY DEF Init
  <2> QED BY <2>1, <2>2, <2>3 DEF Shape, Once, Injective, OneAnswer
<1>5. Called
  <2>1. \A c \in Client : next_id[c] = 0 /\ pending[c] = {}
    BY DEF Init
  <2>2. \A c \in Client : \A id \in Id : called[c][id] = 0
    BY DEF Init
  <2>3. MaxId \in Nat /\ Id = 1..MaxId /\ Async \subseteq Client
    BY ConstantsAssumption DEF Id
  <2> QED BY <2>1, <2>2, <2>3 DEF Called
<1> QED BY <1>1, <1>3, <1>4, <1>5 DEF IndInv

\* Every step keeps the invariant.
LEMMA NextInv == IndInv /\ [Next]_vars => IndInv'
<1> SUFFICES ASSUME IndInv, [Next]_vars
             PROVE  TypeOK' /\ Shape' /\ OnePlace' /\ Once' /\ Numbered' /\ OneAnswer'
  BY NextCalled DEF IndInv
<1>1. ASSUME NEW s \in Service, Start(s) \/ Exit(s) \/ ServiceStep(s)
      PROVE  TypeOK' /\ Shape' /\ OnePlace' /\ Once' /\ Numbered' /\ OneAnswer'
  BY <1>1, ServiceQuiet, TakePlace, ReplyPlace, ClosePlace, LeftoverPlace, CancelPlace DEF ServiceStep
<1>2. ASSUME WorkerStep
      PROVE  TypeOK' /\ Shape' /\ OnePlace' /\ Once' /\ Numbered' /\ OneAnswer'
  BY <1>2, ReturnPlace DEF WorkerStep
<1>3. ASSUME NEW t \in Thread, CallStep(t) \/ ModuleClose(t)
      PROVE  TypeOK' /\ Shape' /\ OnePlace' /\ Once' /\ Numbered' /\ OneAnswer'
  BY <1>3, ClientQuiet, SendPlace DEF CallStep
<1>4. ASSUME NEW t \in Thread, NEW noReturn \in BOOLEAN, Call(t, noReturn)
      PROVE  TypeOK' /\ Shape' /\ OnePlace' /\ Once' /\ Numbered' /\ OneAnswer'
  BY <1>4, CallPlace
<1>5. CASE UNCHANGED vars
  <2>1. UNCHANGED <<pipe_map, state, queue, vnx_request, async_requests, jobs, returning, leftover, service_pipe,
                    next_id, inbox, pending, ended, at, request, target, calls, answers, called>>
    BY <1>5 DEF vars, serviceVars, callVars
  <2>2. Shape' /\ OnePlace' /\ Once' /\ Numbered' /\ OneAnswer'
    BY <2>1, Unplaced
  <2>3. TypeOK'
    BY <2>1 DEF IndInv, TypeOK
  <2> QED BY <2>2, <2>3
<1> QED BY <1>1, <1>2, <1>3, <1>4, <1>5 DEF Next

\* The inductive invariant, with the types of the state.
THEOREM Invariance == Spec => []IndInv
BY InitInv, NextInv, PTL DEF Spec

\* A request is answered at most once, whoever tries: the service when the
\* method returns, vnx_async_return() of any thread, close() for what is left in
\* the pipe and vnx_cleanup() for what was promised (ModuleBase, Pipe).
THEOREM AnsweredOnce == Spec => []OneAnswer
<1>1. IndInv => OneAnswer
  BY DEF IndInv
<1> QED BY <1>1, Invariance, PTL

\* The callback of an asynchronous call runs once: for the answer, for an error,
\* or when the module ends (AsyncClient: vnx_callback, vnx_shutdown).
THEOREM CallbackOnce == Spec => []CalledOnce
<1>1. IndInv => CalledOnce
  <2> SUFFICES ASSUME IndInv, NEW c \in Async, NEW id \in 1..next_id[c]
               PROVE  called[c][id] = IF id \in pending[c] THEN 0 ELSE 1
    BY DEF CalledOnce
  <2>1. c \in Client /\ MaxId \in Nat /\ Id = 1..MaxId
    BY ConstantsAssumption DEF Id
  <2>2. next_id[c] \in Nat /\ next_id[c] <= MaxId
    BY <2>1 DEF IndInv, TypeOK, Called
  <2>3. id \in Id /\ ~ (id > next_id[c])
    BY <2>1, <2>2
  <2> QED BY <2>3 DEF IndInv, Called
<1> QED BY <1>1, Invariance, PTL

-----------------------------------------------------------------------------
(* Who waits has an answer coming. *)

\* A return that is sent to a client that has not ended arrives, and no other
\* is lost.
LEMMA Arrives ==
  ASSUME TypeOK, NEW c \in Client, NEW i \in Nat, inbox' = [inbox EXCEPT ![c] = Append(@, i)]
  PROVE  /\ Received(c, i)'
         /\ \A d \in Client : \A k : Received(d, k) => Received(d, k)'
<1>1. inbox \in [Client -> Seq(Nat)] /\ inbox[c] \in Seq(Nat)
  BY DEF TypeOK
<1>2. inbox'[c] = Append(inbox[c], i) /\ \A d \in Client : d # c => inbox'[d] = inbox[d]
  BY <1>1
<1>3. /\ \A k \in DOMAIN inbox[c] : k \in DOMAIN inbox'[c] /\ inbox'[c][k] = inbox[c][k]
      /\ Len(inbox[c]) + 1 \in DOMAIN inbox'[c] /\ inbox'[c][Len(inbox[c]) + 1] = i
  BY <1>1, <1>2, Appended
<1>4. Received(c, i)'
  BY <1>3 DEF Received
<1>5. ASSUME NEW d \in Client, NEW k, Received(d, k) PROVE Received(d, k)'
  BY <1>2, <1>3, <1>5 DEF Received
<1> QED BY <1>4, <1>5

\* An answer arrives.
LEMMA AnswerArrives ==
  ASSUME TypeOK, NEW q \in Request, Answer(q)
  PROVE  /\ ended[q.src] = "no" => Received(q.src, q.id)'
         /\ \A d \in Client : \A k : Received(d, k) => Received(d, k)'
<1>1. q.src \in Client /\ q.id \in Nat
  BY ConstantsAssumption DEF Request, Id
<1>2. CASE ended[q.src] = "no"
  BY <1>1, <1>2, Arrives DEF Answer
<1>3. CASE ended[q.src] # "no"
  BY <1>3 DEF Answer, Received
<1> QED BY <1>2, <1>3

\* So does an error, to an AsyncClient.
LEMMA FailArrives ==
  ASSUME TypeOK, NEW c \in Client, NEW i \in Nat, Fail(c, i)
  PROVE  /\ c \in Async => Received(c, i)'
         /\ \A d \in Client : \A k : Received(d, k) => Received(d, k)'
<1>1. CASE c \in Async
  BY <1>1, Arrives DEF Fail
<1>2. CASE c \notin Async
  BY <1>2 DEF Fail, Received
<1> QED BY <1>1, <1>2

\* What is left of a sequence without its first element.
LEMMA StillThere ==
  ASSUME NEW S, NEW q \in Seq(S), q # <<>>
  PROVE  \A i \in DOMAIN q : q[i] = Head(q) \/ \E j \in DOMAIN Tail(q) : Tail(q)[j] = q[i]
BY Left, ZenonT(60)

\* Request r is still held, or its answer came.
Coming(r) == Held(r) \/ Received(r.src, r.id)

\* The service keeps a request until it answers it.
LEMMA ServiceComing ==
  ASSUME IndInv, Waiting, NEW r \in Request, ~ r.NO_RETURN, ended[r.src] = "no", Coming(r),
         (\E s \in Service : Start(s) \/ Exit(s) \/ ServiceStep(s)) \/ WorkerStep
  PROVE  Coming(r)'
<1>0. TypeOK /\ r.src \in Client
  BY DEF IndInv, Request
<1>1. ASSUME NEW s \in Service, Start(s) \/ Exit(s) \/ Defer(s) PROVE Coming(r)'
  BY <1>1 DEF Start, Exit, Defer, Coming, Held, Received
<1>2. ASSUME NEW s \in Service, Take(s) PROVE Coming(r)'
  <2>1. /\ queue[s] \in Seq(Request) /\ queue[s] # <<>>
        /\ queue'[s] = Tail(queue[s]) /\ \A x \in Service : x # s => queue'[x] = queue[x]
        /\ Head(queue[s]) \in async_requests'[s]
        /\ \A x \in Service : async_requests[x] \subseteq async_requests'[x]
        /\ UNCHANGED <<leftover, returning, inbox>>
    BY <1>0, <1>2 DEF Take, TypeOK
  <2>2. ASSUME NEW x \in Service, NEW i \in DOMAIN queue[x], queue[x][i] = r
        PROVE  (\E y \in Service : r \in async_requests'[y]) \/ \E k \in DOMAIN queue'[x] : queue'[x][k] = r
    <3>1. CASE x = s
      <4>1. r = Head(queue[s]) \/ \E k \in DOMAIN Tail(queue[s]) : Tail(queue[s])[k] = r
        BY <2>1, <2>2, <3>1, StillThere
      <4> QED BY <2>1, <3>1, <4>1
    <3>2. CASE x # s
      BY <2>1, <2>2, <3>2
    <3> QED BY <3>1, <3>2
  <2> QED BY <2>1, <2>2 DEF Coming, Held, Received
<1>3. ASSUME NEW s \in Service, Reply(s) PROVE Coming(r)'
  <2> DEFINE q == vnx_request[s]
  <2>1. /\ q \in async_requests[s] /\ async_requests \in [Service -> SUBSET Request]
        /\ async_requests' = [async_requests EXCEPT ![s] = @ \ {q}]
        /\ UNCHANGED <<queue, leftover, returning>>
        /\ ~ q.NO_RETURN => Answer(q)
        /\ Answer(q) \/ UNCHANGED inbox
    BY <1>0, <1>3 DEF Reply, TypeOK
  <2> HIDE DEF q
  <2>2. /\ \A x \in Service : async_requests[x] \subseteq async_requests'[x] \cup {q}
        /\ q \in Request
    BY <2>1
  <2>3. CASE r = q
    BY <1>0, <2>1, <2>2, <2>3, AnswerArrives DEF Coming
  <2>4. CASE r # q
    <3>1. Received(r.src, r.id) => Received(r.src, r.id)'
      BY <1>0, <2>1, <2>2, AnswerArrives, SMTT(60) DEF Received
    <3> QED BY <2>1, <2>2, <2>4, <3>1 DEF Coming, Held
  <2> QED BY <2>3, <2>4
<1>4. ASSUME NEW s \in Service, Close(s) PROVE Coming(r)'
  <2>1. /\ leftover[s] = <<>> /\ leftover'[s] = queue[s]
        /\ \A x \in Service : x # s => leftover'[x] = leftover[x] /\ queue'[x] = queue[x]
        /\ UNCHANGED <<async_requests, returning, inbox>>
    BY <1>0, <1>4 DEF Close, TypeOK, Waiting
  <2> QED BY <2>1 DEF Coming, Held, Received
<1>5. ASSUME NEW s \in Service, Leftover(s) PROVE Coming(r)'
  <2>1. UNCHANGED <<queue, async_requests, returning>> /\ leftover[s] \in Seq(Request)
    BY <1>0, <1>5 DEF Leftover, TypeOK
  <2>2. CASE leftover[s] = <<>>
    BY <1>5, <2>1, <2>2 DEF Leftover, Coming, Held, Received
  <2>3. CASE leftover[s] # <<>>
    <3>1. Head(leftover[s]) \in Request /\ Answer(Head(leftover[s]))
      BY <1>5, <2>1, <2>3, Left DEF Leftover
    <3>2. leftover'[s] = Tail(leftover[s]) /\ \A x \in Service : x # s => leftover'[x] = leftover[x]
      BY <1>0, <1>5, <2>3 DEF Leftover, TypeOK
    <3>3. CASE r = Head(leftover[s])
      BY <1>0, <3>1, <3>3, AnswerArrives DEF Coming
    <3>4. CASE r # Head(leftover[s])
      <4>1. Received(r.src, r.id) => Received(r.src, r.id)'
        BY <1>0, <3>1, AnswerArrives
      <4>2. ASSUME NEW x \in Service, NEW i \in DOMAIN leftover[x], leftover[x][i] = r
            PROVE  \E k \in DOMAIN leftover'[x] : leftover'[x][k] = r
        <5>1. CASE x = s
          <6>1. \E k \in DOMAIN Tail(leftover[s]) : Tail(leftover[s])[k] = r
            BY <2>1, <2>3, <3>4, <4>2, <5>1, StillThere
          <6> QED BY <3>2, <5>1, <6>1
        <5>2. CASE x # s
          BY <3>2, <4>2, <5>2
        <5> QED BY <5>1, <5>2
      <4> QED BY <2>1, <4>1, <4>2 DEF Coming, Held
    <3> QED BY <3>3, <3>4
  <2> QED BY <2>2, <2>3
<1>6. ASSUME NEW s \in Service, Cancel(s) PROVE Coming(r)'
  <2>1. UNCHANGED <<queue, leftover, returning>> /\ async_requests \in [Service -> SUBSET Request]
    BY <1>0, <1>6 DEF Cancel, TypeOK
  <2>2. CASE UNCHANGED <<async_requests, inbox>>
    BY <2>1, <2>2 DEF Coming, Held, Received
  <2>3. ASSUME NEW q \in async_requests[s], Answer(q), async_requests' = [async_requests EXCEPT ![s] = @ \ {q}]
        PROVE  Coming(r)'
    <3>1. q \in Request /\ \A x \in Service : async_requests[x] \subseteq async_requests'[x] \cup {q}
      BY <2>1, <2>3
    <3>2. CASE r = q
      BY <1>0, <2>3, <3>1, <3>2, AnswerArrives DEF Coming
    <3>3. CASE r # q
      <4>1. Received(r.src, r.id) => Received(r.src, r.id)'
        BY <1>0, <2>3, <3>1, AnswerArrives
      <4> QED BY <2>1, <3>1, <3>3, <4>1 DEF Coming, Held
    <3> QED BY <3>2, <3>3
  <2> QED BY <1>6, <2>2, <2>3 DEF Cancel
<1>7. ASSUME NEW q \in Request, NEW s \in Service, AsyncReturn(s, q) PROVE Coming(r)'
  <2>1. /\ \A x \in Service : x # s => async_requests'[x] = async_requests[x]
        /\ async_requests'[s] = async_requests[s] \ {q}
        /\ returning \subseteq returning' /\ (q \in async_requests[s] => q \in returning')
        /\ UNCHANGED <<queue, leftover, inbox>>
    BY <1>0, <1>7 DEF AsyncReturn, TypeOK
  <2> QED BY <2>1 DEF Coming, Held, Received
<1>8. ASSUME NEW q \in Request, AsyncSend(q) PROVE Coming(r)'
  <2>1. Answer(q) /\ returning' = returning \ {q} /\ UNCHANGED <<queue, leftover, async_requests>>
    BY <1>8 DEF AsyncSend
  <2>2. CASE r = q
    BY <1>0, <2>1, <2>2, AnswerArrives DEF Coming
  <2>3. CASE r # q
    <3>1. Received(r.src, r.id) => Received(r.src, r.id)'
      BY <1>0, <2>1, AnswerArrives
    <3> QED BY <2>1, <2>3, <3>1 DEF Coming, Held
  <2> QED BY <2>2, <2>3
<1> QED BY <1>1, <1>2, <1>3, <1>4, <1>5, <1>6, <1>7, <1>8 DEF ServiceStep, WorkerStep

\* The request of a number that is pending.
LEMMA PendingRequest ==
  ASSUME IndInv, NEW c \in Client, NEW i \in pending[c]
  PROVE  i \in Nat /\ [src |-> c, id |-> i, NO_RETURN |-> FALSE] \in Request
<1>1. i \in 1..next_id[c] /\ next_id[c] \in Nat /\ next_id[c] <= MaxId /\ MaxId \in Nat
  BY ConstantsAssumption DEF IndInv, Called, TypeOK
<1>2. i \in Nat /\ i \in Id
  BY <1>1 DEF Id
<1> QED BY <1>2 DEF Request

\* What a thread waits for, in these terms.
LEMMA WaitsFor ==
  ASSUME IndInv, Waiting
  PROVE  AnswerComing <=> \A t \in Thread :
           /\ at[t] = "read" => Coming(request[t])
           /\ ended[ClientOf[t]] = "no" => \A i \in pending[ClientOf[t]] :
                \/ at[t] = "send" /\ request[t].id = i
                \/ Coming([src |-> ClientOf[t], id |-> i, NO_RETURN |-> FALSE])
BY DEF AnswerComing, Coming, Waiting

\* And after a step.
LEMMA WaitsForNext ==
  ASSUME Waiting'
  PROVE  AnswerComing' <=> \A u \in Thread :
           /\ at'[u] = "read" => Coming(request[u])'
           /\ ended'[ClientOf[u]] = "no" => \A i \in pending'[ClientOf[u]] :
                \/ at'[u] = "send" /\ request'[u].id = i
                \/ Coming([src |-> ClientOf[u], id |-> i, NO_RETURN |-> FALSE])'
BY DEF AnswerComing, Coming, Waiting

\* The clients keep what they wait for.
LEMMA CallComing ==
  ASSUME IndInv, Waiting, OneThreadEach, AnswerComing, Waiting',
         NEW t \in Thread,
         CallStep(t) \/ ModuleClose(t) \/ \E noReturn \in BOOLEAN : Call(t, noReturn),
         IndInv'
  PROVE  AnswerComing'
<1> DEFINE c == ClientOf[t]
<1>0. TypeOK /\ c \in Client
  BY ConstantsAssumption DEF IndInv
<1>1. \A r \in Request : Held(r) => Held(r)'
  <2>1. UNCHANGED <<leftover, async_requests, returning>>
    BY ZenonT(60) DEF CallStep, ModuleClose, Call, Send, Read, Callback, Shutdown, serviceVars
  <2>2. \/ UNCHANGED queue
        \/ \E s \in Service : request[t] \in Request /\ queue' = [queue EXCEPT ![s] = Append(@, request[t])]
    <3>1. CASE Send(t)
      BY <3>1 DEF Send, IndInv, Shape
    <3>2. CASE ~ Send(t)
      BY <3>2, ZenonT(60) DEF CallStep, ModuleClose, Call, Read, Callback, Shutdown, serviceVars
    <3> QED BY <3>1, <3>2
  <2>3. ASSUME NEW s \in Service, NEW i \in DOMAIN queue[s]
        PROVE  i \in DOMAIN queue'[s] /\ queue'[s][i] = queue[s][i]
    <3>1. queue[s] \in Seq(Request) /\ queue \in [Service -> Seq(Request)]
      BY <1>0 DEF TypeOK
    <3>2. UNCHANGED queue \/ queue'[s] = queue[s] \/ (request[t] \in Request /\ queue'[s] = Append(queue[s], request[t]))
      BY <2>2, <3>1
    <3> QED BY <3>1, <3>2, Appended
  <2> QED BY <2>1, <2>3, SMTT(60) DEF Held
<1>2. \A u \in Thread : u # t =>
        /\ at'[u] = at[u] /\ request'[u] = request[u] /\ ClientOf[u] # c /\ ClientOf[u] \in Client
        /\ \A d \in Client : d # c =>
             ended'[d] = ended[d] /\ pending'[d] = pending[d] /\ inbox'[d] = inbox[d]
  <2>1. \A u \in Thread : u # t => ClientOf[u] # c /\ ClientOf[u] \in Client
    BY ConstantsAssumption, SMTT(60) DEF OneThreadEach
  <2> DEFINE OthersSame ==
        /\ \A u \in Thread : u # t => at'[u] = at[u] /\ request'[u] = request[u]
        /\ \A d \in Client : d # c => ended'[d] = ended[d] /\ pending'[d] = pending[d]
        /\ \A d \in Client : d # c => inbox'[d] = inbox[d]
  <2>2. ASSUME Send(t) PROVE OthersSame
    <3>1. \A d \in Client : d # c => inbox'[d] = inbox[d]
      BY <1>0, <2>2 DEF Send, TypeOK, Fail
    <3>2. UNCHANGED <<request, ended, pending>> /\ \A u \in Thread : u # t => at'[u] = at[u]
      BY <1>0, <2>2 DEF Send, TypeOK
    <3> QED BY <3>1, <3>2
  <2>3. ASSUME NEW noReturn \in BOOLEAN, Call(t, noReturn) PROVE OthersSame
    <3>1. \A d \in Client : d # c => inbox'[d] = inbox[d]
      BY <1>0, <2>3, SMTT(60) DEF Call, TypeOK, Fail
    <3>2. \A d \in Client : d # c => ended'[d] = ended[d] /\ pending'[d] = pending[d]
      BY <1>0, <2>3, SMTT(60) DEF Call, TypeOK
    <3>3. \A u \in Thread : u # t => at'[u] = at[u] /\ request'[u] = request[u]
      BY <1>0, <2>3 DEF Call, TypeOK
    <3> QED BY <3>1, <3>2, <3>3
  <2>4. ASSUME Read(t) PROVE OthersSame
    BY <1>0, <2>4 DEF Read, TypeOK
  <2>5. ASSUME Callback(t) PROVE OthersSame
    BY <1>0, <2>5 DEF Callback, callVars, TypeOK
  <2>6. ASSUME ModuleClose(t) PROVE OthersSame
    BY <1>0, <2>6 DEF ModuleClose, callVars, TypeOK
  <2>7. ASSUME Shutdown(t) PROVE OthersSame
    BY <1>0, <2>7 DEF Shutdown, callVars, TypeOK
  <2>8. OthersSame
    BY <2>2, <2>3, <2>4, <2>5, <2>6, <2>7 DEF CallStep
  <2> QED BY <2>1, <2>8
<1>3. ASSUME NEW u \in Thread, u # t
      PROVE  /\ at'[u] = "read" => Coming(request[u])'
             /\ ended'[ClientOf[u]] = "no" => \A i \in pending'[ClientOf[u]] :
                  \/ at'[u] = "send" /\ request'[u].id = i
                  \/ Coming([src |-> ClientOf[u], id |-> i, NO_RETURN |-> FALSE])'
  <2> DEFINE d == ClientOf[u]
  <2>1. /\ d \in Client /\ d # c /\ at'[u] = at[u] /\ request'[u] = request[u]
        /\ ended'[d] = ended[d] /\ pending'[d] = pending[d] /\ inbox'[d] = inbox[d]
    BY <1>2, <1>3
  <2>2. \A r \in Request : r.src = d /\ Coming(r) => Coming(r)'
    BY <1>1, <2>1 DEF Coming, Received
  <2>3. at[u] = "read" => request[u] \in Request /\ request[u].src = d /\ Coming(request[u])
    BY WaitsFor DEF Waiting
  <2>4. at'[u] = "read" => Coming(request[u])'
    BY <2>1, <2>2, <2>3 DEF Coming
  <2>5. ASSUME ended'[d] = "no", NEW i \in pending'[d]
        PROVE  \/ at'[u] = "send" /\ request'[u].id = i
               \/ Coming([src |-> d, id |-> i, NO_RETURN |-> FALSE])'
    <3>1. \/ at[u] = "send" /\ request[u].id = i
          \/ Coming([src |-> d, id |-> i, NO_RETURN |-> FALSE])
      BY <2>1, <2>5, WaitsFor
    <3>2. [src |-> d, id |-> i, NO_RETURN |-> FALSE] \in Request
      BY <2>1, <2>5, PendingRequest
    <3> QED BY <2>1, <2>2, <3>1, <3>2
  <2> QED BY <2>4, <2>5
<1>4. ASSUME at'[t] = "read" PROVE Coming(request[t])'
  <2>1. request'[t] = request[t] \/ \E noReturn \in BOOLEAN : Call(t, noReturn)
    BY DEF CallStep, ModuleClose, Send, Read, Callback, Shutdown, callVars
  <2>2. ~ \E noReturn \in BOOLEAN : Call(t, noReturn)
    BY <1>0, <1>4 DEF Call, TypeOK
  <2>3. ~ Callback(t) /\ ~ ModuleClose(t)
    BY <1>4 DEF Callback, ModuleClose, callVars
  <2>4. CASE Send(t)
    <3>1. /\ at[t] = "send" /\ request[t] \in Request /\ target[t] \in Service
          /\ queue' = [queue EXCEPT ![target[t]] = Append(@, request[t])]
      BY <1>0, <1>4, <2>4, SMTT(60) DEF Send, IndInv, Shape, TypeOK
    <3>2. queue[target[t]] \in Seq(Request) /\ queue'[target[t]] = Append(queue[target[t]], request[t])
      BY <1>0, <3>1 DEF TypeOK
    <3>3. \E i \in DOMAIN queue'[target[t]] : queue'[target[t]][i] = request[t]
      BY <3>1, <3>2, Appended
    <3>4. request'[t] = request[t]
      BY <2>4 DEF Send
    <3> QED BY <3>1, <3>3, <3>4 DEF Coming, Held
  <2>5. CASE Read(t)
    <3>1. /\ at[t] = "read" /\ inbox[c] \in Seq(Nat) /\ inbox[c] # <<>> /\ inbox'[c] = Tail(inbox[c])
          /\ Head(inbox[c]) # request[t].id /\ request'[t] = request[t]
      BY <1>0, <1>4, <2>5 DEF Read, TypeOK
    <3>2. request[t] \in Request /\ request[t].src = c /\ Coming(request[t])
      BY <3>1, WaitsFor DEF Waiting
    <3>3. CASE Held(request[t])
      BY <1>1, <3>1, <3>2, <3>3 DEF Coming
    <3>4. CASE Received(c, request[t].id)
      <4>1. \E i \in DOMAIN Tail(inbox[c]) : Tail(inbox[c])[i] = request[t].id
        BY <3>1, <3>4, StillThere, SMTT(60) DEF Received
      <4> QED BY <3>1, <3>2, <4>1 DEF Coming, Received
    <3> QED BY <3>2, <3>3, <3>4 DEF Coming
  <2>6. CASE Shutdown(t)
    <3>1. at[t] = "read" /\ ended[c] = "closed"
      BY <1>4, <2>6 DEF Shutdown, callVars
    <3> QED BY <1>0, <3>1 DEF Waiting
  <2> QED BY <2>2, <2>3, <2>4, <2>5, <2>6 DEF CallStep
<1>5. ASSUME ended'[c] = "no", NEW i \in pending'[c]
      PROVE  \/ at'[t] = "send" /\ request'[t].id = i
             \/ Coming([src |-> c, id |-> i, NO_RETURN |-> FALSE])'
  <2>1. c \in Async
    BY <1>0, <1>5 DEF Waiting
  <2>2. PICK r \in Request : r = [src |-> c, id |-> i, NO_RETURN |-> FALSE] /\ i \in Nat
    <3>1. i \in 1..next_id'[c] /\ next_id'[c] \in Nat /\ next_id'[c] <= MaxId /\ MaxId \in Nat
      BY <1>0, <1>5, ConstantsAssumption DEF IndInv, Called, TypeOK
    <3>2. i \in Nat /\ i \in Id
      BY <3>1 DEF Id
    <3>3. [src |-> c, id |-> i, NO_RETURN |-> FALSE] \in Request
      BY <1>0, <3>2, SMTT(60) DEF Request
    <3> QED BY <3>2, <3>3
  <2>3. ended[c] = "no"
    BY <1>0, <1>5 DEF CallStep, ModuleClose, Call, Send, Read, Callback, Shutdown, TypeOK
  <2>4. i \in pending[c] => (at[t] = "send" /\ request[t].id = i) \/ Coming(r)
    BY <2>2, <2>3, WaitsFor
  <2>5. Held(r) => Coming(r)'
    BY <1>1, <2>2 DEF Coming
  <2>6. CASE Send(t)
    <3>1. /\ at[t] = "send" /\ request[t] \in Request /\ request[t].src = c /\ ~ request[t].NO_RETURN
          /\ target[t] \in Service /\ pending' = pending /\ request' = request
      BY <2>1, <2>6 DEF Send, IndInv, Shape, Waiting
    <3>2. CASE Fail(c, request[t].id)
      <4>1. PICK k \in Nat : k = request[t].id
        BY <3>1, ConstantsAssumption DEF Request, Id
      <4>2. Received(c, k)' /\ (Received(c, i) => Received(c, i)')
        BY <1>0, <2>1, <2>2, <3>2, <4>1, FailArrives
      <4> QED BY <1>5, <2>2, <2>4, <2>5, <3>1, <4>1, <4>2 DEF Coming
    <3>3. CASE ~ Fail(c, request[t].id)
      <4>1. UNCHANGED inbox /\ queue' = [queue EXCEPT ![target[t]] = Append(@, request[t])]
        BY <2>6, <3>3 DEF Send
      <4>2. queue[target[t]] \in Seq(Request) /\ queue'[target[t]] = Append(queue[target[t]], request[t])
        BY <1>0, <3>1, <4>1 DEF TypeOK
      <4>3. request[t] = r => Held(r)'
        <5>1. \E k \in DOMAIN queue'[target[t]] : queue'[target[t]][k] = request[t]
          BY <3>1, <4>2, Appended
        <5> QED BY <3>1, <5>1 DEF Held
      <4>4. request[t].id = i => request[t] = r
        BY <2>2, <3>1 DEF Request
      <4>5. Received(c, i) => Received(c, i)'
        BY <4>1 DEF Received
      <4> QED BY <1>5, <2>2, <2>4, <2>5, <3>1, <4>3, <4>4, <4>5 DEF Coming
    <3> QED BY <3>2, <3>3
  <2>7. ~ Read(t)
    <3>1. at[t] # "read"
      BY <2>1 DEF Waiting
    <3> QED BY <3>1 DEF Read
  <2>8. CASE Callback(t)
    <3>1. /\ at[t] = "idle" /\ inbox[c] \in Seq(Nat) /\ inbox[c] # <<>> /\ inbox'[c] = Tail(inbox[c])
      BY <1>0, <2>8 DEF Callback, TypeOK
    <3>2. i \in pending[c] /\ i # Head(inbox[c])
      <4>1. pending \in [Client -> SUBSET Nat]
        BY <1>0 DEF TypeOK
      <4>2. CASE Head(inbox[c]) \in pending[c]
        BY <1>0, <1>5, <2>8, <4>1, <4>2 DEF Callback
      <4>3. CASE Head(inbox[c]) \notin pending[c]
        BY <1>5, <2>8, <4>3 DEF Callback
      <4> QED BY <4>2, <4>3
    <3>3. ASSUME Received(c, i) PROVE Received(c, i)'
      <4>1. PICK k \in DOMAIN inbox[c] : inbox[c][k] = i
        BY <3>3 DEF Received
      <4>2. \E j \in DOMAIN Tail(inbox[c]) : Tail(inbox[c])[j] = i
        BY <3>1, <3>2, <4>1, StillThere
      <4> QED BY <3>1, <4>2 DEF Received
    <3> QED BY <2>2, <2>4, <2>5, <3>1, <3>2, <3>3 DEF Coming
  <2>9. ~ ModuleClose(t) /\ ~ Shutdown(t)
    BY <1>0, <1>5, <2>3 DEF ModuleClose, Shutdown, TypeOK
  <2>10. ASSUME NEW noReturn \in BOOLEAN, Call(t, noReturn)
         PROVE  \/ at'[t] = "send" /\ request'[t].id = i
                \/ Coming(r)'
    <3>1. at[t] = "idle"
      BY <2>10 DEF Call
    <3>2. i \in pending[c] \/ i = next_id[c] + 1
      <4>1. UNCHANGED pending \/ pending' = [pending EXCEPT ![c] = @ \cup {next_id[c] + 1}]
        BY <2>10 DEF Call
      <4>2. pending \in [Client -> SUBSET Nat]
        BY <1>0 DEF TypeOK
      <4> QED BY <1>0, <1>5, <4>1, <4>2
    <3>3. next_id[c] + 1 \in Nat
      BY <1>0 DEF TypeOK
    <3>4. \/ Fail(c, next_id[c] + 1)
          \/ at'[t] = "send" /\ request'[t].id = next_id[c] + 1 /\ UNCHANGED inbox
      BY <1>0, <2>1, <2>10 DEF Call, TypeOK
    <3>5. Received(c, i) => Received(c, i)'
      <4>1. CASE Fail(c, next_id[c] + 1)
        BY <1>0, <3>3, <4>1, FailArrives
      <4>2. CASE UNCHANGED inbox
        BY <4>2 DEF Received
      <4> QED BY <3>4, <4>1, <4>2
    <3>6. CASE i = next_id[c] + 1
      <4>1. Fail(c, next_id[c] + 1) => Received(c, i)'
        BY <1>0, <2>1, <3>3, <3>6, FailArrives
      <4> QED BY <2>2, <3>4, <3>6, <4>1 DEF Coming
    <3>7. CASE i \in pending[c]
      BY <2>2, <2>4, <2>5, <3>1, <3>5, <3>7 DEF Coming
    <3> QED BY <3>2, <3>6, <3>7
  <2> QED BY <2>2, <2>6, <2>7, <2>8, <2>9, <2>10 DEF CallStep
<1> QED BY <1>3, <1>4, <1>5, WaitsForNext

\* What the service does leaves the threads waiting for the same.
LEMMA ServiceKeepsComing ==
  ASSUME IndInv, Waiting, AnswerComing, Waiting',
         (\E s \in Service : Start(s) \/ Exit(s) \/ ServiceStep(s)) \/ WorkerStep
  PROVE  AnswerComing'
<1>1. UNCHANGED <<at, request, pending, ended>>
  BY DEF Start, Exit, ServiceStep, WorkerStep, Take, Reply, Defer, Close, Leftover, Cancel, AsyncReturn,
         AsyncSend, callVars
<1>2. ASSUME NEW t \in Thread, at[t] = "read" PROVE Coming(request[t])'
  <2>1. request[t] \in Request /\ request[t].src = ClientOf[t] /\ ~ request[t].NO_RETURN /\ ClientOf[t] \notin Async
    BY <1>2 DEF Waiting
  <2>2. ended[request[t].src] = "no"
    BY <2>1, ConstantsAssumption DEF Waiting
  <2>3. Coming(request[t])
    BY <1>2, WaitsFor
  <2> DEFINE r == request[t]
  <2>4. \A q \in Request : q = r => Coming(q)'
    BY <2>1, <2>2, <2>3, ServiceComing
  <2> QED BY <1>1, <2>1, <2>4 DEF Coming
<1>3. ASSUME NEW t \in Thread, ended[ClientOf[t]] = "no", NEW i \in pending[ClientOf[t]],
             ~ (at[t] = "send" /\ request[t].id = i)
      PROVE  Coming([src |-> ClientOf[t], id |-> i, NO_RETURN |-> FALSE])'
  <2> DEFINE r == [src |-> ClientOf[t], id |-> i, NO_RETURN |-> FALSE]
  <2>1. r \in Request /\ ~ r.NO_RETURN /\ r.src = ClientOf[t]
    BY <1>3, PendingRequest, ConstantsAssumption
  <2>2. Coming(r)
    BY <1>3, WaitsFor
  <2> HIDE DEF r
  <2>3. Coming(r)'
    BY <1>3, <2>1, <2>2, ServiceComing
  <2> QED BY <2>3 DEF r
<1> QED BY <1>1, <1>2, <1>3, WaitsForNext

\* Who waits, and for what.
LEMMA NextWaiting == IndInv /\ Waiting /\ [Next]_vars => Waiting'
<1> SUFFICES ASSUME IndInv, Waiting, [Next]_vars PROVE Waiting'
  OBVIOUS
<1>0. TypeOK /\ \A t \in Thread : ClientOf[t] \in Client
  BY ConstantsAssumption DEF IndInv
<1>1. CASE UNCHANGED vars
  BY <1>1 DEF Waiting, vars, callVars, serviceVars
<1>2. ASSUME NEW s \in Service, Start(s) \/ Exit(s) \/ ServiceStep(s) PROVE Waiting'
  <2>1. UNCHANGED <<at, request, pending, ended>>
    BY <1>2 DEF Start, Exit, ServiceStep, Take, Reply, Defer, Close, Leftover, Cancel, callVars
  <2>2. ASSUME NEW x \in Service, state'[x] \in {"new", "run", "exit"} PROVE leftover'[x] = <<>>
    <3>1. state[x] \in {"new", "run", "exit"}
      BY <1>0, <1>2, <2>2 DEF Start, Exit, ServiceStep, Take, Reply, Defer, Close, Leftover, Cancel, TypeOK
    <3>2. leftover'[x] = leftover[x]
      BY <1>0, <1>2, <2>2, <3>1, SMTT(60) DEF Start, Exit, ServiceStep, Take, Reply, Defer, Close, Leftover, Cancel, TypeOK
    <3> QED BY <3>1, <3>2 DEF Waiting
  <2> QED BY <2>1, <2>2 DEF Waiting
<1>3. CASE WorkerStep
  BY <1>3 DEF WorkerStep, AsyncReturn, AsyncSend, Waiting, callVars
<1>4. ASSUME NEW t \in Thread, CallStep(t) \/ ModuleClose(t) \/ \E noReturn \in BOOLEAN : Call(t, noReturn)
      PROVE  Waiting'
  <2> DEFINE c == ClientOf[t]
  <2>1. UNCHANGED <<state, leftover>>
    BY <1>4, SMTT(60) DEF CallStep, ModuleClose, Call, Send, Read, Callback, Shutdown, serviceVars
  <2>2. \A u \in Thread : u # t => at'[u] = at[u] /\ request'[u] = request[u]
    BY <1>0, <1>4 DEF CallStep, ModuleClose, Call, Send, Read, Callback, Shutdown, callVars, TypeOK
  <2>3. \A d \in Client \ Async : ended'[d] = ended[d] /\ pending'[d] = pending[d]
    <3>1. CASE ModuleClose(t) \/ Callback(t)
      BY <1>0, <3>1 DEF ModuleClose, Callback, TypeOK
    <3>2. CASE Shutdown(t)
      <4>1. c \in Async
        BY <1>0, <3>2 DEF Shutdown, Waiting
      <4> QED BY <1>0, <3>2, <4>1 DEF Shutdown, TypeOK
    <3>3. CASE Send(t) \/ Read(t)
      BY <3>3 DEF Send, Read
    <3>4. ASSUME NEW noReturn \in BOOLEAN, Call(t, noReturn)
          PROVE  \A d \in Client \ Async : ended'[d] = ended[d] /\ pending'[d] = pending[d]
      BY <1>0, <3>4, SMTT(60) DEF Call, TypeOK
    <3> QED BY <1>4, <3>1, <3>2, <3>3, <3>4 DEF CallStep
  <2>4. ASSUME at'[t] # "idle"
        PROVE  /\ request'[t] \in Request /\ request'[t].src = ClientOf[t]
               /\ at'[t] = "read" => ~ request'[t].NO_RETURN /\ ClientOf[t] \notin Async
               /\ ClientOf[t] \in Async => ~ request'[t].NO_RETURN
    <3>1. CASE ModuleClose(t) \/ Callback(t) \/ Shutdown(t) \/ Read(t)
      <4>1. request' = request /\ at[t] # "idle" /\ (at'[t] = "read" => at[t] = "read")
        BY <1>0, <2>4, <3>1 DEF ModuleClose, Callback, Shutdown, Read, callVars, TypeOK
      <4> QED BY <4>1 DEF Waiting
    <3>2. CASE Send(t)
      <4>1. request' = request /\ at[t] = "send" /\ at'[t] = "read" /\ ~ request[t].NO_RETURN /\ c \notin Async
        BY <1>0, <2>4, <3>2 DEF Send, TypeOK
      <4> QED BY <4>1 DEF Waiting
    <3>3. ASSUME NEW noReturn \in BOOLEAN, Call(t, noReturn)
          PROVE  /\ request'[t] \in Request /\ request'[t].src = ClientOf[t]
                 /\ at'[t] = "read" => ~ request'[t].NO_RETURN /\ ClientOf[t] \notin Async
                 /\ ClientOf[t] \in Async => ~ request'[t].NO_RETURN
      <4>1. /\ at'[t] = "send" /\ next_id[c] + 1 \in Id /\ (noReturn => c \notin Async)
            /\ request'[t] = [src |-> c, id |-> next_id[c] + 1, NO_RETURN |-> noReturn]
        BY <1>0, <2>4, <3>3 DEF Call, TypeOK
      <4>2. request'[t] \in Request
        BY <1>0, <4>1 DEF Request
      <4> QED BY <4>1, <4>2
    <3> QED BY <1>4, <3>1, <3>2, <3>3 DEF CallStep
  <2> QED BY <2>1, <2>2, <2>3, <2>4, SMTT(60) DEF Waiting
<1> QED BY <1>1, <1>2, <1>3, <1>4 DEF Next

\* Whoever waits has an answer coming, when no two threads share a client: an
\* instance that exits answers what is in its pipe and what it has promised
\* (Pipe: close; ModuleBase: vnx_cleanup).
THEOREM AnswersCome == ASSUME OneThreadEach PROVE Spec => []AnswerComing
<1>1. Init => Waiting /\ AnswerComing
  <2> SUFFICES ASSUME Init PROVE Waiting /\ AnswerComing
    OBVIOUS
  <2>1. Waiting
    BY DEF Init, Waiting
  <2>2. \A t \in Thread : at[t] # "read" /\ pending[ClientOf[t]] = {}
    BY ConstantsAssumption DEF Init
  <2> QED BY <2>1, <2>2 DEF AnswerComing
<1>2. IndInv /\ IndInv' /\ Waiting /\ AnswerComing /\ [Next]_vars => Waiting' /\ AnswerComing'
  <2> SUFFICES ASSUME IndInv, IndInv', Waiting, AnswerComing, [Next]_vars PROVE Waiting' /\ AnswerComing'
    OBVIOUS
  <2>1. Waiting'
    BY NextWaiting
  <2>2. CASE UNCHANGED vars
    <3>1. \A r : Held(r)' <=> Held(r)
      BY <2>2 DEF vars, serviceVars, Held
    <3>2. \A c, i : Received(c, i)' <=> Received(c, i)
      BY <2>2 DEF vars, Received
    <3>3. \A r : Coming(r)' <=> Coming(r)
      BY <3>1, <3>2 DEF Coming
    <3>4. UNCHANGED <<at, request, ended, pending>>
      BY <2>2 DEF vars, callVars
    <3>5. \A t \in Thread :
           /\ at'[t] = "read" => Coming(request[t])'
           /\ ended'[ClientOf[t]] = "no" => \A i \in pending'[ClientOf[t]] :
                \/ at'[t] = "send" /\ request'[t].id = i
                \/ Coming([src |-> ClientOf[t], id |-> i, NO_RETURN |-> FALSE])'
      BY <3>3, <3>4, WaitsFor
    <3> QED BY <2>1, <3>5, WaitsForNext
  <2>3. CASE Next
    BY <2>1, <2>3, ServiceKeepsComing, CallComing, OneThreadEach DEF Next
  <2> QED BY <2>1, <2>2, <2>3
<1> QED BY <1>1, <1>2, Invariance, PTL DEF Spec
=============================================================================
