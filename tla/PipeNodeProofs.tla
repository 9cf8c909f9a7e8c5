--------------------------- MODULE PipeNodeProofs ---------------------------
(***************************************************************************)
(* Theorems about PipeNode, for every value of its constants.              *)
(*                                                                         *)
(* IndInv is inductive: each of its conjuncts has a lemma saying that a    *)
(* step preserves it (NextType, NextShape, NextOwned, NextStopping,        *)
(* NextStranded), with one case per action or group of actions that treat  *)
(* the conjunct alike. RequestsKept, QueueBounded and LatencyBounded       *)
(* follow separately.                                                      *)
(*                                                                         *)
(* That PipeNode implements MessageChannel: the mapping reads the contents *)
(* of a pipe off its queue and what became of a message off its fate. That *)
(* a message has one fate, once, needs to know that what is in a queue is  *)
(* "queued" (Tracked), is there only once (Distinct), and that what is     *)
(* being pushed has had no fate yet (Unsent).                              *)
(***************************************************************************)
EXTENDS PipeNode, SequenceTheorems, FiniteSetTheorems, TLAPS

-----------------------------------------------------------------------------
(* TypeOK *)

\* The initial state is well typed.
LEMMA InitType == Init => TypeOK
  BY ConstantsAssumption DEF Init, TypeOK, PC, Fate

\* The types of what Pipe::push() changes.
PushTypeOK ==
    /\ queue' \in [Pipe -> Seq(Entry)]
    /\ waiting' \in [Pipe -> SUBSET Thread]
    /\ notify_map' \in [Node -> [Prio -> Seq(Pipe)]]
    /\ pc' \in [Node -> PC]
    /\ fate' \in [Message -> Fate]
    /\ push' \in [Thread -> Pipe \cup {None}]
    /\ out' \in [Thread -> Message \cup {None}]

\* A push keeps the types of what it changes.
LEMMA PushType ==
  ASSUME TypeOK, NEW t \in Thread, NEW p \in Pipe, NEW m \in Message, Push(t, p, m)
  PROVE  PushTypeOK
<1> USE ConstantsAssumption DEF TypeOK, PC, PushTypeOK
<1> DEFINE entry == [msg |-> m, time |-> clock]
<1>1. entry \in Entry
  BY DEF Entry
<1>2. CASE PushWait(t, p, m)
  BY <1>2 DEF PushWait
<1>3. CASE PushRefuse(t, p, m)
  BY <1>3 DEF PushRefuse, Fate
<1>4. CASE PushAppend(t, p, m)
  <2>1. node[p] \in Node /\ Priority[p] \in Prio
    BY <1>4 DEF PushAppend, Prio
  <2>2. queue' \in [Pipe -> Seq(Entry)]
    BY <1>1, <1>4 DEF PushAppend
  <2>3. fate' \in [Message -> Fate]
    BY <1>4 DEF PushAppend, Fate
  <2>4. notify_map' \in [Node -> [Prio -> Seq(Pipe)]]
    BY <1>4, <2>1, SMTT(60) DEF PushAppend, Notify
  <2>5. pc' \in [Node -> PC]
    BY <1>4, <2>1 DEF PushAppend, Notify
  <2> QED BY <1>4, <2>2, <2>3, <2>4, <2>5 DEF PushAppend
<1>5. CASE PushReplace(t, p, m)
  <2>1. queue[p] # <<>> /\ queue[p] \in Seq(Entry)
    BY <1>5 DEF PushReplace, Evicts, IsFull
  <2>2. Append(Tail(queue[p]), entry) \in Seq(Entry)
    BY <1>1, <2>1
  <2>3. queue' \in [Pipe -> Seq(Entry)]
    BY <1>5, <2>2 DEF PushReplace
  <2>4. fate' \in [Message -> Fate]
    BY <1>5 DEF PushReplace, Fate
  <2> QED BY <1>5, <2>3, <2>4 DEF PushReplace
<1> QED BY <1>2, <1>3, <1>4, <1>5 DEF Push

\* Pipe::pop() waking a thread keeps the type of the wait set.
LEMMA NotifyOneType ==
  ASSUME TypeOK, NEW p \in Pipe, NotifyOne(p)
  PROVE  waiting' \in [Pipe -> SUBSET Thread]
<1>1. CASE waiting' = waiting
  BY <1>1 DEF TypeOK
<1>2. ASSUME NEW t \in waiting[p], waiting' = [waiting EXCEPT ![p] = @ \ {t}]
      PROVE  waiting' \in [Pipe -> SUBSET Thread]
  BY <1>2 DEF TypeOK
<1> QED BY <1>1, <1>2 DEF NotifyOne

\* Every step keeps every variable in its type.
LEMMA NextType == TypeOK /\ Shape /\ [Next]_vars => TypeOK'
<1> SUFFICES ASSUME TypeOK, Shape, [Next]_vars PROVE TypeOK'
  OBVIOUS
<1> USE ConstantsAssumption DEF TypeOK, PC
<1>1. ASSUME NEW p \in Pipe, NEW n \in Node, Connect(p, n) PROVE TypeOK'
  <2>1. CASE do_run[n]
    <3>1. pipe_list[n] \cup {p} \in SUBSET Pipe
      OBVIOUS
    <3>2. pipe_list' = [pipe_list EXCEPT ![n] = @ \cup {p}] /\ node' = [node EXCEPT ![p] = n]
      BY <1>1, <2>1, Zenon DEF Connect
    <3> QED BY <1>1, <3>1, <3>2 DEF Connect, readVars, exitVars, sendVars
  <2>2. CASE ~do_run[n]
    BY <1>1, <2>2 DEF Connect, readVars, exitVars, sendVars
  <2> QED BY <1>1, <2>1, <2>2 DEF Connect, readVars, exitVars, sendVars
<1>2. ASSUME NEW p \in Pipe, Pause(p) \/ Resume(p) PROVE TypeOK'
  <2>1. /\ is_paused' = [is_paused EXCEPT ![p] = TRUE] \/ is_paused' = [is_paused EXCEPT ![p] = FALSE]
        /\ waiting' = [waiting EXCEPT ![p] = {}]
    BY <1>2, Zenon DEF Pause, Resume
  <2>2. is_paused' \in [Pipe -> BOOLEAN]
    BY <2>1
  <2>3. waiting' \in [Pipe -> SUBSET Thread]
    BY <2>1
  <2> QED BY <1>2, <2>2, <2>3 DEF Pause, Resume, nodeVars, readVars, exitVars, sendVars
<1>3. ASSUME NEW p \in Pipe, ClosePipe(p) PROVE TypeOK'
  BY <1>3 DEF ClosePipe, PipeClose, readVars, exitVars, sendVars, Fate
<1>4. ASSUME NEW t \in Thread, NEW p \in Pipe, NEW k \in Kind, Send(t, p, k) PROVE TypeOK'
  <2> DEFINE m == [src |-> t, num |-> sent[t] + 1, kind |-> k]
  <2>1. m \in Message
    BY <1>4 DEF Send, Message
  <2>2. sent' \in [Thread -> 0..MaxSend]
    BY <1>4 DEF Send
  <2>3. PushTypeOK
    BY <1>4, <2>1, PushType DEF Send
  <2> QED BY <1>4, <2>2, <2>3 DEF Send, pushFrame, exitVars, PushTypeOK
<1>8. ASSUME NEW n \in Node, ReadNext(n) PROVE TypeOK'
  <2>1. PICK r \in Prio : /\ notify_map[n][r] # <<>>
                          /\ vnx_pipe' = [vnx_pipe EXCEPT ![n] = Head(notify_map[n][r])]
                          /\ notify_map' = [notify_map EXCEPT ![n][r] = Tail(@)]
    BY <1>8 DEF ReadNext, Notified
  <2>2. Head(notify_map[n][r]) \in Pipe /\ Tail(notify_map[n][r]) \in Seq(Pipe)
    BY <2>1
  <2>3. vnx_pipe' \in [Node -> Pipe \cup {None}] /\ notify_map' \in [Node -> [Prio -> Seq(Pipe)]]
    BY <2>1, <2>2, SMTT(60)
  <2> QED BY <1>8, <2>3 DEF ReadNext, pipeVars, exitVars, sendVars
<1>9. ASSUME NEW t \in Thread, Retry(t) PROVE TypeOK'
  <2>1. push[t] \in Pipe
    BY <1>9 DEF Retry
  <2>2. out[t] \in Message
    BY <1>9 DEF Retry, Shape
  <2>3. PushTypeOK
    BY <1>9, <2>1, <2>2, PushType DEF Retry
  <2> QED BY <1>9, <2>3 DEF Retry, pushFrame, exitVars, PushTypeOK
<1>10. ASSUME NEW t \in Thread, SpuriousWake(t) PROVE TypeOK'
  BY <1>10 DEF SpuriousWake, nodeVars, readVars, exitVars, sendVars
<1>11. ASSUME NEW n \in Node, NEW md \in ReadMode, ReadBegin(n, md) PROVE TypeOK'
  BY <1>11 DEF ReadBegin, pipeVars, nodeVars, exitVars, sendVars
<1>12. ASSUME NEW n \in Node, ReadCheck(n) PROVE TypeOK'
  BY <1>12 DEF ReadCheck, AfterRead, pipeVars, nodeVars, exitVars, sendVars
<1>13. ASSUME NEW n \in Node, ReadWait(n) \/ ReadWake(n) \/ ReadNull(n) PROVE TypeOK'
  <2>1. CASE ReadWait(n)
    BY <2>1 DEF ReadWait, pipeVars, nodeVars, exitVars, sendVars
  <2>2. CASE ReadWake(n)
    <3>1. mode' \in [Node -> {"poll", "block", "timed", "once", "drain"}]
      BY <2>2 DEF ReadWake
    <3> QED BY <2>2, <3>1 DEF ReadWake, pipeVars, nodeVars, exitVars, sendVars
  <2>3. CASE ReadNull(n)
    <3>1. AfterRead(n) \in PC
      BY DEF AfterRead
    <3>2. pc' \in [Node -> PC] /\ vnx_pipe' \in [Node -> Pipe \cup {None}]
      BY <2>3, <3>1 DEF ReadNull
    <3> QED BY <2>3, <3>2 DEF ReadNull, pipeVars, nodeVars, exitVars, sendVars
  <2> QED BY <1>13, <2>1, <2>2, <2>3
<1>14. ASSUME NEW n \in Node, ReadPop(n) PROVE TypeOK'
  <2> DEFINE p == vnx_pipe[n]
  <2>1. p \in Pipe
    BY <1>14 DEF ReadPop, Shape
  <2>2. Head(queue[p]) \in Entry /\ Tail(queue[p]) \in Seq(Entry)
    BY <1>14, <2>1 DEF ReadPop
  <2>3. msg' \in [Node -> Message \cup {None}]
    BY <1>14, <2>2 DEF ReadPop, Entry
  <2>4. queue' \in [Pipe -> Seq(Entry)]
    BY <1>14, <2>1, <2>2 DEF ReadPop
  <2>5. fate' \in [Message -> Fate]
    BY <1>14, <2>1, <2>2 DEF ReadPop, Entry, Fate
  <2> QED BY <1>14, <2>3, <2>4, <2>5 DEF ReadPop, nodeVars, exitVars, sendVars
<1>15. ASSUME NEW n \in Node, ReadPopEmpty(n) PROVE TypeOK'
  BY <1>15 DEF ReadPopEmpty, pipeVars, nodeVars, exitVars, sendVars
<1>16. ASSUME NEW n \in Node, ReadReturn(n) PROVE TypeOK'
  <2>0. vnx_pipe[n] \in Pipe
    BY <1>16 DEF ReadReturn, Shape
  <2>1. waiting' \in [Pipe -> SUBSET Thread]
    BY <1>16, <2>0, NotifyOneType DEF ReadReturn
  <2> QED BY <1>16, <2>1 DEF ReadReturn, signalFrame, exitVars, sendVars
<1>17. ASSUME NEW n \in Node, ReadAgain(n) PROVE TypeOK'
  <2>0. vnx_pipe[n] \in Pipe
    BY <1>17 DEF ReadAgain, Shape
  <2>1. waiting' \in [Pipe -> SUBSET Thread]
    BY <1>17, <2>0, NotifyOneType DEF ReadAgain
  <2> QED BY <1>17, <2>1 DEF ReadAgain, signalFrame, exitVars, sendVars
<1>18. ASSUME NEW n \in Node, ReadDone(n) PROVE TypeOK'
  BY <1>18 DEF ReadDone, pipeVars, nodeVars, exitVars, sendVars
<1>19. ASSUME NEW c \in Stopper, NEW n \in Node, Stop(c, n) PROVE TypeOK'
  BY <1>19 DEF Stop, ExitBegin, Caller, pipeVars, readVars, sendVars
<1>20. ASSUME NEW n \in Node, Cleanup(n) PROVE TypeOK'
  BY <1>20 DEF Cleanup, ExitBegin, Caller, pipeVars, sendVars
<1>21. ASSUME NEW c \in Caller, NEW p \in Pipe, ExitPipe(c, p) PROVE TypeOK'
  BY <1>21 DEF ExitPipe, nodeVars, readVars, sendVars
<1>22. ASSUME NEW c \in Stopper, StopEnd(c) PROVE TypeOK'
  BY <1>22 DEF StopEnd, WakeReader, Caller, pipeVars, nodeVars, sendVars
<1>23. ASSUME NEW n \in Node, CleanupRead(n) PROVE TypeOK'
  <2>1. pc' \in [Node -> PC] /\ mode' \in [Node -> {"poll", "block", "timed", "once", "drain"}]
    <3>1. CASE n \in CleanExit
      <4>1. pc' = [pc EXCEPT ![n] = "check"] /\ mode' = [mode EXCEPT ![n] = "drain"]
        BY <1>23, <3>1, Zenon DEF CleanupRead
      <4>2. pc' \in [Node -> PC]
        BY <4>1
      <4>3. mode' \in [Node -> {"poll", "block", "timed", "once", "drain"}]
        BY <4>1
      <4> QED BY <4>2, <4>3
    <3>2. CASE n \notin CleanExit
      <4>1. pc' = [pc EXCEPT ![n] = "close"] /\ mode' = mode
        BY <1>23, <3>2, Zenon DEF CleanupRead
      <4>2. pc' \in [Node -> PC]
        BY <4>1
      <4> QED BY <4>1, <4>2
    <3> QED BY <3>1, <3>2
  <2> QED BY <1>23, <2>1 DEF CleanupRead, Caller, pipeVars, nodeVars, sendVars
<1>24. ASSUME NEW n \in Node, CloseBegin(n) PROVE TypeOK'
  BY <1>24 DEF CloseBegin, Caller, pipeVars, readVars, sendVars
<1>25. ASSUME NEW n \in Node, NEW p \in Pipe, CloseEach(n, p) PROVE TypeOK'
  BY <1>25 DEF CloseEach, PipeClose, Caller, readVars, sendVars, Fate
<1>26. ASSUME NEW n \in Node, CloseEnd(n) PROVE TypeOK'
  BY <1>26 DEF CloseEnd, Caller, pipeVars, sendVars
<1>27. ASSUME NEW n \in Node, Restart(n) PROVE TypeOK'
  BY <1>27 DEF Restart, pipeVars, exitVars, sendVars
<1>28. ASSUME Tick PROVE TypeOK'
  BY <1>28 DEF Tick, pipeVars, nodeVars, readVars, exitVars, sendVars
<1>29. CASE UNCHANGED vars
  BY <1>29 DEF vars, pipeVars, nodeVars, readVars, exitVars, sendVars
<1> QED
  <2>1. CASE Next
    <3> HIDE DEF TypeOK
    <3>1. CASE \E p \in Pipe, n \in Node : <<p, n>> \in Opens /\ Connect(p, n)
      BY <3>1, <1>1
    <3>2. CASE \E t \in Thread, p \in Pipe, k \in Kind : <<t, p>> \in Route /\ Send(t, p, k)
      BY <3>2, <1>4
    <3>3. CASE \/ \E p \in Pausing : Pause(p) \/ Resume(p)
               \/ \E p \in Closing : ClosePipe(p)
      BY <3>3, <1>2, <1>3
    <3>4. CASE \E t \in Thread : Retry(t) \/ SpuriousWake(t)
      BY <3>4, <1>9, <1>10
    <3>5. CASE \E n \in Node : ReaderStep(n) \/ OwnerStep(n) \/ ReadWake(n)
      BY <3>5, <1>8, <1>11, <1>12, <1>13, <1>14, <1>15, <1>16, <1>17, <1>18, <1>20, <1>21,
         <1>23, <1>24, <1>25, <1>26 DEF ReaderStep, OwnerStep, Caller
    <3>6. CASE \/ \E n \in Restarting : Restart(n)
               \/ \E c \in Stopper : StopperStep(c) \/ \E n \in Node : Stop(c, n)
               \/ Tick
      BY <3>6, <1>19, <1>21, <1>22, <1>27, <1>28 DEF StopperStep, Caller
    <3> QED BY <2>1, <3>1, <3>2, <3>3, <3>4, <3>5, <3>6 DEF Next
  <2> QED BY <2>1, <1>29

-----------------------------------------------------------------------------
(* Shape *)

\* A blocked thread has a message, a reader at a pipe has a pipe.
LEMMA NextShape == TypeOK /\ Shape /\ [Next]_vars => Shape'
<1> SUFFICES ASSUME TypeOK, Shape, [Next]_vars PROVE Shape'
  OBVIOUS
<1> USE ConstantsAssumption DEF TypeOK, Shape, PC
<1>1. ASSUME NEW t \in Thread, NEW p \in Pipe, NEW m \in Message, Push(t, p, m), UNCHANGED vnx_pipe
      PROVE  Shape'
  <2>1. CASE PushWait(t, p, m)
    BY <1>1, <2>1 DEF PushWait
  <2>2. CASE PushRefuse(t, p, m)
    BY <1>1, <2>2 DEF PushRefuse
  <2>3. CASE PushAppend(t, p, m)
    <3>1. node[p] \in Node
      BY <2>3 DEF PushAppend
    <3> QED BY <1>1, <2>3, <3>1 DEF PushAppend, Notify
  <2>4. CASE PushReplace(t, p, m)
    BY <1>1, <2>4 DEF PushReplace
  <2> QED BY <1>1, <2>1, <2>2, <2>3, <2>4 DEF Push
<1>2. CASE \E t \in Thread, p \in Pipe, k \in Kind : <<t, p>> \in Route /\ Send(t, p, k)
  <2>1. PICK t \in Thread, p \in Pipe, k \in Kind : Send(t, p, k)
    BY <1>2
  <2>2. [src |-> t, num |-> sent[t] + 1, kind |-> k] \in Message
    BY <2>1 DEF Send, Message
  <2> QED BY <1>1, <2>1, <2>2 DEF Send, pushFrame
<1>3. CASE \E t \in Thread : Retry(t)
  BY <1>1, <1>3 DEF Retry, pushFrame
<1>4. CASE \/ \E t \in Thread : SpuriousWake(t)
           \/ \E p \in Pipe, n \in Node : Connect(p, n)
           \/ \E p \in Pipe : Pause(p) \/ Resume(p) \/ ClosePipe(p)
           \/ \E c \in Caller, p \in Pipe : ExitPipe(c, p)
           \/ \E c \in Stopper, n \in Node : Stop(c, n)
           \/ Tick \/ UNCHANGED vars
  BY <1>4 DEF SpuriousWake, Connect, Pause, Resume, ClosePipe, ExitPipe, Stop, Tick, vars, readVars, sendVars
<1>5. ASSUME NEW n \in Node, ReadNext(n) PROVE Shape'
  <2>1. \A r \in Notified(n) : Head(notify_map[n][r]) \in Pipe
    BY DEF Notified
  <2> QED BY <1>5, <2>1, SMTT(60) DEF ReadNext, sendVars
<1>6. ASSUME NEW n \in Node, NEW md \in ReadMode, ReadBegin(n, md) PROVE Shape'
  BY <1>6 DEF ReadBegin, sendVars
<1>7. ASSUME NEW n \in Node, ReadCheck(n) \/ ReadWait(n) \/ ReadWake(n) \/ ReadNull(n) PROVE Shape'
  BY <1>7 DEF ReadCheck, ReadWait, ReadWake, ReadNull, AfterRead, sendVars
<1>8. ASSUME NEW n \in Node, ReadPop(n) \/ ReadPopEmpty(n) \/ ReadDone(n) PROVE Shape'
  BY <1>8 DEF ReadPop, ReadPopEmpty, ReadDone, sendVars
<1>9. ASSUME NEW n \in Node, ReadReturn(n) \/ ReadAgain(n) PROVE Shape'
  BY <1>9 DEF ReadReturn, ReadAgain, signalFrame, sendVars
<1>10. ASSUME NEW n \in Node, Cleanup(n) \/ CleanupRead(n) \/ CloseBegin(n) \/ CloseEnd(n) \/ Restart(n) PROVE Shape'
  BY <1>10 DEF Cleanup, CleanupRead, CloseBegin, CloseEnd, Restart, readVars, sendVars
<1>11. ASSUME NEW n \in Node, NEW p \in Pipe, CloseEach(n, p) PROVE Shape'
  BY <1>11 DEF CloseEach, readVars, sendVars
<1>12. ASSUME NEW c \in Stopper, StopEnd(c) PROVE Shape'
  BY <1>12 DEF StopEnd, WakeReader, Caller, sendVars
<1> QED
  <2> HIDE DEF TypeOK, Shape
  <2> QED BY <1>2, <1>3, <1>4, <1>5, <1>6, <1>7, <1>8, <1>9, <1>10, <1>11, <1>12
          DEF Next, ReaderStep, OwnerStep, StopperStep, Caller

-----------------------------------------------------------------------------
(* Owned *)

\* An element of Append(s, e) is an element of s or e.
LEMMA AppendElement ==
  ASSUME NEW S, NEW s \in Seq(S), NEW e \in S, NEW i \in DOMAIN Append(s, e)
  PROVE  (i \in DOMAIN s /\ Append(s, e)[i] = s[i]) \/ Append(s, e)[i] = e
  OBVIOUS

\* A pipe is known only to the node it was opened for (Pipe::connect, Pipe::close).
LEMMA NextOwned == TypeOK /\ Shape /\ Owned /\ Stopping /\ [Next]_vars => Owned'
<1> SUFFICES ASSUME TypeOK, Shape, Owned, Stopping, [Next]_vars PROVE Owned'
  OBVIOUS
<1> USE ConstantsAssumption DEF TypeOK, Shape, Owned, PC
<1>1. ASSUME NEW t \in Thread, NEW p \in Pipe, NEW m \in Message, Push(t, p, m), UNCHANGED pushFrame
      PROVE  Owned'
  <2>1. CASE PushWait(t, p, m) \/ PushRefuse(t, p, m) \/ PushReplace(t, p, m)
    BY <1>1, <2>1, SMTT(60) DEF PushWait, PushRefuse, PushReplace, pushFrame
  <2>2. CASE PushAppend(t, p, m)
    <3>1. node[p] \in Node /\ Priority[p] \in Prio
      BY <2>2 DEF PushAppend, Prio
    <3>2. \A n \in Node, r \in Prio : \A i \in DOMAIN notify_map'[n][r] :
             \/ i \in DOMAIN notify_map[n][r] /\ notify_map'[n][r][i] = notify_map[n][r][i]
             \/ n = node[p] /\ r = Priority[p] /\ notify_map'[n][r][i] = p
      <4>1. notify_map' = [notify_map EXCEPT ![node[p]][Priority[p]] = Append(@, p)]
        BY <2>2 DEF PushAppend, Notify
      <4> SUFFICES ASSUME NEW n \in Node, NEW r \in Prio, NEW i \in DOMAIN notify_map'[n][r]
                   PROVE  \/ i \in DOMAIN notify_map[n][r] /\ notify_map'[n][r][i] = notify_map[n][r][i]
                          \/ n = node[p] /\ r = Priority[p] /\ notify_map'[n][r][i] = p
        BY SMTT(60)
      <4>2. CASE n = node[p] /\ r = Priority[p]
        <5>1. notify_map'[n][r] = Append(notify_map[n][r], p) /\ notify_map[n][r] \in Seq(Pipe)
          BY <4>1, <4>2, <3>1, SMTT(60)
        <5>2. i \in DOMAIN Append(notify_map[n][r], p)
          BY <5>1
        <5>3. \/ i \in DOMAIN notify_map[n][r] /\ Append(notify_map[n][r], p)[i] = notify_map[n][r][i]
              \/ Append(notify_map[n][r], p)[i] = p
          <6> DEFINE s == notify_map[n][r]
          <6>1. s \in Seq(Pipe) /\ p \in Pipe /\ i \in DOMAIN Append(s, p)
            BY <5>1, <5>2
          <6> HIDE DEF s, TypeOK, Shape, Owned
          <6>2. (i \in DOMAIN s /\ Append(s, p)[i] = s[i]) \/ Append(s, p)[i] = p
            BY <6>1, AppendElement, SMTT(60)
          <6> QED BY <6>2 DEF s
        <5> QED BY <4>2, <5>1, <5>3
      <4>3. CASE ~(n = node[p] /\ r = Priority[p])
        <5>1. notify_map'[n][r] = notify_map[n][r]
          BY <4>1, <4>3, <3>1
        <5> QED BY <5>1
      <4> QED BY <4>2, <4>3
    <3>3. \A n \in Node : pc'[n] = "pop" <=> pc[n] = "pop"
      BY <2>2, <3>1, SMTT(60) DEF PushAppend, Notify
    <3>4. UNCHANGED <<opened, node, pipe_list, vnx_pipe>>
      BY <1>1 DEF pushFrame
    <3>5. \A n \in Node, r \in Prio : \A i \in DOMAIN notify_map'[n][r] :
             LET q == notify_map'[n][r][i] IN
                Priority[q] = r /\ q \in opened /\ node[q] \in {n, None}
      <4> SUFFICES ASSUME NEW n \in Node, NEW r \in Prio, NEW i \in DOMAIN notify_map'[n][r]
                   PROVE  LET q == notify_map'[n][r][i] IN
                             Priority[q] = r /\ q \in opened /\ node[q] \in {n, None}
        OBVIOUS
      <4>1. CASE i \in DOMAIN notify_map[n][r] /\ notify_map'[n][r][i] = notify_map[n][r][i]
        BY <4>1
      <4>2. CASE n = node[p] /\ r = Priority[p] /\ notify_map'[n][r][i] = p
        BY <4>2, <3>1
      <4>3. \/ i \in DOMAIN notify_map[n][r] /\ notify_map'[n][r][i] = notify_map[n][r][i]
            \/ n = node[p] /\ r = Priority[p] /\ notify_map'[n][r][i] = p
        <5> HIDE DEF TypeOK, Shape, Owned
        <5> QED BY <3>2
      <4> QED BY <4>1, <4>2, <4>3, Zenon
    <3> QED BY <3>3, <3>4, <3>5, SMTT(60)
  <2> QED BY <1>1, <2>1, <2>2 DEF Push
<1>2. CASE \E t \in Thread, p \in Pipe, k \in Kind : <<t, p>> \in Route /\ Send(t, p, k)
  <2>1. PICK t \in Thread, p \in Pipe, k \in Kind : Send(t, p, k)
    BY <1>2
  <2>2. [src |-> t, num |-> sent[t] + 1, kind |-> k] \in Message
    BY <2>1 DEF Send, Message
  <2> QED BY <1>1, <2>1, <2>2 DEF Send
<1>3. CASE \E t \in Thread : Retry(t)
  BY <1>1, <1>3 DEF Retry
<1>4. CASE \/ \E t \in Thread : SpuriousWake(t)
           \/ \E p \in Pipe : Pause(p) \/ Resume(p)
           \/ \E c \in Caller, p \in Pipe : ExitPipe(c, p)
           \/ \E c \in Stopper, n \in Node : Stop(c, n)
           \/ Tick \/ UNCHANGED vars
  BY <1>4, SMTT(60) DEF SpuriousWake, Pause, Resume, ExitPipe, Stop, Tick, vars, pipeVars, nodeVars, readVars
<1>5. ASSUME NEW p \in Pipe, NEW n \in Node, Connect(p, n) PROVE Owned'
  <2>1. CASE do_run[n]
    <3>1. pipe_list' = [pipe_list EXCEPT ![n] = @ \cup {p}] /\ node' = [node EXCEPT ![p] = n]
      BY <1>5, <2>1, Zenon DEF Connect
    <3> QED BY <1>5, <3>1 DEF Connect, readVars
  <2>2. CASE ~do_run[n]
    BY <1>5, <2>2 DEF Connect, readVars
  <2> QED BY <2>1, <2>2
<1>6. ASSUME NEW p \in Pipe, ClosePipe(p) \/ \E n \in Node : CloseEach(n, p) PROVE Owned'
  <2>1. PipeClose(p) /\ UNCHANGED <<opened, notify_map, pc, vnx_pipe>>
    BY <1>6 DEF ClosePipe, CloseEach, readVars
  <2>2. node' = [node EXCEPT ![p] = None]
    BY <2>1 DEF PipeClose
  <2>3. \A q \in Pipe : node'[q] # None => q \in opened /\ q \in pipe_list'[node'[q]]
    BY <2>1, <2>2 DEF PipeClose
  <2> QED BY <2>1, <2>2, <2>3
<1>7. ASSUME NEW n \in Node, ReadNext(n) PROVE Owned'
  <2>1. PICK r \in Prio : /\ notify_map[n][r] # <<>>
                          /\ vnx_pipe' = [vnx_pipe EXCEPT ![n] = Head(notify_map[n][r])]
                          /\ notify_map' = [notify_map EXCEPT ![n][r] = Tail(@)]
    BY <1>7 DEF ReadNext, Notified
  <2>2. \A n1 \in Node, r1 \in Prio : \A i \in DOMAIN notify_map'[n1][r1] :
           \E j \in DOMAIN notify_map[n1][r1] : notify_map'[n1][r1][i] = notify_map[n1][r1][j]
    <3> SUFFICES ASSUME NEW n1 \in Node, NEW r1 \in Prio, NEW i \in DOMAIN notify_map'[n1][r1]
                 PROVE  \E j \in DOMAIN notify_map[n1][r1] : notify_map'[n1][r1][i] = notify_map[n1][r1][j]
      OBVIOUS
    <3>1. CASE n1 = n /\ r1 = r
      BY <2>1, <3>1, i + 1 \in DOMAIN notify_map[n][r]
    <3>2. CASE ~(n1 = n /\ r1 = r)
      <4>1. notify_map'[n1][r1] = notify_map[n1][r1]
        BY <2>1, <3>2
      <4> QED BY <4>1
    <3> QED BY <3>1, <3>2
  <2>3. 1 \in DOMAIN notify_map[n][r] /\ vnx_pipe'[n] = notify_map[n][r][1]
    BY <2>1
  <2>4. UNCHANGED <<opened, node, pipe_list>> /\ pc' = [pc EXCEPT ![n] = "pop"]
    BY <1>7 DEF ReadNext, pipeVars
  <2>5. \A n1 \in Node, r1 \in Prio : \A i \in DOMAIN notify_map'[n1][r1] :
           LET q == notify_map'[n1][r1][i] IN
              Priority[q] = r1 /\ q \in opened /\ node[q] \in {n1, None}
    BY <2>2
  <2>6. \A n1 \in Node : pc'[n1] = "pop" =>
           vnx_pipe'[n1] \in opened /\ node[vnx_pipe'[n1]] \in {n1, None}
    BY <2>1, <2>3, <2>4, SMTT(60)
  <2> QED BY <2>4, <2>5, <2>6
<1>8. ASSUME NEW n \in Node, \/ \E md \in ReadMode : ReadBegin(n, md)
                             \/ ReadCheck(n) \/ ReadWait(n) \/ ReadWake(n) \/ ReadNull(n)
      PROVE  Owned'
  BY <1>8 DEF ReadBegin, ReadCheck, ReadWait, ReadWake, ReadNull, AfterRead, pipeVars, nodeVars
<1>9. ASSUME NEW n \in Node, \/ ReadPop(n) \/ ReadPopEmpty(n) \/ ReadDone(n)
                             \/ ReadReturn(n) \/ ReadAgain(n)
      PROVE  Owned'
  <2>1. CASE ReadPop(n) \/ ReadPopEmpty(n) \/ ReadDone(n)
    BY <2>1, SMTT(60) DEF ReadPop, ReadPopEmpty, ReadDone, pipeVars, nodeVars
  <2>2. CASE ReadReturn(n) \/ ReadAgain(n)
    BY <2>2, SMTT(60) DEF ReadReturn, ReadAgain, signalFrame
  <2> QED BY <1>9, <2>1, <2>2
<1>10. ASSUME NEW n \in Node, Cleanup(n) \/ CleanupRead(n) \/ CloseBegin(n) \/ Restart(n) PROVE Owned'
  BY <1>10 DEF Cleanup, CleanupRead, CloseBegin, Restart, pipeVars, nodeVars, readVars
<1>11. ASSUME NEW n \in Node, CloseEnd(n) PROVE Owned'
  <2>1. \A p \in Pipe : node[p] # n
    BY <1>11 DEF CloseEnd, Stopping
  <2> QED BY <1>11, <2>1 DEF CloseEnd, pipeVars
<1>12. ASSUME NEW c \in Stopper, StopEnd(c) PROVE Owned'
  BY <1>12 DEF StopEnd, WakeReader, Caller, pipeVars, nodeVars
<1> QED
  <2> HIDE DEF TypeOK, Shape, Owned
  <2> QED BY <1>2, <1>3, <1>4, <1>5, <1>6, <1>7, <1>8, <1>9, <1>10, <1>11, <1>12
          DEF Next, ReaderStep, OwnerStep, StopperStep, Caller

-----------------------------------------------------------------------------
(* Stopping, NoDanglingNode and ExitShutsPipes *)

\* A push does nothing to a reader but wake it.
LEMMA PushPc ==
  ASSUME TypeOK, NEW t \in Thread, NEW p \in Pipe, NEW m \in Message, Push(t, p, m)
  PROVE  \A n \in Node : pc'[n] = pc[n] \/ (pc[n] = "wait" /\ pc'[n] = "lock")
<1>1. CASE PushWait(t, p, m) \/ PushRefuse(t, p, m) \/ PushReplace(t, p, m)
  BY <1>1 DEF PushWait, PushRefuse, PushReplace
<1>2. CASE PushAppend(t, p, m)
  <2>1. node[p] \in Node
    BY <1>2 DEF PushAppend, TypeOK
  <2> QED BY <1>2, <2>1 DEF PushAppend, Notify, TypeOK
<1> QED BY <1>1, <1>2 DEF Push

\* exit() and close() account for every pipe of the node (Node::exit, Node::close).
LEMMA NextStopping ==
  TypeOK /\ Shape /\ Owned /\ Stopping /\ NoDanglingNode /\ ExitShutsPipes /\ [Next]_vars
    => Stopping' /\ NoDanglingNode' /\ ExitShutsPipes'
<1> DEFINE Safe == Stopping /\ NoDanglingNode /\ ExitShutsPipes
<1> SUFFICES ASSUME TypeOK, Shape, Owned, Safe, [Next]_vars PROVE Safe'
  OBVIOUS
<1> USE ConstantsAssumption DEF TypeOK, Stopping, NoDanglingNode, ExitShutsPipes, PC
<1>1. ASSUME NEW t \in Thread, NEW p \in Pipe, NEW m \in Message, Push(t, p, m), UNCHANGED pushFrame
      PROVE  Safe'
  <2>1. \A n \in Node : pc'[n] = pc[n] \/ (pc[n] = "wait" /\ pc'[n] = "lock")
    BY <1>1, PushPc
  <2> QED BY <1>1, <2>1, SMTT(60) DEF pushFrame, exitVars
<1>2. CASE \E t \in Thread, p \in Pipe, k \in Kind : <<t, p>> \in Route /\ Send(t, p, k)
  <2>1. PICK t \in Thread, p \in Pipe, k \in Kind : Send(t, p, k)
    BY <1>2
  <2>2. [src |-> t, num |-> sent[t] + 1, kind |-> k] \in Message
    BY <2>1 DEF Send, Message
  <2> QED BY <1>1, <2>1, <2>2 DEF Send
<1>3. CASE \E t \in Thread : Retry(t)
  BY <1>1, <1>3 DEF Retry, Shape
<1>4. CASE \/ \E t \in Thread : SpuriousWake(t)
           \/ \E p \in Pipe : Pause(p) \/ Resume(p)
           \/ Tick \/ UNCHANGED vars
  BY <1>4, SMTT(60) DEF SpuriousWake, Pause, Resume, Tick, vars, pipeVars, nodeVars, readVars, exitVars
<1>5. ASSUME NEW p \in Pipe, NEW n \in Node, Connect(p, n) PROVE Safe'
  <2>1. CASE do_run[n]
    <3>1. node' = [node EXCEPT ![p] = n]
      BY <1>5, <2>1, Zenon DEF Connect
    <3> QED BY <1>5, <2>1, <3>1 DEF Connect, readVars, exitVars
  <2>2. CASE ~do_run[n]
    BY <1>5, <2>2 DEF Connect, readVars, exitVars
  <2> QED BY <2>1, <2>2
<1>6. ASSUME NEW p \in Pipe, ClosePipe(p) PROVE Safe'
  BY <1>6 DEF ClosePipe, PipeClose, readVars, exitVars
<1>7. ASSUME NEW n \in Node, NEW p \in Pipe, CloseEach(n, p) PROVE Safe'
  BY <1>7 DEF CloseEach, PipeClose, readVars, Caller
<1>8. ASSUME NEW n \in Node, NEW md \in ReadMode, ReadBegin(n, md) PROVE Safe'
  BY <1>8 DEF ReadBegin, pipeVars, nodeVars, exitVars
<1>9. ASSUME NEW n \in Node, ReadCheck(n) PROVE Safe'
  BY <1>9 DEF ReadCheck, AfterRead, pipeVars, nodeVars, exitVars
<1>10. ASSUME NEW n \in Node, ReadNext(n) PROVE Safe'
  BY <1>10, SMTT(60) DEF ReadNext, pipeVars, exitVars
<1>11. ASSUME NEW n \in Node, ReadWait(n) \/ ReadWake(n) \/ ReadNull(n) PROVE Safe'
  BY <1>11, SMTT(60) DEF ReadWait, ReadWake, ReadNull, AfterRead, pipeVars, nodeVars, exitVars
<1>12. ASSUME NEW n \in Node, ReadPop(n) \/ ReadPopEmpty(n) \/ ReadDone(n) PROVE Safe'
  <2>1. CASE ReadPop(n)
    BY <2>1 DEF ReadPop, nodeVars, exitVars
  <2>2. CASE ReadPopEmpty(n)
    BY <2>2 DEF ReadPopEmpty, pipeVars, nodeVars, exitVars
  <2>3. CASE ReadDone(n)
    BY <2>3 DEF ReadDone, pipeVars, nodeVars, exitVars
  <2> QED BY <1>12, <2>1, <2>2, <2>3
<1>13. ASSUME NEW n \in Node, ReadReturn(n) \/ ReadAgain(n) PROVE Safe'
  <2>1. CASE ReadReturn(n)
    BY <2>1 DEF ReadReturn, signalFrame, exitVars
  <2>2. CASE ReadAgain(n)
    <3>1. \A k \in Node : do_run'[k] => do_run[k]
      BY <2>2 DEF ReadAgain
    <3>2. \A k \in Node : mode'[k] = "drain" <=> mode[k] = "drain"
      BY <2>2 DEF ReadAgain
    <3> QED BY <2>2, <3>1, <3>2 DEF ReadAgain, signalFrame, exitVars
  <2> QED BY <1>13, <2>1, <2>2
<1>14. ASSUME NEW n \in Node, Cleanup(n) PROVE Safe'
  BY <1>14 DEF Cleanup, ExitBegin, Owned, Caller, pipeVars
<1>15. ASSUME NEW n \in Node, CleanupRead(n) PROVE Safe'
  BY <1>15 DEF CleanupRead, Caller, pipeVars, nodeVars
<1>16. ASSUME NEW n \in Node, CloseBegin(n) PROVE Safe'
  BY <1>16 DEF CloseBegin, Owned, Caller, pipeVars, readVars
<1>17. ASSUME NEW n \in Node, CloseEnd(n) PROVE Safe'
  BY <1>17 DEF CloseEnd, Caller, pipeVars
<1>18. ASSUME NEW n \in Node, Restart(n) PROVE Safe'
  BY <1>18 DEF Restart, pipeVars, exitVars
<1>19. ASSUME NEW c \in Caller, NEW p \in Pipe, ExitPipe(c, p) PROVE Safe'
  BY <1>19 DEF ExitPipe, nodeVars, readVars
<1>20. ASSUME NEW c \in Stopper, NEW n \in Node, Stop(c, n) PROVE Safe'
  BY <1>20 DEF Stop, ExitBegin, Caller, pipeVars, readVars
<1>21. ASSUME NEW c \in Stopper, StopEnd(c) PROVE Safe'
  BY <1>21 DEF StopEnd, WakeReader, Caller, pipeVars, nodeVars
<1> QED
  <2> HIDE DEF TypeOK, Safe
  <2> QED BY <1>2, <1>3, <1>4, <1>5, <1>6, <1>7, <1>8, <1>9, <1>10, <1>11, <1>12, <1>13, <1>14, <1>15,
             <1>16, <1>17, <1>18, <1>19, <1>20, <1>21
          DEF Next, ReaderStep, OwnerStep, StopperStep, Caller

-----------------------------------------------------------------------------
(* Counting the occurrences of a pipe in a queue of notifications *)

\* The occurrences of p in a sequence are finitely many.
LEMMA CountFinite ==
  ASSUME NEW S, NEW s \in Seq(S), NEW p
  PROVE  IsFiniteSet({i \in DOMAIN s : s[i] = p}) /\ Count(s, p) \in Nat
<1>1. IsFiniteSet(1..Len(s))
  BY FS_Interval
<1>2. {i \in DOMAIN s : s[i] = p} \in SUBSET (1..Len(s))
  OBVIOUS
<1>3. IsFiniteSet({i \in DOMAIN s : s[i] = p})
  BY <1>1, <1>2, FS_Subset
<1> QED BY <1>3, FS_CardinalityType DEF Count

\* There is none if p is not in the sequence.
LEMMA CountAbsent ==
  ASSUME NEW S, NEW s \in Seq(S), NEW p, \A i \in DOMAIN s : s[i] # p
  PROVE  Count(s, p) = 0
<1>1. {i \in DOMAIN s : s[i] = p} = {}
  OBVIOUS
<1> QED BY <1>1, FS_EmptySet DEF Count

\* Append adds one exactly if it appends p.
LEMMA CountAppend ==
  ASSUME NEW S, NEW s \in Seq(S), NEW e \in S, NEW p
  PROVE  Count(Append(s, e), p) = Count(s, p) + (IF e = p THEN 1 ELSE 0)
<1> DEFINE A == {i \in DOMAIN s : s[i] = p}
           B == {i \in DOMAIN Append(s, e) : Append(s, e)[i] = p}
<1>1. IsFiniteSet(A) /\ Count(s, p) \in Nat
  BY CountFinite
<1>2. CASE e = p
  <2>1. B = A \cup {Len(s) + 1} /\ Len(s) + 1 \notin A
    BY <1>2
  <2> QED BY <1>1, <1>2, <2>1, FS_AddElement DEF Count
<1>3. CASE e # p
  <2>1. B = A
    BY <1>3
  <2>2. Count(Append(s, e), p) = Count(s, p)
    BY <2>1, Zenon DEF Count
  <2> QED BY <1>1, <1>3, <2>2
<1> QED BY <1>2, <1>3

\* Tail removes one exactly if the head is p.
LEMMA CountTail ==
  ASSUME NEW S, NEW s \in Seq(S), s # <<>>, NEW p
  PROVE  Count(Tail(s), p) = Count(s, p) - (IF Head(s) = p THEN 1 ELSE 0)
<1> DEFINE A == {i \in DOMAIN Tail(s) : Tail(s)[i] = p}
           B == {i \in DOMAIN s : s[i] = p}
           f == [i \in A |-> i + 1]
<1>1. IsFiniteSet(A) /\ IsFiniteSet(B) /\ Count(s, p) \in Nat
  BY CountFinite, Tail(s) \in Seq(S)
<1>2. f \in Bijection(A, B \ {1})
  <2>1. f \in [A -> B \ {1}]
    OBVIOUS
  <2>2. \A i, j \in A : f[i] = f[j] => i = j
    OBVIOUS
  <2>3. \A j \in B \ {1} : \E i \in A : f[i] = j
    <3> TAKE j \in B \ {1}
    <3>1. j - 1 \in A /\ f[j - 1] = j
      OBVIOUS
    <3> QED BY <3>1
  <2> QED BY <2>1, <2>2, <2>3 DEF Bijection, Injection, Surjection, IsInjective
<1>3. Cardinality(A) = Cardinality(B \ {1})
  <2>1. ExistsBijection(A, B \ {1})
    BY <1>2, Zenon DEF ExistsBijection
  <2>2. IsFiniteSet(A)
    BY <1>1
  <2> HIDE DEF A, B, f
  <2> QED BY <2>1, <2>2, FS_Bijection
<1>4. (1 \in B) <=> (Head(s) = p)
  OBVIOUS
<1>5. Cardinality(B \ {1}) = IF 1 \in B THEN Cardinality(B) - 1 ELSE Cardinality(B)
  BY <1>1, FS_RemoveElement
<1>6. Count(s, p) = Cardinality(B) /\ Count(Tail(s), p) = Cardinality(A)
  BY DEF Count
<1> HIDE DEF A, B
<1> QED BY <1>1, <1>3, <1>4, <1>5, <1>6

-----------------------------------------------------------------------------
(* NotStranded *)

\* The number of notifications of a pipe is a number.
LEMMA CountNat ==
  ASSUME TypeOK, NEW n \in Node, NEW p \in Pipe
  PROVE  Count(notify_map[n][Priority[p]], p) \in Nat
<1>1. Priority[p] \in Prio
  BY DEF Prio
<1>2. notify_map[n][Priority[p]] \in Seq(Pipe)
  BY <1>1 DEF TypeOK
<1> QED BY <1>2, CountFinite

\* A step that leaves the queues and the notifications alone.
LEMMA StrandedFrame ==
  ASSUME NotStranded, TypeOK, UNCHANGED <<node, queue, notify_map>>,
         \A n \in Node : pc'[n] = "pop" <=> pc[n] = "pop",
         \A n \in Node : pc[n] = "pop" => vnx_pipe'[n] = vnx_pipe[n]
  PROVE  NotStranded'
<1> SUFFICES ASSUME NEW p \in Pipe, node[p] # None
             PROVE  Len(queue[p]) = Count(notify_map[node[p]][Priority[p]], p) + Held(p)'
  BY DEF NotStranded
<1>1. node[p] \in Node
  BY DEF TypeOK
<1>2. Held(p)' = Held(p)
  BY <1>1 DEF Held
<1> QED BY <1>2 DEF NotStranded

\* Pipe::push() keeps messages and notifications in step.
LEMMA PushStranded ==
  ASSUME TypeOK, NotStranded, UNCHANGED <<node, vnx_pipe>>,
         NEW t \in Thread, NEW p \in Pipe, NEW m \in Message, Push(t, p, m)
  PROVE  NotStranded'
<1>1. CASE PushWait(t, p, m) \/ PushRefuse(t, p, m)
  BY <1>1, StrandedFrame DEF PushWait, PushRefuse
<1> DEFINE n == node[p]
           entry == [msg |-> m, time |-> clock]
<1>2. CASE PushReplace(t, p, m)
  <2>1. queue[p] # <<>> /\ queue[p] \in Seq(Entry) /\ entry \in Entry
    BY <1>2 DEF PushReplace, Evicts, IsFull, TypeOK, Entry
  <2>2. Len(Append(Tail(queue[p]), entry)) = Len(queue[p])
    BY <2>1
  <2>3. \A q \in Pipe : Len(queue'[q]) = Len(queue[q])
    BY <1>2, <2>2 DEF PushReplace, TypeOK
  <2>4. node[p] # None /\ queue'[p] # <<>> /\ \A q \in Pipe : q # p => queue'[q] = queue[q]
    BY <1>2, <2>1 DEF PushReplace, TypeOK
  <2>5. \A q \in Pipe : Held(q)' = Held(q)
    BY <1>2 DEF PushReplace, Held
  <2>6. UNCHANGED <<node, notify_map>>
    BY <1>2 DEF PushReplace
  <2> QED BY <2>3, <2>4, <2>5, <2>6 DEF NotStranded
<1>3. CASE PushAppend(t, p, m)
  <2>1. n \in Node /\ Priority[p] \in Prio /\ n # None
    BY <1>3, ConstantsAssumption DEF PushAppend, TypeOK, Prio
  <2>2. queue' = [queue EXCEPT ![p] = Append(@, entry)] /\ UNCHANGED node
    BY <1>3 DEF PushAppend
  <2>3. notify_map' = [notify_map EXCEPT ![n][Priority[p]] = Append(@, p)]
    BY <1>3 DEF PushAppend, Notify
  <2>4. \A q \in Pipe : node[q] # None => Held(q)' = Held(q)
    BY <1>3, PushPc DEF Held, TypeOK
  <2> SUFFICES ASSUME NEW q \in Pipe
               PROVE  IF node[q] = None
                        THEN queue'[q] = <<>>
                        ELSE Len(queue'[q]) = Count(notify_map'[node[q]][Priority[q]], q) + Held(q)'
    BY <2>2 DEF NotStranded
  <2>5. CASE q = p
    <3>1. queue[p] \in Seq(Entry) /\ entry \in Entry /\ notify_map[n][Priority[p]] \in Seq(Pipe)
      BY <2>1 DEF TypeOK, Entry
    <3>2. Len(queue'[p]) = Len(queue[p]) + 1
      BY <2>2, <3>1 DEF TypeOK
    <3>3. Count(notify_map'[n][Priority[p]], p) = Count(notify_map[n][Priority[p]], p) + 1
      <4>1. notify_map'[n][Priority[p]] = Append(notify_map[n][Priority[p]], p)
        BY <2>1, <2>3 DEF TypeOK
      <4> QED BY <3>1, <4>1, CountAppend
    <3>4. Count(notify_map[n][Priority[p]], p) \in Nat /\ Held(p) \in Nat
      BY <2>1, CountNat DEF Held
    <3>5. Len(queue[p]) = Count(notify_map[n][Priority[p]], p) + Held(p)
      BY <2>1 DEF NotStranded
    <3> QED BY <2>1, <2>4, <2>5, <3>2, <3>3, <3>4, <3>5
  <2>6. CASE q # p /\ node[q] # None
    <3> DEFINE k == node[q]
    <3>1. k \in Node /\ Priority[q] \in Prio
      BY <2>6 DEF TypeOK, Prio
    <3>2. Count(notify_map'[k][Priority[q]], q) = Count(notify_map[k][Priority[q]], q)
      <4>1. CASE k = n /\ Priority[q] = Priority[p]
        <5>1. notify_map'[k][Priority[q]] = Append(notify_map[k][Priority[q]], p)
          BY <2>1, <2>3, <4>1 DEF TypeOK
        <5>2. notify_map[k][Priority[q]] \in Seq(Pipe)
          BY <3>1 DEF TypeOK
        <5>3. Count(notify_map'[k][Priority[q]], q) = Count(notify_map[k][Priority[q]], q) + 0
          BY <2>6, <5>1, <5>2, CountAppend
        <5> QED BY <3>1, <5>3, CountNat
      <4>2. CASE ~(k = n /\ Priority[q] = Priority[p])
        BY <2>1, <2>3, <3>1, <4>2 DEF TypeOK
      <4> QED BY <4>1, <4>2
    <3>3. queue'[q] = queue[q]
      BY <2>2, <2>6 DEF TypeOK
    <3> QED BY <2>4, <2>6, <3>2, <3>3 DEF NotStranded
  <2>7. CASE q # p /\ node[q] = None
    BY <2>2, <2>7 DEF NotStranded, TypeOK
  <2> QED BY <2>5, <2>6, <2>7
<1> QED BY <1>1, <1>2, <1>3 DEF Push

\* So does every other step.
LEMMA NextStranded ==
  TypeOK /\ Shape /\ Owned /\ NotStranded /\ [Next]_vars => NotStranded'
<1> SUFFICES ASSUME TypeOK, Shape, Owned, NotStranded, [Next]_vars PROVE NotStranded'
  OBVIOUS
<1> USE ConstantsAssumption
<1>1. CASE \E t \in Thread, p \in Pipe, k \in Kind : <<t, p>> \in Route /\ Send(t, p, k)
  <2>1. PICK t \in Thread, p \in Pipe, k \in Kind : Send(t, p, k)
    BY <1>1
  <2>2. [src |-> t, num |-> sent[t] + 1, kind |-> k] \in Message
    BY <2>1 DEF Send, Message, TypeOK
  <2> QED BY <2>1, <2>2, PushStranded DEF Send, pushFrame
<1>2. CASE \E t \in Thread : Retry(t)
  BY <1>2, PushStranded DEF Retry, pushFrame, TypeOK, Shape
<1>3. ASSUME NEW p \in Pipe, NEW n \in Node, Connect(p, n) PROVE NotStranded'
  <2>1. UNCHANGED <<queue, notify_map, pc, vnx_pipe>> /\ node[p] = None /\ queue[p] = <<>>
    BY <1>3 DEF Connect, readVars, Owned, NotStranded
  <2>2. CASE ~do_run[n]
    BY <1>3, <2>1, <2>2, StrandedFrame DEF Connect
  <2>3. CASE do_run[n]
    <3>1. node' = [node EXCEPT ![p] = n]
      BY <1>3, <2>3, Zenon DEF Connect
    <3>2. Count(notify_map[n][Priority[p]], p) = 0
      <4>1. Priority[p] \in Prio
        BY DEF Prio
      <4>2. notify_map[n][Priority[p]] \in Seq(Pipe)
        BY <4>1 DEF TypeOK
      <4>3. \A i \in DOMAIN notify_map[n][Priority[p]] : notify_map[n][Priority[p]][i] # p
        BY <1>3, <4>1 DEF Connect, Owned
      <4> QED BY <4>2, <4>3, CountAbsent
    <3>3. node'[p] = n /\ Held(p)' = 0
      BY <1>3, <2>1, <3>1 DEF Connect, Held, Owned, TypeOK
    <3>4. \A q \in Pipe : q # p => node'[q] = node[q] /\ Held(q)' = Held(q)
      BY <2>1, <3>1 DEF Held, TypeOK
    <3>5. n # None /\ Len(<<>>) = 0
      OBVIOUS
    <3>6. Len(queue'[p]) = Count(notify_map'[n][Priority[p]], p) + Held(p)'
      BY <2>1, <3>2, <3>3, <3>5
    <3>7. \A q \in Pipe : q # p =>
             IF node'[q] = None
               THEN queue'[q] = <<>>
               ELSE Len(queue'[q]) = Count(notify_map'[node'[q]][Priority[q]], q) + Held(q)'
      BY <2>1, <3>4 DEF NotStranded
    <3> QED BY <3>3, <3>5, <3>6, <3>7 DEF NotStranded
  <2> QED BY <2>2, <2>3
<1>4. ASSUME NEW p \in Pipe, ClosePipe(p) \/ \E n \in Node : CloseEach(n, p) PROVE NotStranded'
  <2>1. PipeClose(p) /\ UNCHANGED <<notify_map, pc, vnx_pipe>>
    BY <1>4 DEF ClosePipe, CloseEach, readVars
  <2>2. node' = [node EXCEPT ![p] = None] /\ queue' = [queue EXCEPT ![p] = <<>>]
    BY <2>1 DEF PipeClose
  <2>3. \A q \in Pipe : q # p => node'[q] = node[q] /\ queue'[q] = queue[q] /\ Held(q)' = Held(q)
    BY <2>1, <2>2 DEF Held, TypeOK
  <2>4. node'[p] = None /\ queue'[p] = <<>>
    BY <2>2 DEF TypeOK
  <2> QED BY <2>1, <2>3, <2>4 DEF NotStranded
<1>5. ASSUME NEW n \in Node, ReadNext(n) PROVE NotStranded'
  <2>1. PICK r \in Prio : /\ notify_map[n][r] # <<>>
                          /\ vnx_pipe' = [vnx_pipe EXCEPT ![n] = Head(notify_map[n][r])]
                          /\ notify_map' = [notify_map EXCEPT ![n][r] = Tail(@)]
    BY <1>5 DEF ReadNext, Notified
  <2> DEFINE h == Head(notify_map[n][r])
  <2>2. /\ pc[n] = "lock" /\ pc' = [pc EXCEPT ![n] = "pop"]
        /\ UNCHANGED <<node, queue>>
    BY <1>5 DEF ReadNext, pipeVars
  <2>3. notify_map[n][r] \in Seq(Pipe) /\ h = notify_map[n][r][1] /\ 1 \in DOMAIN notify_map[n][r]
    BY <2>1 DEF TypeOK
  <2>4. h \in Pipe /\ Priority[h] = r
    BY <2>3 DEF Owned
  <2> SUFFICES ASSUME NEW p \in Pipe, node[p] # None
               PROVE  Len(queue[p]) = Count(notify_map'[node[p]][Priority[p]], p) + Held(p)'
    BY <2>2 DEF NotStranded
  <2>5. Len(queue[p]) = Count(notify_map[node[p]][Priority[p]], p) + Held(p) /\ node[p] \in Node
    BY DEF NotStranded, TypeOK
  <2>6. CASE node[p] # n
    <3>1. Held(p)' = Held(p)
      BY <2>1, <2>2, <2>5, <2>6 DEF Held, TypeOK
    <3>2. notify_map'[node[p]] = notify_map[node[p]]
      BY <2>1, <2>5, <2>6 DEF TypeOK
    <3> QED BY <2>5, <3>1, <3>2
  <2>7. CASE node[p] = n
    <3>1. Held(p) = 0 /\ Held(p)' = (IF h = p THEN 1 ELSE 0)
      BY <2>1, <2>2, <2>5, <2>7 DEF Held, TypeOK
    <3>2. CASE Priority[p] = r
      <4>1. notify_map'[n][r] = Tail(notify_map[n][r])
        BY <2>1 DEF TypeOK
      <4>2. Count(Tail(notify_map[n][r]), p) = Count(notify_map[n][r], p) - (IF h = p THEN 1 ELSE 0)
        BY <2>1, <2>3, CountTail
      <4>3. Count(notify_map[n][r], p) \in Nat
        BY <2>3, CountFinite
      <4> QED BY <2>5, <2>7, <3>1, <3>2, <4>1, <4>2, <4>3
    <3>3. CASE Priority[p] # r
      <4>1. notify_map'[n][Priority[p]] = notify_map[n][Priority[p]]
        BY <2>1, <3>3 DEF TypeOK, Prio
      <4> QED BY <2>4, <2>5, <2>7, <3>1, <3>3, <4>1
    <3> QED BY <3>2, <3>3
  <2> QED BY <2>6, <2>7
<1>6. ASSUME NEW n \in Node, ReadPop(n) PROVE NotStranded'
  <2> DEFINE h == vnx_pipe[n]
  <2>1. /\ pc[n] = "pop" /\ queue[h] # <<>> /\ queue' = [queue EXCEPT ![h] = Tail(@)]
        /\ pc' = [pc EXCEPT ![n] = "signal"] /\ UNCHANGED <<node, notify_map, vnx_pipe>>
    BY <1>6 DEF ReadPop, nodeVars
  <2>2. h \in Pipe /\ node[h] = n
    BY <2>1 DEF Shape, Owned, TypeOK, NotStranded
  <2>3. queue'[h] = Tail(queue[h]) /\ Len(queue'[h]) = Len(queue[h]) - 1
    BY <2>1, <2>2 DEF TypeOK
  <2>4. Held(h) = 1 /\ Held(h)' = 0
    BY <2>1, <2>2 DEF Held, TypeOK
  <2>5. Len(queue[h]) = Count(notify_map[n][Priority[h]], h) + 1 /\ n # None
    BY <2>2, <2>4 DEF NotStranded
  <2>6. Count(notify_map[n][Priority[h]], h) \in Nat
    BY <2>2, CountNat
  <2>7. Len(queue'[h]) = Count(notify_map'[n][Priority[h]], h) + Held(h)'
    BY <2>1, <2>3, <2>4, <2>5, <2>6
  <2>8. \A p \in Pipe : p # h => queue'[p] = queue[p] /\ (node[p] # None => Held(p)' = Held(p))
    BY <2>1, <2>2 DEF Held, TypeOK
  <2> QED BY <2>1, <2>2, <2>5, <2>7, <2>8, SMTT(60) DEF NotStranded
<1>7. ASSUME NEW n \in Node, ReadPopEmpty(n) PROVE NotStranded'
  <2> DEFINE h == vnx_pipe[n]
  <2>1. /\ pc[n] = "pop" /\ queue[h] = <<>> /\ pc' = [pc EXCEPT ![n] = "signal"]
        /\ UNCHANGED <<node, queue, notify_map, vnx_pipe>>
    BY <1>7 DEF ReadPopEmpty, pipeVars, nodeVars
  <2>2. h \in Pipe /\ node[h] \in {n, None} /\ n # None
    BY <2>1 DEF Shape, Owned, TypeOK
  <2>3. node[h] = None
    <3> SUFFICES ASSUME node[h] = n PROVE FALSE
      BY <2>2
    <3>1. Held(h) = 1 /\ Len(queue[h]) = 0
      BY <2>1 DEF Held
    <3>2. Count(notify_map[n][Priority[h]], h) \in Nat
      BY <2>2, CountNat
    <3> QED BY <2>2, <3>1, <3>2, SMTT(60) DEF NotStranded
  <2>4. \A p \in Pipe : node[p] # None => Held(p)' = Held(p)
    BY <2>1, <2>3 DEF Held, TypeOK
  <2> QED BY <2>1, <2>4 DEF NotStranded
<1>8. CASE \/ \E t \in Thread : SpuriousWake(t)
           \/ \E p \in Pipe : Pause(p) \/ Resume(p)
           \/ \E c \in Caller, p \in Pipe : ExitPipe(c, p)
           \/ \E c \in Stopper, n \in Node : Stop(c, n)
           \/ Tick \/ UNCHANGED vars
  BY <1>8, StrandedFrame DEF SpuriousWake, Pause, Resume, ExitPipe, Stop, Tick, vars, pipeVars, nodeVars, readVars
<1>9. ASSUME NEW n \in Node, \/ \E md \in ReadMode : ReadBegin(n, md)
                             \/ ReadCheck(n) \/ ReadWait(n) \/ ReadWake(n) \/ ReadNull(n)
      PROVE  NotStranded'
  BY <1>9, StrandedFrame DEF ReadBegin, ReadCheck, ReadWait, ReadWake, ReadNull, AfterRead, pipeVars, nodeVars, TypeOK
<1>10. ASSUME NEW n \in Node, ReadReturn(n) \/ ReadAgain(n) \/ ReadDone(n) PROVE NotStranded'
  BY <1>10, StrandedFrame DEF ReadReturn, ReadAgain, ReadDone, signalFrame, pipeVars, nodeVars, TypeOK
<1>11. ASSUME NEW n \in Node, Cleanup(n) \/ CleanupRead(n) \/ CloseBegin(n) \/ Restart(n) \/ CloseEnd(n)
       PROVE  NotStranded'
  BY <1>11, StrandedFrame DEF Cleanup, CleanupRead, CloseBegin, CloseEnd, Restart, pipeVars, nodeVars, readVars, TypeOK
<1>12. ASSUME NEW c \in Stopper, StopEnd(c) PROVE NotStranded'
  BY <1>12, StrandedFrame DEF StopEnd, WakeReader, Caller, pipeVars, nodeVars, TypeOK
<1> QED
  BY <1>1, <1>2, <1>3, <1>4, <1>5, <1>6, <1>7, <1>8, <1>9, <1>10, <1>11, <1>12
     DEF Next, ReaderStep, OwnerStep, StopperStep, Caller

-----------------------------------------------------------------------------
(* The inductive invariant *)

\* The invariant holds initially.
LEMMA InitInv == Init => IndInv
<1> SUFFICES ASSUME Init PROVE IndInv
  OBVIOUS
<1>1. TypeOK
  BY InitType
<1>2. \A p \in Pipe : node[p] = None /\ queue[p] = <<>>
  BY DEF Init
<1>3. Shape /\ Owned /\ Stopping
  BY ConstantsAssumption DEF Init, Shape, Owned, Stopping, Caller
<1>4. NotStranded /\ NoDanglingNode /\ ExitShutsPipes
  BY <1>2, ConstantsAssumption DEF NotStranded, NoDanglingNode, ExitShutsPipes
<1> QED BY <1>1, <1>3, <1>4 DEF IndInv

\* Every step preserves the invariant.
LEMMA NextInv == IndInv /\ [Next]_vars => IndInv'
  BY NextType, NextShape, NextOwned, NextStopping, NextStranded DEF IndInv

\* IndInv holds in every reachable state of every instance.
THEOREM Invariance == Spec => []IndInv
<1>1. Init => IndInv
  BY InitInv
<1>2. IndInv /\ [Next]_vars => IndInv'
  BY NextInv
<1> QED BY <1>1, <1>2, PTL DEF Spec

\* Every variable keeps its type.
THEOREM TypeCorrect == Spec => []TypeOK
<1>1. IndInv => TypeOK
  BY DEF IndInv
<1> QED BY <1>1, Invariance, PTL

\* Every message in the queue of a pipe has its notification, however pushes,
\* replacements, reads and closes interleave (Pipe::push, Node::pop_next).
THEOREM NothingStranded == Spec => []NotStranded
<1>1. IndInv => NotStranded
  BY DEF IndInv
<1> QED BY <1>1, Invariance, PTL

\* A node that has closed is referenced by no pipe (Node::add_pipe, close).
THEOREM ClosedIsUnreferenced == Spec => []NoDanglingNode
<1>1. IndInv => NoDanglingNode
  BY DEF IndInv
<1> QED BY <1>1, Invariance, PTL

\* When exit() has returned to the module all its pipes refuse (Node::exit).
THEOREM ExitRefuses == Spec => []ExitShutsPipes
<1>1. IndInv => ExitShutsPipes
  BY DEF IndInv
<1> QED BY <1>1, Invariance, PTL

-----------------------------------------------------------------------------
(* RequestsKept and QueueBounded *)

\* How one push may change a queue and the fate of messages.
LEMMA PushKeeps ==
  ASSUME TypeOK, RequestsKept, QueueBounded,
         NEW t \in Thread, NEW p \in Pipe, NEW m \in Message, Push(t, p, m)
  PROVE  RequestsKept' /\ QueueBounded'
<1> USE ConstantsAssumption DEF TypeOK, RequestsKept, QueueBounded
<1> DEFINE entry == [msg |-> m, time |-> clock]
<1>0. queue[p] \in Seq(Entry) /\ entry \in Entry
  BY DEF Entry
<1>1. CASE PushWait(t, p, m)
  BY <1>1 DEF PushWait
<1>2. CASE PushRefuse(t, p, m)
  BY <1>2 DEF PushRefuse
<1>3. CASE PushAppend(t, p, m)
  <2>1. MaxSize[p] > 0 => Len(queue[p]) + 1 <= MaxSize[p]
    <3>1. ~IsFull(p)
      BY <1>3 DEF PushAppend, MustWait
    <3> QED BY <1>0, <3>1 DEF IsFull
  <2>2. Len(Append(queue[p], entry)) = Len(queue[p]) + 1
    BY <1>0
  <2>3. QueueBounded'
    BY <1>3, <2>1, <2>2 DEF PushAppend
  <2> QED BY <1>3, <2>3 DEF PushAppend
<1>4. CASE PushReplace(t, p, m)
  <2>1. queue[p] # <<>> /\ ~BLOCKING(Head(queue[p]).msg) /\ Head(queue[p]).msg \in Message
    <3>1. queue[p] # <<>> /\ ~BLOCKING(Head(queue[p]).msg)
      BY <1>4 DEF PushReplace, Evicts, IsFull
    <3>2. Head(queue[p]) \in Entry
      BY <1>0, <3>1
    <3> QED BY <3>1, <3>2 DEF Entry
  <2>2. Len(Append(Tail(queue[p]), entry)) = Len(queue[p])
    BY <1>0, <2>1
  <2>3. QueueBounded'
    BY <1>4, <2>2 DEF PushReplace
  <2>4. RequestsKept'
    BY <1>4, <2>1 DEF PushReplace, BLOCKING
  <2> QED BY <2>3, <2>4
<1> QED BY <1>1, <1>2, <1>3, <1>4 DEF Push

\* Every step keeps requests and the bound of the queues.
LEMMA NextKeeps ==
  TypeOK /\ Shape /\ RequestsKept /\ QueueBounded /\ [Next]_vars => RequestsKept' /\ QueueBounded'
<1> SUFFICES ASSUME TypeOK, Shape, RequestsKept, QueueBounded, [Next]_vars
             PROVE  RequestsKept' /\ QueueBounded'
  OBVIOUS
<1> USE ConstantsAssumption
<1>1. CASE \E t \in Thread, p \in Pipe, k \in Kind : <<t, p>> \in Route /\ Send(t, p, k)
  <2>1. PICK t \in Thread, p \in Pipe, k \in Kind : Send(t, p, k)
    BY <1>1
  <2>2. [src |-> t, num |-> sent[t] + 1, kind |-> k] \in Message
    BY <2>1 DEF Send, Message, TypeOK
  <2> QED BY <2>1, <2>2, PushKeeps DEF Send
<1>2. CASE \E t \in Thread : Retry(t)
  BY <1>2, PushKeeps DEF Retry, TypeOK, Shape
<1>3. ASSUME NEW p \in Pipe, ClosePipe(p) \/ \E n \in Node : CloseEach(n, p)
      PROVE  RequestsKept' /\ QueueBounded'
  <2>1. PipeClose(p)
    BY <1>3 DEF ClosePipe, CloseEach
  <2>2. QueueBounded'
    BY <2>1 DEF PipeClose, QueueBounded, TypeOK
  <2>3. RequestsKept'
    BY <2>1 DEF PipeClose, RequestsKept, TypeOK, IsRequest, BLOCKING
  <2> QED BY <2>2, <2>3
<1>4. ASSUME NEW n \in Node, ReadPop(n) PROVE RequestsKept' /\ QueueBounded'
  <2>1. vnx_pipe[n] \in Pipe /\ queue[vnx_pipe[n]] # <<>>
    BY <1>4 DEF ReadPop, Shape, TypeOK
  <2>2. queue[vnx_pipe[n]] \in Seq(Entry) /\ Len(Tail(queue[vnx_pipe[n]])) = Len(queue[vnx_pipe[n]]) - 1
    BY <2>1 DEF TypeOK
  <2>3. QueueBounded'
    BY <1>4, <2>1, <2>2 DEF ReadPop, QueueBounded, TypeOK
  <2>4. RequestsKept'
    BY <1>4 DEF ReadPop, RequestsKept, TypeOK
  <2> QED BY <2>3, <2>4
<1>5. CASE UNCHANGED <<queue, fate>>
  BY <1>5 DEF RequestsKept, QueueBounded
<1>6. ASSUME NEW n \in Node, ReaderStep(n), ~ReadPop(n) PROVE UNCHANGED <<queue, fate>>
  BY <1>6 DEF ReaderStep, ReadBegin, ReadCheck, ReadNext, ReadWait, ReadNull, ReadPopEmpty, ReadReturn,
              ReadAgain, ReadDone, signalFrame, pipeVars
<1>7. ASSUME NEW n \in Node, OwnerStep(n), ~\E p \in Pipe : CloseEach(n, p) PROVE UNCHANGED <<queue, fate>>
  BY <1>7 DEF OwnerStep, Cleanup, CleanupRead, CloseBegin, CloseEnd, ExitPipe, pipeVars
<1>8. CASE \/ \E p \in Pipe, n \in Node : Connect(p, n)
           \/ \E p \in Pipe : Pause(p) \/ Resume(p)
           \/ \E t \in Thread : SpuriousWake(t)
           \/ \E n \in Node : ReadWake(n) \/ Restart(n)
           \/ \E c \in Stopper : StopperStep(c) \/ \E n \in Node : Stop(c, n)
           \/ Tick \/ UNCHANGED vars
  BY <1>5, <1>8 DEF Connect, Pause, Resume, SpuriousWake, ReadWake, Restart, StopperStep, StopEnd, ExitPipe,
                    Stop, Tick, vars, pipeVars
<1> QED BY <1>1, <1>2, <1>3, <1>4, <1>5, <1>6, <1>7, <1>8 DEF Next

\* Requests and blocking messages are never replaced, requests never dropped by
\* close(), and no queue exceeds its size (Pipe::push, Pipe::close).
THEOREM KeptAndBounded == Spec => [](RequestsKept /\ QueueBounded)
<1>1. Init => RequestsKept /\ QueueBounded
  <2> SUFFICES ASSUME Init PROVE RequestsKept /\ QueueBounded
    OBVIOUS
  <2>1. \A p \in Pipe : Len(queue[p]) = 0
    BY DEF Init
  <2> QED BY <2>1, ConstantsAssumption DEF Init, RequestsKept, QueueBounded
<1>2. IndInv /\ RequestsKept /\ QueueBounded /\ [Next]_vars => (RequestsKept /\ QueueBounded)'
  BY NextKeeps DEF IndInv
<1> QED BY <1>1, <1>2, Invariance, PTL DEF Spec

-----------------------------------------------------------------------------
(* LatencyBounded *)

\* The messages of a queue are in the order of their times.
InOrder(q) == \A i, j \in DOMAIN q : i <= j => q[i].time <= q[j].time

\* No message of a queue is from later than time c.
UpTo(q, c) == \A i \in DOMAIN q : q[i].time <= c

\* All but the newest message of a queue are from less than max after the oldest.
Within(q, max) == \A i \in 1..(Len(q) - 1) : max > 0 => q[i].time - Head(q).time < max

\* The queues are in the order in which Pipe::push() filled them.
Chronological == \A p \in Pipe : InOrder(queue[p]) /\ UpTo(queue[p], clock)

\* Times are numbers.
LEMMA EntryTime ==
  /\ \A e \in Entry : e.time \in Nat
  /\ \A q \in Seq(Entry) : \A i \in DOMAIN q : q[i].time \in Nat
<1>1. \A e \in Entry : e.time \in Nat
  BY ConstantsAssumption DEF Entry
<1>2. \A q \in Seq(Entry) : \A i \in DOMAIN q : q[i] \in Entry
  OBVIOUS
<1> QED BY <1>1, <1>2

\* A message pushed now keeps a queue in order.
LEMMA AppendInOrder ==
  ASSUME NEW q \in Seq(Entry), NEW e \in Entry, InOrder(q), UpTo(q, e.time)
  PROVE  InOrder(Append(q, e)) /\ UpTo(Append(q, e), e.time)
<1>1. e.time \in Nat
  BY EntryTime
<1>2. /\ DOMAIN Append(q, e) = 1..(Len(q) + 1)
      /\ \A i \in 1..Len(q) : Append(q, e)[i] = q[i]
      /\ Append(q, e)[Len(q) + 1] = e
  OBVIOUS
<1>3. DOMAIN q = 1..Len(q) /\ Len(q) \in Nat
  OBVIOUS
<1>4. UpTo(Append(q, e), e.time)
  <2> SUFFICES ASSUME NEW i \in 1..(Len(q) + 1) PROVE Append(q, e)[i].time <= e.time
    BY <1>2 DEF UpTo
  <2>1. CASE i = Len(q) + 1
    BY <1>1, <1>2, <2>1
  <2>2. CASE i \in 1..Len(q)
    BY <1>2, <1>3, <2>2 DEF UpTo
  <2> QED BY <1>3, <2>1, <2>2
<1>5. InOrder(Append(q, e))
  <2> SUFFICES ASSUME NEW i \in 1..(Len(q) + 1), NEW j \in 1..(Len(q) + 1), i <= j
               PROVE  Append(q, e)[i].time <= Append(q, e)[j].time
    BY <1>2 DEF InOrder
  <2>1. CASE j = Len(q) + 1
    BY <1>2, <1>4, <2>1 DEF UpTo
  <2>2. CASE j \in 1..Len(q)
    <3>1. i \in 1..Len(q)
      BY <1>3, <2>2
    <3> QED BY <1>2, <1>3, <2>2, <3>1 DEF InOrder
  <2> QED BY <1>3, <2>1, <2>2
<1> QED BY <1>4, <1>5

\* Taking the oldest message keeps a queue in order and within its latency.
LEMMA TailInOrder ==
  ASSUME NEW q \in Seq(Entry), q # <<>>, InOrder(q), NEW c \in Nat, UpTo(q, c)
  PROVE  /\ Tail(q) \in Seq(Entry) /\ InOrder(Tail(q)) /\ UpTo(Tail(q), c)
         /\ \A max \in Nat : Within(q, max) => Within(Tail(q), max)
<1>0. \A i \in 1..Len(q) : q[i].time \in Nat
  BY EntryTime
<1>1. /\ Tail(q) \in Seq(Entry) /\ Len(Tail(q)) = Len(q) - 1 /\ Len(q) \in Nat
      /\ DOMAIN q = 1..Len(q) /\ DOMAIN Tail(q) = 1..(Len(q) - 1)
      /\ \A i \in 1..(Len(q) - 1) : Tail(q)[i] = q[i + 1]
  OBVIOUS
<1>2. InOrder(Tail(q)) /\ UpTo(Tail(q), c)
  BY <1>1, SMTT(60) DEF InOrder, UpTo
<1>3. ASSUME NEW max \in Nat, max > 0, Within(q, max), NEW i \in 1..(Len(Tail(q)) - 1)
      PROVE  Tail(q)[i].time - Head(Tail(q)).time < max
  <2>1. i + 1 \in 1..(Len(q) - 1) /\ i \in 1..(Len(q) - 1) /\ 1 \in 1..Len(q) /\ 2 \in 1..Len(q)
    BY <1>1, <1>3
  <2>2. Tail(q)[i] = q[i + 1] /\ Head(Tail(q)) = q[2] /\ Head(q) = q[1]
    BY <1>1, <2>1
  <2>3. q[i + 1].time - q[1].time < max
    BY <1>3, <2>1, <2>2 DEF Within
  <2>4. q[1].time <= q[2].time
    BY <1>1, <2>1 DEF InOrder
  <2>5. q[1].time \in Nat /\ q[2].time \in Nat /\ q[i + 1].time \in Nat
    BY <1>0, <1>1, <2>1
  <2> QED BY <2>2, <2>3, <2>4, <2>5, SMTT(60)
<1>4. \A max \in Nat : Within(q, max) => Within(Tail(q), max)
  BY <1>3 DEF Within
<1> QED BY <1>1, <1>2, <1>4

\* A queue whose newest message is within the latency takes one more.
LEMMA AppendWithin ==
  ASSUME NEW q \in Seq(Entry), NEW e \in Entry, NEW max \in Nat, InOrder(q),
         q # <<>> /\ max > 0 => q[Len(q)].time - Head(q).time < max
  PROVE  Within(Append(q, e), max)
<1> SUFFICES ASSUME max > 0, NEW i \in 1..(Len(Append(q, e)) - 1)
             PROVE  Append(q, e)[i].time - Head(Append(q, e)).time < max
  BY DEF Within
<1>1. Len(Append(q, e)) = Len(q) + 1 /\ Len(q) \in Nat /\ DOMAIN q = 1..Len(q)
  OBVIOUS
<1>2. i \in 1..Len(q) /\ 1 \in 1..Len(q) /\ Len(q) \in 1..Len(q) /\ q # <<>>
  BY <1>1
<1>3. Append(q, e)[i] = q[i] /\ Head(Append(q, e)) = q[1] /\ Head(q) = q[1]
  BY <1>1, <1>2
<1>4. q[i].time <= q[Len(q)].time /\ q[Len(q)].time - q[1].time < max
  BY <1>1, <1>2, <1>3 DEF InOrder
<1>5. q[i].time \in Nat /\ q[1].time \in Nat /\ q[Len(q)].time \in Nat
  BY <1>1, <1>2, EntryTime
<1> QED BY <1>3, <1>4, <1>5, SMTT(60)

\* What the proof adds to TypeOK.
InTime == Chronological /\ LatencyBounded

\* One push keeps the queues in order and within their latency.
LEMMA PushInTime ==
  ASSUME TypeOK, InTime, UNCHANGED clock,
         NEW t \in Thread, NEW p \in Pipe, NEW m \in Message, Push(t, p, m)
  PROVE  InTime'
<1> DEFINE entry == [msg |-> m, time |-> clock]
<1>0. /\ queue[p] \in Seq(Entry) /\ entry \in Entry /\ clock \in Nat /\ entry.time = clock
      /\ InOrder(queue[p]) /\ UpTo(queue[p], clock) /\ MaxUs[p] \in Nat
  <2>1. queue[p] \in Seq(Entry) /\ clock \in 0..MaxTime
    BY DEF TypeOK
  <2>2. entry \in Entry /\ clock \in Nat /\ MaxUs[p] \in Nat
    BY <2>1, ConstantsAssumption DEF Entry
  <2>3. InOrder(queue[p]) /\ UpTo(queue[p], clock)
    BY DEF InTime, Chronological
  <2> QED BY <2>1, <2>2, <2>3
<1>1. CASE UNCHANGED queue
  BY <1>1 DEF InTime, Chronological, LatencyBounded
<1>2. ASSUME NEW q, queue' = [queue EXCEPT ![p] = q], InOrder(q), UpTo(q, clock),
             p \notin Latest => Within(q, MaxUs[p])
      PROVE  InTime'
  <2>1. queue'[p] = q /\ \A r \in Pipe \ {p} : queue'[r] = queue[r]
    BY <1>2 DEF TypeOK
  <2>2. Chronological'
    BY <1>2, <2>1 DEF InTime, Chronological
  <2>3. LatencyBounded'
    BY <1>2, <2>1 DEF InTime, LatencyBounded, Within
  <2> QED BY <2>2, <2>3 DEF InTime
<1>3. CASE PushAppend(t, p, m)
  <2>1. ~IsFull(p)
    BY <1>3 DEF PushAppend, MustWait
  <2>2. Within(Append(queue[p], entry), MaxUs[p])
    <3>1. queue[p] # <<>> /\ MaxUs[p] > 0 => queue[p][Len(queue[p])].time - Head(queue[p]).time < MaxUs[p]
      <4> SUFFICES ASSUME queue[p] # <<>>, MaxUs[p] > 0
                   PROVE  queue[p][Len(queue[p])].time - Head(queue[p]).time < MaxUs[p]
        OBVIOUS
      <4>1. queue[p][Len(queue[p])] \in Entry /\ Head(queue[p]) \in Entry
        BY <1>0
      <4>2. queue[p][Len(queue[p])].time \in Nat /\ Head(queue[p]).time \in Nat
        BY <4>1, ConstantsAssumption DEF Entry
      <4> QED BY <1>0, <2>1, <4>2 DEF IsFull
    <3> QED BY <1>0, <3>1, AppendWithin
  <2>3. InOrder(Append(queue[p], entry)) /\ UpTo(Append(queue[p], entry), clock)
    BY <1>0, AppendInOrder
  <2>4. queue' = [queue EXCEPT ![p] = Append(queue[p], entry)]
    BY <1>3 DEF PushAppend
  <2> QED BY <1>2, <2>2, <2>3, <2>4
<1>4. CASE PushReplace(t, p, m)
  <2>1. queue[p] # <<>> /\ p \in Latest
    BY <1>4 DEF PushReplace, Evicts, IsFull
  <2>2. Tail(queue[p]) \in Seq(Entry) /\ InOrder(Tail(queue[p])) /\ UpTo(Tail(queue[p]), clock)
    BY <1>0, <2>1, TailInOrder
  <2>3. InOrder(Append(Tail(queue[p]), entry)) /\ UpTo(Append(Tail(queue[p]), entry), clock)
    BY <1>0, <2>2, AppendInOrder
  <2>4. queue' = [queue EXCEPT ![p] = Append(Tail(queue[p]), entry)]
    BY <1>4 DEF PushReplace
  <2> QED BY <1>2, <2>1, <2>3, <2>4
<1> QED BY <1>1, <1>3, <1>4 DEF Push, PushWait, PushRefuse

\* Every step keeps the queues in order and within their latency.
LEMMA NextInTime == TypeOK /\ Shape /\ InTime /\ [Next]_vars => InTime'
<1> SUFFICES ASSUME TypeOK, Shape, InTime, [Next]_vars PROVE InTime'
  OBVIOUS
<1> USE ConstantsAssumption
<1>1. CASE \E t \in Thread, p \in Pipe, k \in Kind : <<t, p>> \in Route /\ Send(t, p, k)
  <2>1. PICK t \in Thread, p \in Pipe, k \in Kind : Send(t, p, k)
    BY <1>1
  <2>2. [src |-> t, num |-> sent[t] + 1, kind |-> k] \in Message
    BY <2>1 DEF Send, Message, TypeOK
  <2> QED BY <2>1, <2>2, PushInTime DEF Send, pushFrame
<1>2. CASE \E t \in Thread : Retry(t)
  BY <1>2, PushInTime DEF Retry, TypeOK, Shape, pushFrame
<1>3. ASSUME NEW p \in Pipe, ClosePipe(p) \/ \E n \in Node : CloseEach(n, p)
      PROVE  InTime'
  <2>1. PipeClose(p) /\ UNCHANGED clock
    BY <1>3 DEF ClosePipe, CloseEach
  <2>2. queue'[p] = <<>> /\ \A r \in Pipe \ {p} : queue'[r] = queue[r]
    BY <2>1 DEF PipeClose, TypeOK
  <2>3. \A max : Within(<<>>, max)
    BY DEF Within
  <2>4. Chronological'
    <3>1. DOMAIN (queue'[p]) = {}
      BY <2>2
    <3>2. InOrder(queue'[p]) /\ UpTo(queue'[p], clock)
      BY <3>1 DEF InOrder, UpTo
    <3> QED BY <2>1, <2>2, <3>2 DEF InTime, Chronological
  <2>5. LatencyBounded'
    BY <2>2, <2>3 DEF InTime, LatencyBounded, Within
  <2> QED BY <2>4, <2>5 DEF InTime
<1>4. ASSUME NEW n \in Node, ReadPop(n) PROVE InTime'
  <2>1. PICK p \in Pipe : p = vnx_pipe[n] /\ queue[p] # <<>>
    BY <1>4 DEF ReadPop, Shape, TypeOK
  <2>2. queue' = [queue EXCEPT ![p] = Tail(queue[p])] /\ UNCHANGED clock
    BY <1>4, <2>1 DEF ReadPop
  <2>3. queue'[p] = Tail(queue[p]) /\ \A r \in Pipe \ {p} : queue'[r] = queue[r]
    BY <2>2 DEF TypeOK
  <2>4. /\ InOrder(Tail(queue[p])) /\ UpTo(Tail(queue[p]), clock)
        /\ Within(queue[p], MaxUs[p]) => Within(Tail(queue[p]), MaxUs[p])
    BY <2>1, TailInOrder DEF TypeOK, InTime, Chronological
  <2>5. Chronological'
    BY <2>2, <2>3, <2>4 DEF InTime, Chronological
  <2>6. LatencyBounded'
    BY <2>3, <2>4 DEF InTime, LatencyBounded, Within
  <2> QED BY <2>5, <2>6 DEF InTime
<1>5. CASE UNCHANGED <<queue, clock>>
  BY <1>5 DEF InTime, Chronological, LatencyBounded
<1>6. CASE Tick
  <2>1. UNCHANGED queue /\ clock' \in Nat /\ clock \in Nat /\ clock <= clock'
    BY <1>6 DEF Tick, TypeOK, pipeVars
  <2>2. \A p \in Pipe : \A i \in DOMAIN queue[p] : queue[p][i].time \in Nat
    BY EntryTime DEF TypeOK
  <2>3. Chronological'
    BY <2>1, <2>2 DEF InTime, Chronological, UpTo
  <2>4. LatencyBounded'
    BY <2>1 DEF InTime, LatencyBounded
  <2> QED BY <2>3, <2>4 DEF InTime
<1>7. ASSUME NEW n \in Node, ReaderStep(n), ~ReadPop(n) PROVE UNCHANGED <<queue, clock>>
  BY <1>7 DEF ReaderStep, ReadBegin, ReadCheck, ReadNext, ReadWait, ReadNull, ReadPopEmpty, ReadReturn,
              ReadAgain, ReadDone, signalFrame, pipeVars
<1>8. ASSUME NEW n \in Node, OwnerStep(n), ~\E p \in Pipe : CloseEach(n, p) PROVE UNCHANGED <<queue, clock>>
  BY <1>8 DEF OwnerStep, Cleanup, CleanupRead, CloseBegin, CloseEnd, ExitPipe, pipeVars
<1>9. CASE \/ \E p \in Pipe, n \in Node : Connect(p, n)
           \/ \E p \in Pipe : Pause(p) \/ Resume(p)
           \/ \E t \in Thread : SpuriousWake(t)
           \/ \E n \in Node : ReadWake(n) \/ Restart(n)
           \/ \E c \in Stopper : StopperStep(c) \/ \E n \in Node : Stop(c, n)
           \/ UNCHANGED vars
  BY <1>5, <1>9 DEF Connect, Pause, Resume, SpuriousWake, ReadWake, Restart, StopperStep, StopEnd, ExitPipe,
                    Stop, vars, pipeVars
<1> QED BY <1>1, <1>2, <1>3, <1>4, <1>5, <1>6, <1>7, <1>8, <1>9 DEF Next

\* But for the newest, the messages of a pipe of the default mode are from less
\* than max_queue_us after the oldest (Pipe::push).
THEOREM LatencyKept == Spec => []LatencyBounded
<1>1. Init => InTime
  BY DEF Init, InTime, Chronological, LatencyBounded, InOrder, UpTo
<1>2. IndInv /\ InTime /\ [Next]_vars => InTime'
  BY NextInTime DEF IndInv
<1>3. InTime => LatencyBounded
  BY DEF InTime
<1> QED BY <1>1, <1>2, <1>3, Invariance, PTL DEF Spec

-----------------------------------------------------------------------------
(* The messages of a queue. *)

\* The messages of a queue are a sequence of the same length.
LEMMA MsgsSeq ==
  ASSUME NEW q \in Seq(Entry)
  PROVE  /\ Msgs(q) \in Seq(Message) /\ Len(Msgs(q)) = Len(q)
         /\ \A i \in 1..Len(q) : Msgs(q)[i] = q[i].msg
<1>1. \A i \in 1..Len(q) : q[i].msg \in Message
  <2>1. \A i \in 1..Len(q) : q[i] \in Entry
    OBVIOUS
  <2> QED BY <2>1 DEF Entry
<1>2. DOMAIN q = 1..Len(q) /\ Len(q) \in Nat
  OBVIOUS
<1> QED BY <1>1, <1>2 DEF Msgs

\* What push() does to the messages of a queue.
LEMMA MsgsAppend ==
  ASSUME NEW q \in Seq(Entry), NEW e \in Entry
  PROVE  Msgs(Append(q, e)) = Append(Msgs(q), e.msg)
<1> DEFINE a == Msgs(Append(q, e))
           b == Append(Msgs(q), e.msg)
<1>1. Append(q, e) \in Seq(Entry) /\ Len(Append(q, e)) = Len(q) + 1 /\ e.msg \in Message /\ Len(q) \in Nat
  BY DEF Entry
<1>2. /\ a \in Seq(Message) /\ Len(a) = Len(q) + 1
      /\ \A i \in 1..(Len(q) + 1) : a[i] = Append(q, e)[i].msg
  BY <1>1, MsgsSeq
<1>3. /\ b \in Seq(Message) /\ Len(b) = Len(q) + 1
      /\ \A i \in 1..Len(q) : b[i] = q[i].msg
      /\ b[Len(q) + 1] = e.msg
  <2>1. Msgs(q) \in Seq(Message) /\ Len(Msgs(q)) = Len(q) /\ \A i \in 1..Len(q) : Msgs(q)[i] = q[i].msg
    BY MsgsSeq
  <2> HIDE DEF a
  <2> QED BY <1>1, <2>1
<1>4. \A i \in 1..(Len(q) + 1) : Append(q, e)[i] = IF i = Len(q) + 1 THEN e ELSE q[i]
  OBVIOUS
<1>5. \A i \in 1..Len(a) : a[i] = b[i]
  <2> HIDE DEF a, b
  <2> SUFFICES ASSUME NEW i \in 1..(Len(q) + 1) PROVE a[i] = b[i]
    BY <1>2
  <2>1. CASE i = Len(q) + 1
    BY <1>2, <1>3, <1>4, <2>1
  <2>2. CASE i \in 1..Len(q)
    <3>1. i \in 1..(Len(q) + 1) /\ i # Len(q) + 1
      BY <1>1, <2>2
    <3>2. Append(q, e)[i] = q[i]
      BY <1>4, <3>1
    <3> QED BY <1>2, <1>3, <2>2, <3>1, <3>2
  <2> QED BY <1>1, <2>1, <2>2
<1> HIDE DEF a, b
<1>6. a = b
  BY <1>2, <1>3, <1>5, SeqEqual
<1> QED BY <1>6 DEF a, b

\* What pop() does to them.
LEMMA MsgsTail ==
  ASSUME NEW q \in Seq(Entry), q # <<>>
  PROVE  /\ Msgs(q) # <<>> /\ Head(Msgs(q)) = Head(q).msg
         /\ Msgs(Tail(q)) = Tail(Msgs(q))
<1> DEFINE a == Msgs(Tail(q))
           m == Msgs(q)
           b == Tail(m)
<1>1. /\ Tail(q) \in Seq(Entry) /\ Len(Tail(q)) = Len(q) - 1 /\ Len(q) \in Nat /\ Len(q) > 0
      /\ \A i \in 1..(Len(q) - 1) : Tail(q)[i] = q[i + 1]
  OBVIOUS
<1>2. m \in Seq(Message) /\ Len(m) = Len(q) /\ \A i \in 1..Len(q) : m[i] = q[i].msg
  BY MsgsSeq
<1>3. /\ a \in Seq(Message) /\ Len(a) = Len(q) - 1
      /\ \A i \in 1..(Len(q) - 1) : a[i] = Tail(q)[i].msg
  BY <1>1, MsgsSeq, ZenonT(60)
<1> HIDE DEF m
<1>4. m # <<>>
  BY <1>1, <1>2
<1>5. Head(m) = Head(q).msg
  BY <1>1, <1>2, <1>4
<1>6. /\ b \in Seq(Message) /\ Len(b) = Len(q) - 1
      /\ \A i \in 1..(Len(q) - 1) : b[i] = m[i + 1]
  BY <1>2, <1>4
<1>7. \A i \in 1..Len(a) : a[i] = b[i]
  <2> HIDE DEF a, b
  <2> SUFFICES ASSUME NEW i \in 1..(Len(q) - 1) PROVE a[i] = b[i]
    BY <1>3
  <2>1. i + 1 \in 1..Len(q)
    BY <1>1
  <2> QED BY <1>1, <1>2, <1>3, <1>6, <2>1
<1> HIDE DEF a, b
<1>8. a = b
  BY <1>3, <1>6, <1>7, SeqEqual
<1> QED BY <1>4, <1>5, <1>8 DEF a, b, m

-----------------------------------------------------------------------------
(* A message is in one place. *)

\* No message is twice in the queues f.
DistinctIn(f) ==
    \A p, r \in Pipe : \A i \in DOMAIN f[p], j \in DOMAIN f[r] :
        f[p][i].msg = f[r][j].msg => p = r /\ i = j

\* No message is in the queues twice.
Distinct == DistinctIn(queue)

\* What is in a queue has no other fate.
Tracked == \A p \in Pipe : \A i \in DOMAIN queue[p] : fate[queue[p][i].msg] = "queued"

\* A message has a fate only once it was sent, and none while push() waits.
Unsent ==
    /\ \A m \in Message : fate[m] # "unsent" => m.num <= sent[m.src]
    /\ \A t \in Thread : push[t] # None =>
          out[t].src = t /\ out[t].num <= sent[t] /\ fate[out[t]] = "unsent"

\* The queues f, without the oldest message of p, or with one more.
Taken(f, p)    == [f EXCEPT ![p] = Tail(f[p])]
Given(f, p, e) == [f EXCEPT ![p] = Append(f[p], e)]

\* What is in the queues g is e or in the queues f.
AddsOnly(g, f, e) ==
    \A r \in Pipe : \A i \in DOMAIN g[r] :
        g[r][i] = e \/ \E j \in DOMAIN f[r] : g[r][i] = f[r][j]

\* Taking the oldest message of one queue.
LEMMA TakeOut ==
  ASSUME NEW f \in [Pipe -> Seq(Entry)], NEW p \in Pipe, f[p] # <<>>, DistinctIn(f),
         NEW g, g = Taken(f, p)
  PROVE  /\ g \in [Pipe -> Seq(Entry)] /\ DistinctIn(g)
         /\ \A r \in Pipe : \A i \in DOMAIN g[r] :
               /\ g[r][i].msg # Head(f[p]).msg
               /\ \E j \in DOMAIN f[r] : g[r][i] = f[r][j]
<1>1. /\ f[p] \in Seq(Entry) /\ Tail(f[p]) \in Seq(Entry) /\ Head(f[p]) = f[p][1]
      /\ Len(f[p]) \in Nat /\ 1 \in DOMAIN f[p]
      /\ DOMAIN Tail(f[p]) = 1..(Len(f[p]) - 1) /\ DOMAIN f[p] = 1..Len(f[p])
      /\ \A i \in 1..(Len(f[p]) - 1) : Tail(f[p])[i] = f[p][i + 1]
  OBVIOUS
<1>2. g \in [Pipe -> Seq(Entry)] /\ g[p] = Tail(f[p]) /\ \A r \in Pipe \ {p} : g[r] = f[r]
  BY <1>1 DEF Taken
<1>3. \A i \in DOMAIN g[p] : i + 1 \in DOMAIN f[p] /\ g[p][i] = f[p][i + 1] /\ i \in Nat /\ i + 1 # 1
  BY <1>1, <1>2
<1>4. ASSUME NEW r \in Pipe, NEW i \in DOMAIN g[r]
      PROVE  /\ g[r][i].msg # Head(f[p]).msg
             /\ \E j \in DOMAIN f[r] : g[r][i] = f[r][j]
  <2>1. CASE r = p
    BY <1>1, <1>3, <1>4, <2>1 DEF DistinctIn
  <2>2. CASE r # p
    BY <1>1, <1>2, <1>4, <2>2 DEF DistinctIn
  <2> QED BY <2>1, <2>2
<1>5. DistinctIn(g)
  <2> SUFFICES ASSUME NEW r \in Pipe, NEW s \in Pipe, NEW i \in DOMAIN g[r], NEW j \in DOMAIN g[s],
                      g[r][i].msg = g[s][j].msg
               PROVE  r = s /\ i = j
    BY DEF DistinctIn
  <2>1. CASE r = p /\ s = p
    <3>1. i + 1 \in DOMAIN f[p] /\ g[p][i] = f[p][i + 1] /\ j + 1 \in DOMAIN f[p] /\ g[p][j] = f[p][j + 1]
          /\ i \in Nat /\ j \in Nat
      BY <1>3, <2>1
    <3>2. i + 1 = j + 1
      BY <2>1, <3>1 DEF DistinctIn
    <3> QED BY <2>1, <3>1, <3>2
  <2>2. CASE r = p /\ s # p
    <3>1. i + 1 \in DOMAIN f[p] /\ g[p][i] = f[p][i + 1] /\ j \in DOMAIN f[s] /\ g[s] = f[s]
      BY <1>2, <1>3, <2>2
    <3> QED BY <2>2, <3>1 DEF DistinctIn
  <2>3. CASE r # p /\ s = p
    <3>1. j + 1 \in DOMAIN f[p] /\ g[p][j] = f[p][j + 1] /\ i \in DOMAIN f[r] /\ g[r] = f[r]
      BY <1>2, <1>3, <2>3
    <3> QED BY <2>3, <3>1 DEF DistinctIn
  <2>4. CASE r # p /\ s # p
    BY <1>2, <2>4 DEF DistinctIn
  <2> QED BY <2>1, <2>2, <2>3, <2>4
<1> QED BY <1>2, <1>4, <1>5

\* Adding a message that is in none of the queues to one of them.
LEMMA PutIn ==
  ASSUME NEW f \in [Pipe -> Seq(Entry)], NEW p \in Pipe, NEW e \in Entry, DistinctIn(f),
         \A r \in Pipe : \A i \in DOMAIN f[r] : f[r][i].msg # e.msg,
         NEW g, g = Given(f, p, e)
  PROVE  DistinctIn(g) /\ AddsOnly(g, f, e)
<1>1. /\ f[p] \in Seq(Entry) /\ Len(f[p]) \in Nat /\ DOMAIN f[p] = 1..Len(f[p])
      /\ DOMAIN Append(f[p], e) = 1..(Len(f[p]) + 1)
      /\ \A i \in 1..Len(f[p]) : Append(f[p], e)[i] = f[p][i]
      /\ Append(f[p], e)[Len(f[p]) + 1] = e
  OBVIOUS
<1>2. g[p] = Append(f[p], e) /\ \A r \in Pipe \ {p} : g[r] = f[r]
  BY DEF Given
<1>3. ASSUME NEW r \in Pipe, NEW i \in DOMAIN g[r]
      PROVE  \/ i \in DOMAIN f[r] /\ g[r][i] = f[r][i]
             \/ r = p /\ i = Len(f[p]) + 1 /\ g[r][i] = e
  <2>1. CASE r # p
    BY <1>2, <2>1
  <2>2. CASE r = p /\ i = Len(f[p]) + 1
    BY <1>1, <1>2, <2>2
  <2>3. CASE r = p /\ i \in 1..Len(f[p])
    BY <1>1, <1>2, <2>3
  <2> QED BY <1>1, <1>2, <2>1, <2>2, <2>3
<1>4. DistinctIn(g)
  <2> SUFFICES ASSUME NEW r \in Pipe, NEW s \in Pipe, NEW i \in DOMAIN g[r], NEW j \in DOMAIN g[s],
                      g[r][i].msg = g[s][j].msg
               PROVE  r = s /\ i = j
    BY DEF DistinctIn
  <2> QED BY <1>3 DEF DistinctIn
<1>5. AddsOnly(g, f, e)
  BY <1>3 DEF AddsOnly
<1> QED BY <1>4, <1>5

-----------------------------------------------------------------------------
(* The state of the channel. *)

\* What the channel sees, in terms of the pipes.
ChannelSame ==
    UNCHANGED <<Attached, Accepted, Became("taken"), Became("bounced"),
                Became("evicted"), Became("discarded")>>

\* A step that changes nothing of it is a stutter of the channel.
LEMMA SameStutters == ChannelSame => UNCHANGED Channel!vars
  BY DEF ChannelSame, Channel!vars

\* The contents of a pipe.
LEMMA PendingQueued ==
  ASSUME TypeOK, NEW p \in Pipe
  PROVE  /\ Accepted[p] = Msgs(queue[p]) /\ queue[p] \in Seq(Entry)
         /\ Channel!Pending(p) = Queued(p)
<1>1. Accepted[p] = Msgs(queue[p]) /\ queue[p] \in Seq(Entry)
  BY DEF Accepted, TypeOK
<1>2. DOMAIN Msgs(queue[p]) = DOMAIN queue[p] /\ \A i \in DOMAIN queue[p] : Msgs(queue[p])[i] = queue[p][i].msg
  BY DEF Msgs
<1> QED BY <1>1, <1>2 DEF Channel!Pending, Queued

\* A message without a fate is not known to the channel.
LEMMA UnsentUnknown ==
  ASSUME TypeOK, Tracked, NEW m \in Message, fate[m] = "unsent"
  PROVE  m \notin Channel!Known
<1>1. \A p \in Pipe : m \notin Channel!Pending(p)
  <2> SUFFICES ASSUME NEW p \in Pipe PROVE m \notin Queued(p)
    BY PendingQueued
  <2> QED BY DEF Queued, Tracked
<1>2. m \notin Channel!Settled
  BY DEF Channel!Settled, Became
<1> QED BY <1>1, <1>2 DEF Channel!Known

\* The queues after an EXCEPT.
LEMMA AcceptedExcept ==
  ASSUME TypeOK, NEW p \in Pipe, NEW q, queue' = [queue EXCEPT ![p] = q]
  PROVE  Accepted' = [Accepted EXCEPT ![p] = Msgs(q)]
<1>1. queue' \in [Pipe -> {queue[r] : r \in Pipe} \cup {q}]
  BY DEF TypeOK
<1>2. queue'[p] = q /\ \A r \in Pipe \ {p} : queue'[r] = queue[r]
  BY DEF TypeOK
<1>3. Accepted' = [r \in Pipe |-> Msgs(queue'[r])]
  BY DEF Accepted, Msgs
<1>4. \A r \in Pipe : Msgs(queue'[r]) = IF r = p THEN Msgs(q) ELSE Msgs(queue[r])
  BY <1>2
<1> QED BY <1>3, <1>4 DEF Accepted

-----------------------------------------------------------------------------
(* Pipe::push() *)

\* What a push does to the queues, to the fates and to the channel.
LEMMA PushChannel ==
  ASSUME TypeOK, Distinct, Tracked, NEW t \in Thread, NEW p \in Pipe, NEW m \in Message,
         Push(t, p, m), fate[m] = "unsent", node' = node
  PROVE  /\ Distinct' /\ Tracked' /\ [Channel!Next]_Channel!vars
         /\ \A x \in Message : fate'[x] # "unsent" => x = m \/ fate[x] # "unsent"
         /\ push'[t] # None => out'[t] = m /\ fate' = fate
         /\ \A u \in Thread \ {t} : push'[u] = push[u] /\ out'[u] = out[u]
<1> DEFINE e == [msg |-> m, time |-> clock]
<1>0. /\ e \in Entry /\ e.msg = m /\ queue \in [Pipe -> Seq(Entry)] /\ queue[p] \in Seq(Entry)
      /\ fate \in [Message -> Fate] /\ push \in [Thread -> Pipe \cup {None}]
      /\ out \in [Thread -> Message \cup {None}] /\ Attached' = Attached
  BY DEF TypeOK, Entry, Attached
<1>e. e = [msg |-> m, time |-> clock]
  OBVIOUS
<1> HIDE DEF e
<1>1. \A u \in Thread \ {t} : push'[u] = push[u] /\ out'[u] = out[u]
  BY <1>0 DEF Push, PushWait, PushRefuse, PushAppend, PushReplace
<1>2. \A r \in Pipe : \A i \in DOMAIN queue[r] : queue[r][i].msg # m
  BY DEF Tracked
<1>3. CASE PushWait(t, p, m)
  <2>1. queue' = queue /\ fate' = fate /\ out'[t] = m
    BY <1>0, <1>3 DEF PushWait
  <2>2. ChannelSame
    BY <1>0, <2>1 DEF ChannelSame, Accepted, Became
  <2> QED BY <1>1, <2>1, <2>2, SameStutters DEF Distinct, DistinctIn, Tracked
<1>4. CASE PushRefuse(t, p, m)
  <2>1. queue' = queue /\ fate' = [fate EXCEPT ![m] = "refused"] /\ push'[t] = None
    BY <1>0, <1>4 DEF PushRefuse
  <2>2. ChannelSame
    BY <1>0, <2>1 DEF ChannelSame, Accepted, Became
  <2>3. Tracked'
    BY <1>0, <1>2, <2>1 DEF Tracked
  <2>4. Distinct'
    BY <2>1 DEF Distinct, DistinctIn
  <2> QED BY <1>0, <1>1, <2>1, <2>2, <2>3, <2>4, SameStutters
<1>5. CASE PushAppend(t, p, m)
  <2>1. /\ queue' = [queue EXCEPT ![p] = Append(queue[p], e)]
        /\ fate' = [fate EXCEPT ![m] = "queued"] /\ push'[t] = None /\ p \in Attached
    BY <1>0, <1>e, <1>5 DEF PushAppend, Attached
  <2>2. DistinctIn(queue') /\ AddsOnly(queue', queue, e)
    <3>1. DistinctIn(queue) /\ \A r \in Pipe : \A i \in DOMAIN queue[r] : queue[r][i].msg # e.msg
      BY <1>0, <1>2 DEF Distinct
    <3>2. queue' = Given(queue, p, e)
      BY <2>1 DEF Given
    <3>3. e \in Entry /\ queue \in [Pipe -> Seq(Entry)]
      BY <1>0
    <3> QED BY <3>1, <3>2, <3>3, PutIn
  <2>3. Distinct'
    BY <2>2 DEF Distinct, DistinctIn
  <2>4. Tracked'
    <3> SUFFICES ASSUME NEW r \in Pipe, NEW i \in DOMAIN queue'[r]
                 PROVE  fate'[queue'[r][i].msg] = "queued"
      BY DEF Tracked
    <3>1. CASE queue'[r][i] = e
      BY <1>0, <2>1, <3>1
    <3>2. ASSUME NEW j \in DOMAIN queue[r], queue'[r][i] = queue[r][j]
          PROVE  fate'[queue'[r][i].msg] = "queued"
      BY <1>0, <1>2, <2>1, <3>2 DEF Tracked
    <3> QED BY <2>2, <3>1, <3>2 DEF AddsOnly
  <2>5. Accepted' = [Accepted EXCEPT ![p] = Append(@, m)]
    <3>1. Accepted' = [Accepted EXCEPT ![p] = Msgs(Append(queue[p], e))]
      BY <2>1, AcceptedExcept
    <3>2. Msgs(Append(queue[p], e)) = Append(Accepted[p], m)
      BY <1>0, MsgsAppend, PendingQueued
    <3> QED BY <3>1, <3>2
  <2>6. UNCHANGED <<Attached, Became("taken"), Became("bounced"), Became("evicted"), Became("discarded")>>
    BY <1>0, <2>1 DEF Became
  <2>7. Channel!Accept(p, m)
    BY <2>1, <2>5, <2>6, UnsentUnknown DEF Channel!Accept
  <2>8. \A x \in Message : fate'[x] # "unsent" => x = m \/ fate[x] # "unsent"
    BY <1>0, <2>1
  <2> QED BY <1>1, <2>1, <2>3, <2>4, <2>7, <2>8 DEF Channel!Next
<1>6. CASE PushReplace(t, p, m)
  <2> DEFINE h == Head(queue[p]).msg
             q == [queue EXCEPT ![p] = Tail(queue[p])]
  <2>1. /\ queue[p] # <<>> /\ ~BLOCKING(h)
        /\ queue' = [queue EXCEPT ![p] = Append(Tail(queue[p]), e)]
        /\ fate' = [fate EXCEPT ![h] = "evicted", ![m] = "queued"]
        /\ push'[t] = None /\ p \in Attached
    BY <1>0, <1>e, <1>6 DEF PushReplace, Evicts, IsFull, Attached
  <2>2. h \in Message /\ fate[h] = "queued" /\ h # m
    <3>1. 1 \in DOMAIN queue[p] /\ Head(queue[p]) = queue[p][1] /\ queue[p][1] \in Entry
      BY <1>0, <2>1
    <3> QED BY <3>1 DEF Entry, Tracked
  <2>3. /\ q \in [Pipe -> Seq(Entry)] /\ DistinctIn(q)
        /\ \A r \in Pipe : \A i \in DOMAIN q[r] :
              q[r][i].msg # h /\ \E j \in DOMAIN queue[r] : q[r][i] = queue[r][j]
    <3>1. DistinctIn(queue) /\ q = Taken(queue, p) /\ h = Head(queue[p]).msg
      BY DEF Distinct, Taken
    <3> HIDE DEF q, h
    <3> QED BY <1>0, <2>1, <3>1, TakeOut
  <2>4. queue' = Given(q, p, e)
    BY <1>0, <2>1 DEF Given
  <2>5. \A r \in Pipe : \A i \in DOMAIN q[r] : q[r][i].msg # e.msg
    BY <1>0, <1>2, <2>3
  <2> HIDE DEF q, h
  <2>6. DistinctIn(queue') /\ AddsOnly(queue', q, e)
    <3>1. e \in Entry /\ q \in [Pipe -> Seq(Entry)] /\ DistinctIn(q)
      BY <1>0, <2>3
    <3> QED BY <2>4, <2>5, <3>1, PutIn
  <2>7. Distinct'
    BY <2>6 DEF Distinct, DistinctIn
  <2>8. Tracked'
    <3> SUFFICES ASSUME NEW r \in Pipe, NEW i \in DOMAIN queue'[r]
                 PROVE  fate'[queue'[r][i].msg] = "queued"
      BY DEF Tracked
    <3>1. CASE queue'[r][i] = e
      BY <1>0, <2>1, <2>2, <3>1
    <3>2. ASSUME NEW j \in DOMAIN q[r], queue'[r][i] = q[r][j]
          PROVE  fate'[queue'[r][i].msg] = "queued"
      <4>1. PICK k \in DOMAIN queue[r] : q[r][j] = queue[r][k]
        BY <2>3, <3>2
      <4>2. queue[r][k].msg # h /\ queue[r][k].msg # m /\ fate[queue[r][k].msg] = "queued"
        BY <1>2, <2>3, <4>1 DEF Tracked
      <4>3. queue[r][k].msg \in Message
        <5>1. queue[r][k] \in Entry
          BY <1>0
        <5> QED BY <5>1 DEF Entry
      <4> QED BY <1>0, <2>1, <2>2, <3>2, <4>1, <4>2, <4>3
    <3> QED BY <2>6, <3>1, <3>2 DEF AddsOnly
  <2>9. /\ Accepted' = [Accepted EXCEPT ![p] = Append(Tail(@), m)]
        /\ Accepted[p] # <<>> /\ h = Head(Accepted[p])
    <3>1. Accepted' = [Accepted EXCEPT ![p] = Msgs(Append(Tail(queue[p]), e))]
      BY <2>1, AcceptedExcept
    <3>2. Tail(queue[p]) \in Seq(Entry)
      BY <1>0, <2>1
    <3>3. Msgs(Append(Tail(queue[p]), e)) = Append(Msgs(Tail(queue[p])), m)
      BY <1>0, <3>2, MsgsAppend
    <3>4. /\ Msgs(Tail(queue[p])) = Tail(Accepted[p]) /\ Accepted[p] # <<>>
          /\ h = Head(Accepted[p])
      BY <1>0, <2>1, MsgsTail, PendingQueued DEF h
    <3> QED BY <3>1, <3>3, <3>4
  <2>10. /\ UNCHANGED <<Attached, Became("taken"), Became("bounced"), Became("discarded")>>
         /\ Became("evicted")' = Became("evicted") \cup {h}
    BY <1>0, <2>1, <2>2 DEF Became
  <2>11. Channel!Replace(p, m)
    BY <2>1, <2>9, <2>10, UnsentUnknown DEF Channel!Replace
  <2>12. \A x \in Message : fate'[x] # "unsent" => x = m \/ fate[x] # "unsent"
    BY <1>0, <2>1, <2>2
  <2> QED BY <1>1, <2>1, <2>7, <2>8, <2>11, <2>12 DEF Channel!Next
<1> QED BY <1>3, <1>4, <1>5, <1>6 DEF Push

-----------------------------------------------------------------------------
(* Every step *)

\* What the refinement rests on.
OneFate == Distinct /\ Tracked /\ Unsent

\* A step that changes neither queues, nor fates, nor what is being sent.
LEMMA QuietChannel ==
  ASSUME TypeOK, OneFate, UNCHANGED <<node, queue, fate, sendVars>>
  PROVE  OneFate' /\ [Channel!Next]_Channel!vars
<1>1. UNCHANGED <<node, queue, fate, push, out, sent>>
  BY DEF sendVars
<1>2. ChannelSame
  BY <1>1 DEF ChannelSame, Attached, Accepted, Became
<1>3. OneFate'
  BY <1>1 DEF OneFate, Distinct, DistinctIn, Tracked, Unsent
<1> QED BY <1>2, <1>3, SameStutters

\* A thread calls send_msg().
LEMMA SendChannel ==
  ASSUME TypeOK, Shape, OneFate, NEW t \in Thread, NEW p \in Pipe, NEW k \in Kind, Send(t, p, k)
  PROVE  OneFate' /\ [Channel!Next]_Channel!vars
<1> DEFINE m == [src |-> t, num |-> sent[t] + 1, kind |-> k]
<1>1. /\ m \in Message /\ m.src = t /\ m.num = sent[t] + 1 /\ push[t] = None
      /\ Push(t, p, m) /\ node' = node /\ sent' = [sent EXCEPT ![t] = sent[t] + 1]
      /\ sent \in [Thread -> Nat]
  BY ConstantsAssumption DEF Send, Message, TypeOK, pushFrame
<1> HIDE DEF m
<1>2. fate[m] = "unsent"
  BY <1>1 DEF OneFate, Unsent
<1>3. /\ Distinct' /\ Tracked' /\ [Channel!Next]_Channel!vars
      /\ \A x \in Message : fate'[x] # "unsent" => x = m \/ fate[x] # "unsent"
      /\ push'[t] # None => out'[t] = m /\ fate' = fate
      /\ \A u \in Thread \ {t} : push'[u] = push[u] /\ out'[u] = out[u]
  BY <1>1, <1>2, PushChannel DEF OneFate
<1>4. ASSUME NEW x \in Message, fate'[x] # "unsent" PROVE x.num <= sent'[x.src]
  <2>1. x.src \in Thread /\ x.num \in Nat
    BY ConstantsAssumption DEF Message
  <2>2. CASE x = m
    BY <1>1, <2>2
  <2>3. CASE fate[x] # "unsent"
    <3>1. x.num <= sent[x.src]
      BY <2>3 DEF OneFate, Unsent
    <3> QED BY <1>1, <2>1, <3>1
  <2> QED BY <1>3, <1>4, <2>2, <2>3
<1>5. ASSUME NEW u \in Thread, push'[u] # None
      PROVE  out'[u].src = u /\ out'[u].num <= sent'[u] /\ fate'[out'[u]] = "unsent"
  <2>1. CASE u = t
    BY <1>1, <1>2, <1>3, <1>5, <2>1
  <2>2. CASE u # t
    <3>1. /\ push[u] # None /\ out'[u] = out[u] /\ sent'[u] = sent[u]
          /\ out[u].src = u /\ out[u].num <= sent[u] /\ fate[out[u]] = "unsent"
      BY <1>1, <1>3, <1>5, <2>2 DEF OneFate, Unsent
    <3>2. out[u] \in Message /\ out[u] # m
      <4>1. out[u] # None
        BY <3>1 DEF Shape
      <4> QED BY <1>1, <2>2, <3>1, <4>1 DEF TypeOK
    <3> QED BY <1>3, <3>1, <3>2
  <2> QED BY <2>1, <2>2
<1> QED BY <1>3, <1>4, <1>5 DEF OneFate, Unsent

\* A thread that waited in push() goes on.
LEMMA RetryChannel ==
  ASSUME TypeOK, Shape, OneFate, NEW t \in Thread, Retry(t)
  PROVE  OneFate' /\ [Channel!Next]_Channel!vars
<1>1. PICK p \in Pipe, m \in Message :
        /\ push[t] = p /\ out[t] = m /\ Push(t, p, m) /\ node' = node /\ sent' = sent
        /\ push[t] # None
  BY DEF Retry, TypeOK, Shape, pushFrame
<1>2. fate[m] = "unsent" /\ m.src = t /\ m.num <= sent[t]
  BY <1>1 DEF OneFate, Unsent
<1>3. /\ Distinct' /\ Tracked' /\ [Channel!Next]_Channel!vars
      /\ \A x \in Message : fate'[x] # "unsent" => x = m \/ fate[x] # "unsent"
      /\ push'[t] # None => out'[t] = m /\ fate' = fate
      /\ \A u \in Thread \ {t} : push'[u] = push[u] /\ out'[u] = out[u]
  BY <1>1, <1>2, PushChannel DEF OneFate
<1>4. ASSUME NEW x \in Message, fate'[x] # "unsent" PROVE x.num <= sent'[x.src]
  BY <1>1, <1>2, <1>3, <1>4 DEF OneFate, Unsent
<1>5. ASSUME NEW u \in Thread, push'[u] # None
      PROVE  out'[u].src = u /\ out'[u].num <= sent'[u] /\ fate'[out'[u]] = "unsent"
  <2>1. CASE u = t
    BY <1>1, <1>2, <1>3, <1>5, <2>1
  <2>2. CASE u # t
    <3>1. /\ push[u] # None /\ out'[u] = out[u]
          /\ out[u].src = u /\ out[u].num <= sent[u] /\ fate[out[u]] = "unsent"
      BY <1>3, <1>5, <2>2 DEF OneFate, Unsent
    <3>2. out[u] \in Message /\ out[u] # m
      <4>1. out[u] # None
        BY <3>1 DEF Shape
      <4> QED BY <1>2, <2>2, <3>1, <4>1 DEF TypeOK
    <3> QED BY <1>1, <1>3, <3>1, <3>2
  <2> QED BY <2>1, <2>2
<1> QED BY <1>3, <1>4, <1>5 DEF OneFate, Unsent

\* A pipe is opened.
LEMMA ConnectChannel ==
  ASSUME TypeOK, Owned, NotStranded, OneFate, NEW p \in Pipe, NEW n \in Node, Connect(p, n)
  PROVE  OneFate' /\ [Channel!Next]_Channel!vars
<1>1. UNCHANGED <<queue, fate, sendVars>> /\ p \notin opened
  BY DEF Connect
<1>2. CASE ~do_run[n]
  BY <1>1, <1>2, QuietChannel DEF Connect
<1>3. CASE do_run[n]
  <2>1. node[p] = None
    BY <1>1 DEF Owned
  <2>2. queue[p] = <<>>
    BY <2>1 DEF NotStranded
  <2>3. Accepted[p] = <<>>
    <3>1. Msgs(<<>>) = <<>>
      <4>1. <<>> \in Seq(Entry) /\ Len(<<>>) = 0
        OBVIOUS
      <4>2. Msgs(<<>>) \in Seq(Message) /\ Len(Msgs(<<>>)) = 0
        BY <4>1, MsgsSeq
      <4> QED BY <4>2
    <3> QED BY <2>2, <3>1, PendingQueued
  <2>4. node' = [node EXCEPT ![p] = n] /\ n # None
    BY <1>3, ConstantsAssumption DEF Connect
  <2>5. p \notin Attached /\ Attached' = Attached \cup {p}
    BY <2>1, <2>4 DEF Attached, TypeOK
  <2>6. UNCHANGED <<Accepted, Became("taken"), Became("bounced"), Became("evicted"), Became("discarded")>>
    BY <1>1 DEF Accepted, Became
  <2>7. Channel!Open(p)
    BY <2>3, <2>5, <2>6 DEF Channel!Open
  <2>8. OneFate'
    BY <1>1 DEF OneFate, Distinct, DistinctIn, Tracked, Unsent, sendVars
  <2> QED BY <2>7, <2>8 DEF Channel!Next
<1> QED BY <1>2, <1>3

\* A reader takes the oldest message of a pipe.
LEMMA PopChannel ==
  ASSUME TypeOK, Shape, NotStranded, OneFate, NEW n \in Node, ReadPop(n)
  PROVE  OneFate' /\ [Channel!Next]_Channel!vars
<1>1. PICK p \in Pipe : p = vnx_pipe[n]
  BY DEF ReadPop, Shape, TypeOK
<1> DEFINE h == Head(queue[p]).msg
<1>2. /\ queue[p] # <<>> /\ queue' = [queue EXCEPT ![p] = Tail(queue[p])]
      /\ fate' = [fate EXCEPT ![h] = "taken"] /\ UNCHANGED <<node, push, out, sent>>
  BY <1>1 DEF ReadPop, sendVars
<1>3. h \in Message /\ fate[h] = "queued" /\ fate \in [Message -> Fate] /\ queue \in [Pipe -> Seq(Entry)]
  <2>1. 1 \in DOMAIN queue[p] /\ Head(queue[p]) = queue[p][1] /\ queue[p][1] \in Entry
    BY <1>2 DEF TypeOK
  <2>2. h \in Message /\ h = queue[p][1].msg
    BY <2>1 DEF Entry
  <2>3. fate[queue[p][1].msg] = "queued"
    BY <2>1 DEF OneFate, Tracked
  <2> HIDE DEF h
  <2> QED BY <2>2, <2>3 DEF TypeOK
<1>4. /\ DistinctIn(queue')
      /\ \A r \in Pipe : \A i \in DOMAIN queue'[r] :
            /\ queue'[r][i].msg # h
            /\ \E j \in DOMAIN queue[r] : queue'[r][i] = queue[r][j]
  <2>1. DistinctIn(queue) /\ queue' = Taken(queue, p) /\ h = Head(queue[p]).msg
    BY <1>2 DEF OneFate, Distinct, Taken
  <2>2. queue[p] # <<>> /\ queue \in [Pipe -> Seq(Entry)]
    BY <1>2, <1>3
  <2> HIDE DEF h
  <2> QED BY <2>1, <2>2, TakeOut
<1>5. Accepted[p] # <<>> /\ Head(Accepted[p]) = h /\ Accepted' = [Accepted EXCEPT ![p] = Tail(@)]
  <2>1. Accepted' = [Accepted EXCEPT ![p] = Msgs(Tail(queue[p]))]
    BY <1>2, AcceptedExcept
  <2>2. /\ Msgs(queue[p]) # <<>> /\ Head(Msgs(queue[p])) = h
        /\ Msgs(Tail(queue[p])) = Tail(Msgs(queue[p])) /\ Accepted[p] = Msgs(queue[p])
    BY <1>2, <1>3, MsgsTail, PendingQueued
  <2> QED BY <2>1, <2>2
<1> HIDE DEF h
<1>6. p \in Attached
  BY <1>2 DEF Attached, NotStranded
<1>7. /\ Became("taken")' = Became("taken") \cup {h}
      /\ UNCHANGED <<Attached, Became("bounced"), Became("evicted"), Became("discarded")>>
  BY <1>2, <1>3 DEF Became, Attached
<1>8. Channel!Deliver(p)
  BY <1>5, <1>6, <1>7 DEF Channel!Deliver
<1>9. Distinct'
  BY <1>4 DEF Distinct, DistinctIn
<1>10. Tracked'
  <2> SUFFICES ASSUME NEW r \in Pipe, NEW i \in DOMAIN queue'[r]
               PROVE  fate'[queue'[r][i].msg] = "queued"
    BY DEF Tracked
  <2>1. PICK j \in DOMAIN queue[r] : queue'[r][i] = queue[r][j]
    BY <1>4
  <2>2. queue[r][j].msg # h /\ fate[queue[r][j].msg] = "queued"
    BY <1>4, <2>1 DEF OneFate, Tracked
  <2>3. queue[r][j].msg \in Message
    <3>1. queue[r][j] \in Entry
      BY <1>3
    <3> QED BY <3>1 DEF Entry
  <2> QED BY <1>2, <1>3, <2>1, <2>2, <2>3
<1>11. Unsent'
  <2>1. \A x \in Message : (fate'[x] = "unsent" <=> fate[x] = "unsent")
    BY <1>2, <1>3
  <2>2. \A t \in Thread : push[t] # None => out[t] \in Message
    BY DEF Shape, TypeOK
  <2> QED BY <1>2, <2>1, <2>2 DEF OneFate, Unsent
<1> QED BY <1>8, <1>9, <1>10, <1>11 DEF OneFate, Channel!Next

\* A pipe is closed.
LEMMA CloseChannel ==
  ASSUME TypeOK, Shape, NotStranded, OneFate, NEW p \in Pipe, PipeClose(p),
         UNCHANGED sendVars
  PROVE  OneFate' /\ [Channel!Next]_Channel!vars
<1>1. /\ queue' = [queue EXCEPT ![p] = <<>>] /\ node' = [node EXCEPT ![p] = None]
      /\ fate' = [m \in Message |->
                    IF m \in Queued(p)
                      THEN IF IsRequest(m) THEN "bounced" ELSE "discarded"
                      ELSE fate[m]]
      /\ UNCHANGED <<push, out, sent>>
  BY DEF PipeClose, sendVars
<1>2. /\ queue'[p] = <<>> /\ DOMAIN queue'[p] = {}
      /\ \A r \in Pipe \ {p} : queue'[r] = queue[r]
  BY <1>1 DEF TypeOK
<1>3. \A m \in Queued(p) : fate[m] = "queued"
  BY DEF Queued, OneFate, Tracked
<1>4. Distinct'
  <2> SUFFICES ASSUME NEW r \in Pipe, NEW s \in Pipe,
                      NEW i \in DOMAIN queue'[r], NEW j \in DOMAIN queue'[s],
                      queue'[r][i].msg = queue'[s][j].msg
               PROVE  r = s /\ i = j
    BY DEF Distinct, DistinctIn
  <2>1. r # p /\ s # p
    BY <1>2
  <2> QED BY <1>2, <2>1 DEF OneFate, Distinct, DistinctIn
<1>5. Tracked'
  <2> SUFFICES ASSUME NEW r \in Pipe, NEW i \in DOMAIN queue'[r]
               PROVE  fate'[queue'[r][i].msg] = "queued"
    BY DEF Tracked
  <2>1. r # p /\ queue'[r] = queue[r] /\ i \in DOMAIN queue[r]
    BY <1>2
  <2>2. queue[r][i].msg \in Message
    <3>1. queue[r][i] \in Entry
      BY <2>1 DEF TypeOK
    <3> QED BY <3>1 DEF Entry
  <2>3. queue[r][i].msg \notin Queued(p)
    BY <2>1 DEF Queued, OneFate, Distinct, DistinctIn
  <2> QED BY <1>1, <2>1, <2>2, <2>3 DEF OneFate, Tracked
<1>6. Unsent'
  <2>1. \A x \in Message : (fate'[x] = "unsent" <=> fate[x] = "unsent")
    BY <1>1, <1>3
  <2>2. \A t \in Thread : push[t] # None => out[t] \in Message
    BY DEF Shape, TypeOK
  <2> QED BY <1>1, <2>1, <2>2 DEF OneFate, Unsent
<1>7. Accepted' = [Accepted EXCEPT ![p] = <<>>]
  <2>1. Accepted' = [Accepted EXCEPT ![p] = Msgs(<<>>)]
    BY <1>1, AcceptedExcept
  <2>2. Msgs(<<>>) = <<>>
    <3>1. <<>> \in Seq(Entry) /\ Len(<<>>) = 0
      OBVIOUS
    <3>2. Msgs(<<>>) \in Seq(Message) /\ Len(Msgs(<<>>)) = 0
      BY <3>1, MsgsSeq
    <3> QED BY <3>2
  <2> QED BY <2>1, <2>2
<1>8. CASE node[p] = None
  <2>1. queue[p] = <<>> /\ node' = node
    BY <1>1, <1>8 DEF NotStranded, TypeOK
  <2>2. Queued(p) = {} /\ queue' = queue
    BY <1>1, <2>1 DEF Queued, TypeOK
  <2>3. fate' = fate
    BY <1>1, <2>2 DEF TypeOK
  <2>4. UNCHANGED <<node, queue, fate, sendVars>>
    BY <2>1, <2>2, <2>3
  <2> QED BY <2>4, QuietChannel
<1>9. CASE node[p] # None
  <2>1. p \in Attached /\ Attached' = Attached \ {p}
    BY <1>1, <1>9 DEF Attached, TypeOK
  <2>2. Queued(p) \subseteq Message
    <3>1. \A i \in DOMAIN queue[p] : queue[p][i] \in Entry
      BY DEF TypeOK
    <3> QED BY <3>1 DEF Queued, Entry
  <2>3. /\ Became("taken")' = Became("taken") /\ Became("evicted")' = Became("evicted")
        /\ Became("bounced")' = Became("bounced") \cup {m \in Queued(p) : IsRequest(m)}
        /\ Became("discarded")' = Became("discarded") \cup {m \in Queued(p) : ~IsRequest(m)}
    BY <1>1, <1>3, <2>2 DEF Became
  <2>4. Channel!Close(p)
    BY <1>7, <2>1, <2>3, PendingQueued DEF Channel!Close
  <2> QED BY <1>4, <1>5, <1>6, <2>4 DEF OneFate, Channel!Next
<1> QED BY <1>8, <1>9

\* Every step of PipeNode is one of MessageChannel, or a stutter of it.
LEMMA NextChannel ==
  IndInv /\ OneFate /\ [Next]_vars => OneFate' /\ [Channel!Next]_Channel!vars
<1> SUFFICES ASSUME IndInv, OneFate, [Next]_vars
             PROVE  OneFate' /\ [Channel!Next]_Channel!vars
  OBVIOUS
<1>0. TypeOK /\ Shape /\ Owned /\ NotStranded
  BY DEF IndInv
<1>1. CASE \E t \in Thread, p \in Pipe, k \in Kind : <<t, p>> \in Route /\ Send(t, p, k)
  BY <1>0, <1>1, SendChannel
<1>2. CASE \E t \in Thread : Retry(t)
  BY <1>0, <1>2, RetryChannel
<1>3. CASE \E p \in Pipe, n \in Node : Connect(p, n)
  BY <1>0, <1>3, ConnectChannel
<1>4. ASSUME NEW p \in Pipe, ClosePipe(p) \/ \E n \in Node : CloseEach(n, p)
      PROVE  OneFate' /\ [Channel!Next]_Channel!vars
  <2>1. PipeClose(p) /\ UNCHANGED sendVars
    BY <1>4 DEF ClosePipe, CloseEach
  <2> QED BY <1>0, <2>1, CloseChannel
<1>5. CASE \E n \in Node : ReadPop(n)
  BY <1>0, <1>5, PopChannel
<1>6. ASSUME NEW n \in Node, ReaderStep(n)
      PROVE  OneFate' /\ [Channel!Next]_Channel!vars
  <2>1. CASE ~ReadPop(n)
    <3>1. UNCHANGED <<node, queue, fate, sendVars>>
      BY <1>6, <2>1 DEF ReaderStep, ReadBegin, ReadCheck, ReadNext, ReadWait, ReadNull, ReadPopEmpty,
                        ReadReturn, ReadAgain, ReadDone, signalFrame, pipeVars
    <3> QED BY <1>0, <3>1, QuietChannel
  <2> QED BY <1>5, <2>1
<1>7. ASSUME NEW n \in Node, OwnerStep(n)
      PROVE  OneFate' /\ [Channel!Next]_Channel!vars
  <2>1. CASE ~\E p \in Pipe : CloseEach(n, p)
    <3>1. UNCHANGED <<node, queue, fate, sendVars>>
      BY <1>7, <2>1 DEF OwnerStep, Cleanup, CleanupRead, CloseBegin, CloseEnd, ExitPipe, pipeVars
    <3> QED BY <1>0, <3>1, QuietChannel
  <2> QED BY <1>4, <2>1
<1>8. CASE \/ \E p \in Pipe : Pause(p) \/ Resume(p)
           \/ \E t \in Thread : SpuriousWake(t)
           \/ \E n \in Node : ReadWake(n) \/ Restart(n)
           \/ \E c \in Stopper : StopperStep(c) \/ \E n \in Node : Stop(c, n)
           \/ Tick \/ UNCHANGED vars
  <2>1. UNCHANGED <<node, queue, fate, sendVars>>
    BY <1>8 DEF Pause, Resume, SpuriousWake, ReadWake, Restart, StopperStep, StopEnd, ExitPipe,
                Stop, Tick, vars, pipeVars
  <2> QED BY <1>0, <2>1, QuietChannel
<1> QED BY <1>1, <1>2, <1>3, <1>4, <1>6, <1>7, <1>8, ConstantsAssumption DEF Next

\* PipeNode implements MessageChannel: whatever the threads, what a module takes
\* from its pipes is what was sent to them, in order, each message once, and
\* nothing that was accepted is lost (Pipe::push, pop, close).
THEOREM Refinement == Spec => ImplementsChannel
<1>1. Init => Channel!Init /\ OneFate
  <2> SUFFICES ASSUME Init PROVE Channel!Init /\ OneFate
    OBVIOUS
  <2>1. /\ \A p \in Pipe : node[p] = None /\ queue[p] = <<>>
        /\ \A m \in Message : fate[m] = "unsent"
        /\ \A t \in Thread : push[t] = None
    BY DEF Init
  <2>2. Msgs(<<>>) = <<>>
    <3>1. <<>> \in Seq(Entry) /\ Len(<<>>) = 0
      OBVIOUS
    <3>2. Msgs(<<>>) \in Seq(Message) /\ Len(Msgs(<<>>)) = 0
      BY <3>1, MsgsSeq
    <3> QED BY <3>2
  <2>3. Attached = {} /\ Accepted = [p \in Pipe |-> <<>>]
    BY <2>1, <2>2 DEF Attached, Accepted
  <2>4. \A f : f # "unsent" => Became(f) = {}
    BY <2>1 DEF Became
  <2>5. Channel!Init
    BY <2>3, <2>4 DEF Channel!Init
  <2>6. \A p \in Pipe : DOMAIN queue[p] = {}
    BY <2>1
  <2>7. OneFate
    BY <2>1, <2>6 DEF OneFate, Distinct, DistinctIn, Tracked, Unsent
  <2> QED BY <2>5, <2>7
<1> QED BY <1>1, NextChannel, Invariance, PTL DEF Spec, ImplementsChannel, Channel!Spec

-----------------------------------------------------------------------------
(* No wake-up is lost. *)

\* The reader is woken by every notification, and by exit() (Node::notify, exit).
LEMMA NextAsleep == TypeOK /\ Shape /\ Asleep /\ [Next]_vars => Asleep'
<1> SUFFICES ASSUME TypeOK, Shape, Asleep, [Next]_vars PROVE Asleep'
  OBVIOUS
<1>0. /\ pc \in [Node -> PC] /\ do_run \in [Node -> BOOLEAN] /\ exiting \in [Caller -> Node \cup {None}]
      /\ notify_map \in [Node -> [Prio -> Seq(Pipe)]] /\ node \in [Pipe -> Node \cup {None}]
      /\ mode \in [Node -> {"poll", "block", "timed", "once", "drain"}]
  BY DEF TypeOK
<1>1. Stopper \subseteq Caller /\ Node \subseteq Caller /\ Stopper \cap Node = {} /\ None \notin Node
  BY ConstantsAssumption DEF Caller
<1>2. ASSUME UNCHANGED <<do_run, notify_map, exiting>>, \A n \in Node : pc'[n] = "wait" => pc[n] = "wait"
      PROVE  Asleep'
  BY <1>2 DEF Asleep, Notified
<1>3. ASSUME NEW t \in Thread, NEW p \in Pipe, NEW m \in Message, Push(t, p, m), UNCHANGED pushFrame
      PROVE  Asleep'
  <2>1. CASE PushAppend(t, p, m)
    <3>1. node[p] \in Node /\ pc'[node[p]] # "wait"
      BY <1>0, <2>1 DEF PushAppend, Notify
    <3>2. \A n \in Node \ {node[p]} : notify_map'[n] = notify_map[n] /\ pc'[n] = pc[n]
      BY <1>0, <2>1 DEF PushAppend, Notify
    <3> QED BY <1>3, <3>1, <3>2 DEF Asleep, Notified, pushFrame, exitVars
  <2>2. CASE UNCHANGED <<notify_map, pc>>
    BY <1>2, <1>3, <2>2 DEF pushFrame, exitVars
  <2> QED BY <1>3, <2>1, <2>2 DEF Push, PushWait, PushRefuse, PushReplace
<1>4. CASE \E t \in Thread, p \in Pipe, k \in Kind : <<t, p>> \in Route /\ Send(t, p, k)
  <2>1. PICK t \in Thread, p \in Pipe, k \in Kind : Send(t, p, k)
    BY <1>4
  <2>2. [src |-> t, num |-> sent[t] + 1, kind |-> k] \in Message
    BY <2>1, ConstantsAssumption DEF Send, Message, TypeOK
  <2> QED BY <1>3, <2>1, <2>2 DEF Send
<1>5. ASSUME NEW t \in Thread, Retry(t) PROVE Asleep'
  BY <1>3, <1>5 DEF Retry, TypeOK, Shape
<1>6. CASE \/ \E t \in Thread : SpuriousWake(t)
           \/ \E p \in Pipe : Pause(p) \/ Resume(p) \/ ClosePipe(p)
           \/ \E p \in Pipe, n \in Node : Connect(p, n)
           \/ Tick \/ UNCHANGED vars
  BY <1>2, <1>6 DEF SpuriousWake, Pause, Resume, ClosePipe, Connect, Tick, vars, nodeVars, readVars, exitVars
<1>7. ASSUME NEW n \in Node, OwnerStep(n) PROVE Asleep'
  <2>1. CASE Cleanup(n) \/ CloseBegin(n)
    <3>1. /\ pc'[n] # "wait" /\ notify_map' = notify_map
          /\ \A k \in Node \ {n} : pc'[k] = pc[k] /\ do_run'[k] = do_run[k]
          /\ \A c \in Stopper : exiting'[c] = exiting[c]
      BY <1>0, <1>1, <2>1 DEF Cleanup, CloseBegin, ExitBegin, readVars
    <3> QED BY <3>1 DEF Asleep, Notified
  <2>2. CASE CleanupRead(n) \/ CloseEnd(n)
    <3>1. /\ \A k \in Node : pc'[k] = "wait" => pc[k] = "wait"
          /\ UNCHANGED <<do_run, notify_map>> /\ \A c \in Stopper : exiting'[c] = exiting[c]
      BY <1>0, <1>1, <2>2 DEF CleanupRead, CloseEnd, nodeVars
    <3> QED BY <3>1 DEF Asleep, Notified
  <2>3. ASSUME NEW p \in Pipe, CloseEach(n, p) \/ ExitPipe(n, p) PROVE Asleep'
    BY <1>2, <2>3 DEF CloseEach, ExitPipe, nodeVars, readVars
  <2> QED BY <1>7, <2>1, <2>2, <2>3 DEF OwnerStep
<1>8. ASSUME NEW n \in Node, ReaderStep(n) PROVE Asleep'
  <2>1. CASE ReadWait(n)
    BY <1>0, <2>1 DEF ReadWait, Asleep, Notified, nodeVars, exitVars
  <2>2. CASE ReadNext(n)
    <3>1. pc[n] = "lock" /\ pc' = [pc EXCEPT ![n] = "pop"] /\ UNCHANGED <<do_run, exiting>>
      BY <2>2 DEF ReadNext, exitVars
    <3>2. \A k \in Node \ {n} : notify_map'[k] = notify_map[k] /\ pc'[k] = pc[k]
      BY <1>0, <2>2 DEF ReadNext
    <3> QED BY <1>0, <3>1, <3>2 DEF Asleep, Notified
  <2>3. CASE ReadAgain(n)
    <3>1. /\ \A k \in Node \ {n} : do_run'[k] = do_run[k] /\ pc'[k] = pc[k]
          /\ pc'[n] = "check" /\ UNCHANGED <<notify_map, exiting>>
      BY <1>0, <2>3 DEF ReadAgain, signalFrame, exitVars
    <3> QED BY <3>1 DEF Asleep, Notified
  <2>4. CASE \/ \E md \in ReadMode : ReadBegin(n, md)
             \/ ReadCheck(n) \/ ReadNull(n) \/ ReadPop(n) \/ ReadPopEmpty(n) \/ ReadReturn(n) \/ ReadDone(n)
    <3>1. UNCHANGED <<do_run, notify_map, exiting>>
      BY <2>4 DEF ReadBegin, ReadCheck, ReadNull, ReadPop, ReadPopEmpty, ReadReturn, ReadDone,
                  nodeVars, exitVars, signalFrame
    <3>2. \A k \in Node : pc'[k] = "wait" => pc[k] = "wait"
      BY <1>0, <2>4 DEF ReadBegin, ReadCheck, AfterRead, ReadNull, ReadPop, ReadPopEmpty, ReadReturn, ReadDone
    <3> QED BY <1>2, <3>1, <3>2
  <2> QED BY <1>8, <2>1, <2>2, <2>3, <2>4 DEF ReaderStep
<1>9. ASSUME NEW n \in Node, ReadWake(n) PROVE Asleep'
  BY <1>0, <1>2, <1>9 DEF ReadWake, nodeVars, exitVars
<1>10. ASSUME NEW n \in Node, Restart(n) PROVE Asleep'
  BY <1>0, <1>10 DEF Restart, Asleep, Notified, exitVars
<1>11. ASSUME NEW c \in Stopper, NEW n \in Node, Stop(c, n) PROVE Asleep'
  <2>1. /\ do_run' = [do_run EXCEPT ![n] = FALSE] /\ exiting[c] = None
        /\ exiting' = [exiting EXCEPT ![c] = n] /\ UNCHANGED <<pc, notify_map>>
    BY <1>11 DEF Stop, ExitBegin, readVars
  <2> QED BY <1>0, <1>1, <2>1 DEF Asleep, Notified
<1>12. ASSUME NEW c \in Stopper, StopEnd(c) PROVE Asleep'
  <2>1. exiting[c] \in Node /\ pc'[exiting[c]] # "wait" /\ UNCHANGED <<do_run, notify_map>>
    BY <1>0, <1>1, <1>12 DEF StopEnd, WakeReader, nodeVars
  <2>2. \A n \in Node : pc'[n] = "wait" => pc[n] = "wait"
    BY <1>0, <1>12 DEF StopEnd, WakeReader
  <2>3. \A d \in Stopper \ {c} : exiting'[d] = exiting[d]
    BY <1>0, <1>1, <1>12 DEF StopEnd
  <2> QED BY <2>1, <2>2, <2>3 DEF Asleep, Notified
<1>13. ASSUME NEW c \in Stopper, NEW p \in Pipe, ExitPipe(c, p) PROVE Asleep'
  BY <1>2, <1>13 DEF ExitPipe, nodeVars, readVars
<1> QED BY <1>4, <1>5, <1>6, <1>7, <1>8, <1>9, <1>10, <1>11, <1>12, <1>13, ConstantsAssumption DEF Next, StopperStep

\* What one push does to the threads that wait.
LEMMA PushBlocked ==
  ASSUME TypeOK, Blocked, NEW t \in Thread, NEW p \in Pipe, NEW m \in Message, Push(t, p, m),
         push[t] = None \/ (push[t] = p /\ t \notin waiting[p])
  PROVE  Blocked'
<1>0. /\ waiting \in [Pipe -> SUBSET Thread] /\ push \in [Thread -> Pipe \cup {None}]
      /\ out \in [Thread -> Message \cup {None}] /\ None \notin Pipe
  BY ConstantsAssumption DEF TypeOK
<1>1. \A q \in Pipe \ {p} : t \notin waiting[q]
  BY <1>0 DEF Blocked
<1>2. CASE PushWait(t, p, m)
  <2>1. \A u \in Thread, q \in Pipe : u \in waiting'[q] => push'[u] = q
    BY <1>0, <1>1, <1>2 DEF PushWait, Blocked
  <2>2. \A u \in Thread : push'[u] # None => BLOCKING(out'[u]) /\ ~NON_BLOCKING(out'[u])
    BY <1>0, <1>2 DEF PushWait, Blocked
  <2> QED BY <2>1, <2>2 DEF Blocked, BLOCKING, NON_BLOCKING
<1>3. CASE push' = [push EXCEPT ![t] = None] /\ out' = [out EXCEPT ![t] = None] /\ waiting' = waiting
  <2>1. t \notin waiting[p]
    BY <1>0 DEF Blocked
  <2>2. \A u \in Thread, q \in Pipe : u \in waiting'[q] => push'[u] = q
    BY <1>0, <1>1, <1>3, <2>1 DEF Blocked
  <2>3. \A u \in Thread : push'[u] # None => BLOCKING(out'[u]) /\ ~NON_BLOCKING(out'[u])
    BY <1>0, <1>3 DEF Blocked
  <2> QED BY <2>2, <2>3 DEF Blocked, BLOCKING, NON_BLOCKING
<1> QED BY <1>2, <1>3 DEF Push, PushRefuse, PushAppend, PushReplace

\* A thread that was woken appends its message, or waits again, or the pipe was
\* shut down or closed meanwhile.
LEMMA PushWaiters ==
  ASSUME TypeOK, NotStranded, Blocked, Waiters, UNCHANGED pushFrame,
         NEW t \in Thread, NEW p \in Pipe, NEW m \in Message, Push(t, p, m),
         push[t] = None \/ (push[t] = p /\ t \notin waiting[p] /\ out[t] = m)
  PROVE  Waiters'
<1>0. /\ waiting \in [Pipe -> SUBSET Thread] /\ push \in [Thread -> Pipe \cup {None}]
      /\ queue \in [Pipe -> Seq(Entry)] /\ pc \in [Node -> PC] /\ None \notin Pipe
      /\ [msg |-> m, time |-> clock] \in Entry
  BY ConstantsAssumption DEF TypeOK, Entry
<1>1. UNCHANGED <<node, is_paused, is_shutdown, vnx_pipe>>
  BY DEF pushFrame
<1>2. \A n \in Node : pc[n] = "signal" => pc'[n] = "signal"
  BY PushPc
<1>3. /\ \A q \in Pipe \ {p} : waiting'[q] = waiting[q] /\ queue'[q] = queue[q]
      /\ \A u \in Thread \ {t} : push'[u] = push[u]
  BY <1>0 DEF Push, PushWait, PushRefuse, PushAppend, PushReplace
<1>4. \A q \in Pipe \ {p} : Stirred(q) => Stirred(q)'
  <2>1. ASSUME NEW q \in Pipe \ {p}, NEW u \in Thread, push[u] = q, u \notin waiting[q] PROVE Stirred(q)'
    <3>1. u # t
      BY <1>0, <2>1
    <3> QED BY <1>3, <2>1, <3>1 DEF Stirred
  <2> QED BY <1>1, <1>2, <2>1 DEF Stirred
<1>5. ASSUME waiting'[p] # {}
      PROVE  /\ ~is_shutdown'[p]
             /\ node'[p] = None => is_paused'[p]
             /\ is_paused'[p] \/ Stirred(p)' \/ queue'[p] # <<>>
  <2>1. CASE PushWait(t, p, m)
    <3>1. ~is_shutdown[p] /\ (is_paused[p] \/ queue[p] # <<>>) /\ queue' = queue
      BY <2>1 DEF PushWait, MustWait, IsFull
    <3>2. node[p] = None => queue[p] = <<>>
      BY DEF NotStranded
    <3> QED BY <1>1, <3>1, <3>2
  <2>2. CASE PushAppend(t, p, m) \/ PushReplace(t, p, m)
    <3>1. waiting'[p] = waiting[p] /\ node[p] # None
      BY <2>2 DEF PushAppend, PushReplace
    <3>2. queue[p] \in Seq(Entry) /\ (PushReplace(t, p, m) => queue[p] # <<>>)
      BY <1>0 DEF PushReplace, Evicts, IsFull
    <3>3. queue'[p] # <<>>
      <4>1. CASE PushAppend(t, p, m)
        BY <1>0, <3>2, <4>1 DEF PushAppend
      <4>2. CASE PushReplace(t, p, m)
        <5>1. Tail(queue[p]) \in Seq(Entry)
          BY <3>2, <4>2
        <5>2. queue'[p] = Append(Tail(queue[p]), [msg |-> m, time |-> clock])
          BY <1>0, <4>2 DEF PushReplace
        <5>3. ASSUME NEW s \in Seq(Entry), NEW e \in Entry PROVE Append(s, e) # <<>>
          <6>1. Len(Append(s, e)) = Len(s) + 1 /\ Len(s) \in Nat
            OBVIOUS
          <6> QED BY <6>1
        <5> QED BY <1>0, <5>1, <5>2, <5>3
      <4> QED BY <2>2, <4>1, <4>2
    <3> QED BY <1>1, <1>5, <3>1, <3>3 DEF Waiters
  <2>3. CASE PushRefuse(t, p, m)
    <3>1. UNCHANGED <<queue, waiting>>
      BY <2>3 DEF PushRefuse
    <3>2. /\ ~is_shutdown[p] /\ (node[p] = None => is_paused[p])
          /\ is_paused[p] \/ Stirred(p) \/ queue[p] # <<>>
      BY <1>5, <3>1 DEF Waiters
    <3>3. push[t] = p => is_paused[p]
      <4>1. push[t] = p => BLOCKING(m) /\ ~NON_BLOCKING(m)
        BY <1>0 DEF Blocked
      <4> QED BY <2>3, <3>2, <4>1 DEF PushRefuse
    <3>4. Stirred(p) => Stirred(p)' \/ is_paused[p]
      BY <1>1, <1>2, <1>3, <3>1, <3>3 DEF Stirred
    <3> QED BY <1>1, <3>1, <3>2, <3>4
  <2> QED BY <2>1, <2>2, <2>3 DEF Push
<1> QED BY <1>1, <1>3, <1>4, <1>5 DEF Waiters

\* Steps that leave the waiters and what stirs them alone.
LEMMA SameWaiters ==
  ASSUME Waiters, UNCHANGED <<queue, is_paused, is_shutdown, waiting, push>>,
         \A p \in Pipe : node'[p] = None => node[p] = None,
         \A n \in Node : pc[n] = "signal" => pc'[n] = "signal" /\ vnx_pipe'[n] = vnx_pipe[n]
  PROVE  Waiters'
<1>1. \A p \in Pipe : Stirred(p) => Stirred(p)'
  BY DEF Stirred
<1> QED BY <1>1 DEF Waiters

\* Steps that wake all the waiters of a pipe.
LEMMA WakeAll ==
  ASSUME TypeOK, Waiters, NEW p \in Pipe, waiting' = [waiting EXCEPT ![p] = {}],
         UNCHANGED <<pc, vnx_pipe, push>>,
         \A q \in Pipe \ {p} : /\ queue'[q] = queue[q] /\ node'[q] = node[q]
                               /\ is_paused'[q] = is_paused[q] /\ is_shutdown'[q] = is_shutdown[q]
  PROVE  Waiters'
<1>1. waiting'[p] = {} /\ \A q \in Pipe \ {p} : waiting'[q] = waiting[q]
  BY DEF TypeOK
<1>2. \A q \in Pipe \ {p} : Stirred(q) => Stirred(q)'
  BY <1>1 DEF Stirred
<1> QED BY <1>1, <1>2 DEF Waiters

\* Steps that wake one waiter of a pipe, if there is one.
LEMMA WakeOne ==
  ASSUME TypeOK, Blocked, Waiters, NEW p \in Pipe, NotifyOne(p),
         UNCHANGED <<queue, node, is_paused, is_shutdown, push>>,
         \A n \in Node : pc[n] = "signal" /\ vnx_pipe[n] # p =>
                           pc'[n] = "signal" /\ vnx_pipe'[n] = vnx_pipe[n]
  PROVE  Waiters'
<1>1. /\ waiting \in [Pipe -> SUBSET Thread]
      /\ \A q \in Pipe : waiting'[q] \subseteq waiting[q] /\ (q # p => waiting'[q] = waiting[q])
  BY DEF TypeOK, NotifyOne
<1>2. \A q \in Pipe \ {p} : Stirred(q) => Stirred(q)'
  BY <1>1 DEF Stirred
<1>3. ASSUME waiting'[p] # {} PROVE Stirred(p)'
  <2>1. PICK t \in waiting[p] : waiting' = [waiting EXCEPT ![p] = @ \ {t}]
    BY <1>1, <1>3 DEF NotifyOne
  <2>2. t \in Thread /\ push'[t] = p /\ t \notin waiting'[p]
    BY <1>1, <2>1 DEF Blocked
  <2> QED BY <2>2 DEF Stirred
<1> QED BY <1>1, <1>2, <1>3 DEF Waiters

\* Every wake-up of a sender is followed by another look at its pipe, and no
\* reader leaves a pipe that it popped without one.
LEMMA NextWaiters ==
  TypeOK /\ Shape /\ NotStranded /\ Blocked /\ Waiters /\ [Next]_vars => Blocked' /\ Waiters'
<1> SUFFICES ASSUME TypeOK, Shape, NotStranded, Blocked, Waiters, [Next]_vars
             PROVE  Blocked' /\ Waiters'
  OBVIOUS
<1>0. /\ pc \in [Node -> PC] /\ waiting \in [Pipe -> SUBSET Thread]
      /\ vnx_pipe \in [Node -> Pipe \cup {None}]
      /\ queue \in [Pipe -> Seq(Entry)] /\ node \in [Pipe -> Node \cup {None}]
      /\ push \in [Thread -> Pipe \cup {None}]
      /\ is_paused \in [Pipe -> BOOLEAN] /\ is_shutdown \in [Pipe -> BOOLEAN]
  BY DEF TypeOK
<1>1. ASSUME UNCHANGED <<push, out>>, \A p \in Pipe : waiting'[p] \subseteq waiting[p]
      PROVE  Blocked'
  BY <1>1 DEF Blocked, BLOCKING, NON_BLOCKING
<1>2. CASE \E t \in Thread, p \in Pipe, k \in Kind : <<t, p>> \in Route /\ Send(t, p, k)
  <2>1. PICK t \in Thread, p \in Pipe, k \in Kind : Send(t, p, k)
    BY <1>2
  <2>2. [src |-> t, num |-> sent[t] + 1, kind |-> k] \in Message
    BY <2>1, ConstantsAssumption DEF Send, Message, TypeOK
  <2> QED BY <2>1, <2>2, PushBlocked, PushWaiters DEF Send
<1>3. ASSUME NEW t \in Thread, Retry(t) PROVE Blocked' /\ Waiters'
  <2>1. push[t] \in Pipe /\ out[t] \in Message
    BY <1>3 DEF Retry, TypeOK, Shape
  <2> QED BY <1>3, <2>1, PushBlocked, PushWaiters DEF Retry
<1>4. ASSUME NEW t \in Thread, SpuriousWake(t) PROVE Blocked' /\ Waiters'
  <2>1. push[t] \in Pipe /\ NotifyOne(push[t])
    BY <1>0, <1>4 DEF SpuriousWake, NotifyOne
  <2>2. UNCHANGED <<queue, node, is_paused, is_shutdown, push, out, pc, vnx_pipe>>
    BY <1>4 DEF SpuriousWake, readVars, sendVars
  <2>3. \A p \in Pipe : waiting'[p] \subseteq waiting[p]
    BY <1>0, <2>1 DEF NotifyOne
  <2> QED BY <1>1, <2>1, <2>2, <2>3, WakeOne
<1>5. ASSUME NEW p \in Pipe,
             Pause(p) \/ Resume(p) \/ ClosePipe(p) \/ (\E n \in Node : CloseEach(n, p)) \/ \E c \in Caller : ExitPipe(c, p)
      PROVE  Blocked' /\ Waiters'
  <2>1. waiting' = [waiting EXCEPT ![p] = {}] /\ UNCHANGED <<pc, vnx_pipe, push, out>>
    BY <1>5 DEF Pause, Resume, ClosePipe, CloseEach, PipeClose, ExitPipe, readVars, sendVars
  <2>2. \A q \in Pipe \ {p} : /\ queue'[q] = queue[q] /\ node'[q] = node[q]
                              /\ is_paused'[q] = is_paused[q] /\ is_shutdown'[q] = is_shutdown[q]
    BY <1>0, <1>5 DEF Pause, Resume, ClosePipe, CloseEach, PipeClose, ExitPipe
  <2>3. \A q \in Pipe : waiting'[q] \subseteq waiting[q]
    BY <1>0, <2>1
  <2> QED BY <1>1, <2>1, <2>2, <2>3, WakeAll
<1>6. ASSUME NEW p \in Pipe, NEW n \in Node, Connect(p, n) PROVE Blocked' /\ Waiters'
  <2>1. UNCHANGED <<queue, is_paused, is_shutdown, waiting, push, out, pc, vnx_pipe>>
    BY <1>6 DEF Connect, readVars, sendVars
  <2>2. \A q \in Pipe : node'[q] = None => node[q] = None
    BY <1>0, <1>6, ConstantsAssumption DEF Connect
  <2> QED BY <1>1, <2>1, <2>2, SameWaiters
<1>7. ASSUME NEW n \in Node, ReadPop(n) PROVE Blocked' /\ Waiters'
  <2>1. /\ vnx_pipe[n] \in Pipe /\ pc[n] = "pop" /\ pc' = [pc EXCEPT ![n] = "signal"]
        /\ UNCHANGED <<node, is_paused, is_shutdown, waiting, vnx_pipe, push, out>>
    BY <1>0, <1>7 DEF ReadPop, Shape, sendVars
  <2>2. \A q \in Pipe \ {vnx_pipe[n]} : queue'[q] = queue[q]
    BY <1>0, <1>7 DEF ReadPop
  <2>3. Stirred(vnx_pipe[n])' /\ \A q \in Pipe : Stirred(q) => Stirred(q)'
    BY <1>0, <2>1 DEF Stirred
  <2>4. Waiters'
    BY <2>1, <2>2, <2>3 DEF Waiters
  <2> QED BY <1>1, <2>1, <2>4
<1>8. ASSUME NEW n \in Node, ReadReturn(n) \/ ReadAgain(n) PROVE Blocked' /\ Waiters'
  <2>1. /\ vnx_pipe[n] \in Pipe /\ pc[n] = "signal" /\ NotifyOne(vnx_pipe[n])
        /\ UNCHANGED <<queue, node, is_paused, is_shutdown, vnx_pipe, push, out>>
        /\ \A k \in Node \ {n} : pc'[k] = pc[k]
    BY <1>0, <1>8 DEF ReadReturn, ReadAgain, Shape, signalFrame, sendVars
  <2>2. \A k \in Node : pc[k] = "signal" /\ vnx_pipe[k] # vnx_pipe[n] =>
                          pc'[k] = "signal" /\ vnx_pipe'[k] = vnx_pipe[k]
    BY <2>1
  <2>3. \A p \in Pipe : waiting'[p] \subseteq waiting[p]
    BY <1>0, <2>1 DEF NotifyOne
  <2> QED BY <1>1, <2>1, <2>2, <2>3, WakeOne
<1>9. ASSUME NEW n \in Node,
             \/ (\E md \in ReadMode : ReadBegin(n, md)) \/ ReadCheck(n) \/ ReadNext(n) \/ ReadWait(n)
             \/ ReadNull(n) \/ ReadPopEmpty(n) \/ ReadDone(n) \/ ReadWake(n)
      PROVE  Blocked' /\ Waiters'
  <2>1. UNCHANGED <<queue, node, is_paused, is_shutdown, waiting, push, out>>
    BY <1>9 DEF ReadBegin, ReadCheck, ReadNext, ReadWait, ReadNull, ReadPopEmpty, ReadDone, ReadWake,
                pipeVars, sendVars
  <2>2. \A k \in Node : pc[k] = "signal" => pc'[k] = "signal" /\ vnx_pipe'[k] = vnx_pipe[k]
    BY <1>0, <1>9 DEF ReadBegin, ReadCheck, ReadNext, ReadWait, ReadNull, ReadPopEmpty, ReadDone, ReadWake
  <2> QED BY <1>1, <2>1, <2>2, SameWaiters
<1>10. ASSUME NEW n \in Node,
              Cleanup(n) \/ CleanupRead(n) \/ CloseBegin(n) \/ CloseEnd(n) \/ Restart(n)
       PROVE  Blocked' /\ Waiters'
  <2>1. UNCHANGED <<queue, node, is_paused, is_shutdown, waiting, push, out>>
    BY <1>10 DEF Cleanup, CleanupRead, CloseBegin, CloseEnd, Restart, pipeVars, sendVars
  <2>2. \A k \in Node : pc[k] = "signal" => pc'[k] = "signal" /\ vnx_pipe'[k] = vnx_pipe[k]
    BY <1>0, <1>10 DEF Cleanup, CleanupRead, CloseBegin, CloseEnd, Restart, readVars
  <2> QED BY <1>1, <2>1, <2>2, SameWaiters
<1>11. CASE \/ \E c \in Stopper : StopEnd(c) \/ \E n \in Node : Stop(c, n)
            \/ Tick \/ UNCHANGED vars
  <2>1. UNCHANGED <<queue, node, is_paused, is_shutdown, waiting, push, out>>
    BY <1>11 DEF StopEnd, Stop, Tick, vars, pipeVars, sendVars
  <2>2. \A k \in Node : pc[k] = "signal" => pc'[k] = "signal" /\ vnx_pipe'[k] = vnx_pipe[k]
    BY <1>0, <1>11 DEF StopEnd, WakeReader, Stop, Tick, vars, readVars
  <2> QED BY <1>1, <2>1, <2>2, SameWaiters
<1> QED BY <1>2, <1>3, <1>4, <1>5, <1>6, <1>7, <1>8, <1>9, <1>10, <1>11, ConstantsAssumption
        DEF Next, ReaderStep, OwnerStep, StopperStep, Caller

\* The reader and the senders are never left asleep with something to do: the
\* reader, with a message in its pipes or an exit() that is over; a sender, with
\* room in a pipe that is not paused and nobody about to look or to read
\* (Node::notify, read_blocking, exit; Pipe::push, pop, close, shutdown).
THEOREM WakesAll == Spec => [](ReaderAwake /\ SendersKnown)
<1>1. Init => WakeInv
  BY DEF Init, WakeInv, Blocked, Asleep, Waiters
<1>2. IndInv /\ WakeInv /\ [Next]_vars => WakeInv'
  BY NextAsleep, NextWaiters DEF IndInv, WakeInv
<1>3. IndInv /\ WakeInv => ReaderAwake
  <2> SUFFICES ASSUME IndInv, WakeInv, NEW n \in Node, pc[n] = "wait", NEW p \in Pipe, node[p] = n
        PROVE  queue[p] = <<>>
    BY DEF WakeInv, Asleep, ReaderAwake
  <2>1. Priority[p] \in Prio /\ notify_map[n][Priority[p]] = <<>> /\ n # None
    BY ConstantsAssumption DEF WakeInv, Asleep, Notified, Prio
  <2>2. Count(<<>>, p) = 0
    <3>1. <<>> \in Seq(Pipe) /\ \A i \in DOMAIN <<>> : <<>>[i] # p
      OBVIOUS
    <3> QED BY <3>1, CountAbsent
  <2>3. Held(p) = 0
    BY DEF Held
  <2>4. Len(queue[p]) = Count(notify_map[n][Priority[p]], p) + Held(p)
    BY <2>1 DEF IndInv, NotStranded
  <2>5. queue[p] \in Seq(Entry)
    BY DEF IndInv, TypeOK
  <2> QED BY <2>1, <2>2, <2>3, <2>4, <2>5
<1>4. IndInv /\ WakeInv /\ ReaderAwake => SendersKnown
  BY DEF IndInv, NotStranded, WakeInv, Waiters, ReaderAwake, SendersKnown, TypeOK
<1> QED BY <1>1, <1>2, <1>3, <1>4, Invariance, PTL DEF Spec

=============================================================================
