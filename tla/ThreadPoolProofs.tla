--------------------------- MODULE ThreadPoolProofs ---------------------------
(***************************************************************************)
(* Theorems about ThreadPool, for any number of callers and calls, sizes   *)
(* of the pool and of the queue, tasks and threads.                        *)
(***************************************************************************)
EXTENDS ThreadPool, FiniteSetTheorems, TLAPS

\* What the assumptions say of the sets.
LEMMA Constants ==
  /\ MaxJobs \in Nat /\ MaxThreads \in Nat
  /\ Job \subseteq Worker
  /\ \A n \in Int : n \in Job <=> 0 <= n /\ n < MaxJobs
  /\ Job \subseteq Int /\ Worker \subseteq Int
  /\ NumThreads \subseteq Int /\ MaxQueueSize \subseteq Nat
BY ConstantsAssumption DEF Job, Worker

\* Finitely many threads run a task.
LEMMA RunningFinite == IsFiniteSet(Running)
<1>1. IsFiniteSet(Worker)
  BY ConstantsAssumption, FS_Interval DEF Worker
<1> QED BY <1>1, FS_Subset DEF Running

\* The rest of a queue.
LEMMA TailOf ==
  ASSUME NEW S, NEW q \in Seq(S), q # <<>>
  PROVE  /\ Head(q) = q[1] /\ 1 \in DOMAIN q /\ Head(q) \in S
         /\ Tail(q) \in Seq(S)
         /\ \A i \in DOMAIN Tail(q) : i + 1 \in DOMAIN q /\ Tail(q)[i] = q[i + 1]
         /\ \A i \in DOMAIN q : i # 1 => i - 1 \in DOMAIN Tail(q) /\ Tail(q)[i - 1] = q[i]
OBVIOUS

\* A queue and one more element.
LEMMA AppendTo ==
  ASSUME NEW S, NEW q \in Seq(S), NEW x \in S
  PROVE  /\ Append(q, x) \in Seq(S)
         /\ Len(q) + 1 \in DOMAIN Append(q, x) /\ Append(q, x)[Len(q) + 1] = x
         /\ \A i \in DOMAIN q : i \in DOMAIN Append(q, x) /\ Append(q, x)[i] = q[i]
         /\ \A i \in DOMAIN Append(q, x) : i \in DOMAIN q \/ Append(q, x)[i] = x
OBVIOUS

\* The invariant holds initially.
LEMMA Initially == Init => IndInv
<1> SUFFICES ASSUME Init PROVE IndInv
  OBVIOUS
<1>1. TypeOK
  <2>1. pc \in [Worker -> PC]
    BY DEF Init, PC
  <2>2. added \in [Caller -> SUBSET Job] /\ script \in [Caller -> Seq(Calls)]
    BY ConstantsAssumption DEF Init
  <2>3. threads \in SUBSET Worker /\ next_job_id \in 0..MaxJobs /\ num_running \in Int
    BY Constants DEF Init
  <2>4. queue \in Seq(Job) /\ entry \in [Worker -> Job \cup {-1}]
    BY DEF Init
  <2>5. at \in [Caller -> {"call", "blocked", "signal"}]
    BY DEF Init
  <2> QED BY <2>1, <2>2, <2>3, <2>4, <2>5 DEF Init, TypeOK
<1>2. Running = {}
  BY DEF Init, Running
<1>3. Counted
  BY <1>2, FS_EmptySet DEF Init, Counted
<1>4. Accounted /\ Pending /\ Given
  BY DEF Init, Accounted, Pending, Given, Job
<1>5. Behind
  BY <1>2 DEF Init, Behind
<1>6. Listed
  BY DEF Init, Listed
<1>7. Fresh
  <2>1. num_threads \in Int /\ \A w \in Worker : w \in Int /\ 0 <= w
    BY Constants DEF Init, Worker
  <2>2. num_threads < 0 => \A w \in Worker : ~ (w < num_threads)
    BY <2>1
  <2> QED BY <2>2 DEF Init, Fresh
<1> QED BY <1>1, <1>3, <1>4, <1>5, <1>6, <1>7 DEF IndInv

\* The end of a call keeps the types of what the caller has left to do.
LEMMA ReturnType ==
  ASSUME TypeOK, NEW c \in Caller, script[c] # <<>>, Return(c)
  PROVE  script' \in [Caller -> Seq(Calls)] /\ at' \in [Caller -> {"call", "blocked", "signal"}]
<1>1. Tail(script[c]) \in Seq(Calls)
  BY DEF TypeOK
<1> QED BY <1>1 DEF Return, TypeOK

\* So does a new job.
LEMMA EnqueueType ==
  ASSUME TypeOK, NEW c \in Caller, Enqueue(c)
  PROVE  /\ next_job_id \in Job /\ next_job_id' \in 0..MaxJobs
         /\ queue' \in Seq(Job) /\ pending_jobs' \subseteq Job
         /\ added' \in [Caller -> SUBSET Job]
<1>1. next_job_id \in Job /\ next_job_id' \in 0..MaxJobs
  BY Constants DEF Enqueue, TypeOK
<1>2. queue' \in Seq(Job)
  BY <1>1, AppendTo DEF Enqueue, TypeOK
<1> QED BY <1>1, <1>2 DEF Enqueue, TypeOK

\* A thread for one task is new.
LEMMA NewThread ==
  ASSUME IndInv, NEW c \in Caller, AddThread(c)
  PROVE  next_job_id \in Worker /\ pc[next_job_id] = "new"
<1>1. TypeOK /\ Enqueue(c) /\ num_threads < 0
  BY DEF IndInv, AddThread
<1>2. next_job_id \in Worker
  BY <1>1, EnqueueType, Constants
<1>3. next_job_id \in Int
  BY <1>2, Constants
<1>4. ~ (next_job_id < next_job_id)
  BY <1>3
<1> QED BY <1>1, <1>2, <1>4 DEF IndInv, Fresh

\* A step keeps the types.
LEMMA TypeStep == IndInv /\ [Next]_vars => TypeOK'
<1> SUFFICES ASSUME IndInv, [Next]_vars PROVE TypeOK'
  OBVIOUS
<1> USE DEF IndInv
<1>1. ASSUME NEW c \in Caller, AddTask(c) PROVE TypeOK'
  <2>1. CASE do_run /\ ~ Full /\ Enqueue(c)
    BY <1>1, <2>1, EnqueueType DEF AddTask, TypeOK, config, threadVars
  <2>2. CASE Block(c) /\ UNCHANGED <<queue, pending_jobs, next_job_id, added>>
    BY <1>1, <2>2 DEF AddTask, Block, TypeOK, config, threadVars
  <2>3. CASE at' = [at EXCEPT ![c] = "signal"] /\ UNCHANGED <<script, queue, pending_jobs, next_job_id, added>>
    BY <1>1, <2>3 DEF AddTask, TypeOK, config, threadVars
  <2> QED BY <1>1, <2>1, <2>2, <2>3 DEF AddTask
<1>2. ASSUME NEW c \in Caller, AddSignal(c) PROVE TypeOK'
  <2>1. Return(c) /\ script[c] # <<>>
    BY <1>2 DEF AddSignal, Stands
  <2>2. pc' \in [Worker -> PC]
    BY <1>2 DEF AddSignal, NotifyOne, TypeOK, PC
  <2> QED BY <1>2, <2>1, <2>2, ReturnType DEF AddSignal, TypeOK, config, poolVars
<1>3. ASSUME NEW c \in Caller, AddThread(c) PROVE TypeOK'
  <2>1. Enqueue(c) /\ Return(c) /\ script[c] # <<>>
    BY <1>3 DEF AddThread, Calling, Stands
  <2>2. next_job_id \in Worker
    BY <1>3, NewThread
  <2>3. pc' \in [Worker -> PC] /\ threads' \subseteq Worker
    BY <1>3, <2>2 DEF AddThread, TypeOK, PC
  <2> QED BY <1>3, <2>1, <2>3, EnqueueType, ReturnType DEF AddThread, TypeOK, config
<1>4. ASSUME NEW c \in Caller, Exit(c) PROVE TypeOK'
  <2>1. Return(c) /\ script[c] # <<>>
    BY <1>4 DEF Exit, Calling, Stands
  <2>2. pc' \in [Worker -> PC]
    BY <1>4 DEF Exit, NotifyThreads, TypeOK, PC
  <2> QED BY <1>4, <2>1, <2>2, ReturnType DEF Exit, TypeOK, config, poolVars
<1>5. ASSUME NEW c \in Caller, Destroy(c) PROVE TypeOK'
  <2>1. Return(c) /\ script[c] # <<>>
    BY <1>5 DEF Destroy, Calling, Stands
  <2> QED BY <1>5, <2>1, ReturnType DEF Destroy, TypeOK, config, poolVars, threadVars
<1>6. ASSUME NEW c \in Caller, NEW f \in {"sync", "barrier", "jobs", "wait"}, Await(c, f) PROVE TypeOK'
  <2>1. script[c] # <<>> /\ (Return(c) \/ Block(c))
    BY <1>6 DEF Await, Calling, Stands
  <2>2. script' \in [Caller -> Seq(Calls)] /\ at' \in [Caller -> {"call", "blocked", "signal"}]
    BY <2>1, ReturnType DEF Block, TypeOK
  <2> QED BY <1>6, <2>2 DEF Await, TypeOK, config, poolVars, threadVars
<1>7. ASSUME NEW w \in Worker, Loop(w) PROVE TypeOK'
  BY <1>7 DEF Loop, TypeOK, PC, config, poolVars, threadVars, callerVars
<1>8. ASSUME NEW w \in Worker, Idle(w) PROVE TypeOK'
  BY <1>8 DEF Idle, NotifyCallers, TypeOK, PC, config, poolVars, threadVars, callerVars
<1>9. ASSUME NEW w \in Worker, Take(w) PROVE TypeOK'
  <2>1. Head(queue) \in Job /\ Tail(queue) \in Seq(Job)
    BY <1>9, TailOf DEF Take, TypeOK
  <2>2. pc' \in [Worker -> PC] /\ entry' \in [Worker -> Job \cup {-1}]
    BY <1>9, <2>1 DEF Take, TypeOK, PC
  <2>3. num_running' \in Int /\ queue' \in Seq(Job) /\ pending_jobs' \subseteq Job
    BY <1>9, <2>1 DEF Take, TypeOK
  <2> QED BY <1>9, <2>2, <2>3 DEF Take, TypeOK, config, callerVars
<1>10. ASSUME NEW w \in Worker, Break(w) PROVE TypeOK'
  BY <1>10 DEF Break, TypeOK, PC, config, poolVars, threadVars, callerVars
<1>11. ASSUME NEW w \in Worker, Taken(w) PROVE TypeOK'
  BY <1>11 DEF Taken, NotifyCallers, TypeOK, PC, config, poolVars, threadVars, callerVars
<1>12. ASSUME NEW w \in Worker, Run(w) PROVE TypeOK'
  <2>1. entry[w] \in Job
    BY <1>12 DEF Run, Behind, Running
  <2>2. pc' \in [Worker -> PC]
    BY <1>12 DEF Run, TypeOK, PC
  <2>3. num_running' \in Int /\ finished' \subseteq Job
    BY <1>12, <2>1 DEF Run, TypeOK
  <2> QED BY <1>12, <2>2, <2>3 DEF Run, TypeOK, config, callerVars
<1>13. ASSUME NEW w \in Worker, Leave(w) PROVE TypeOK'
  BY <1>13 DEF Leave, TypeOK, PC, config, poolVars, threadVars, callerVars
<1>14. ASSUME NEW w \in Worker, Last(w) PROVE TypeOK'
  BY <1>14 DEF Last, NotifyCallers, TypeOK, PC, config, poolVars, threadVars, callerVars
<1>15. ASSUME SpuriousWake PROVE TypeOK'
  BY <1>15 DEF SpuriousWake, TypeOK, PC, config, poolVars, threadVars, callerVars
<1>16. ASSUME UNCHANGED vars PROVE TypeOK'
  BY <1>16 DEF vars, TypeOK, PC, config, poolVars, threadVars, callerVars
<1> QED BY <1>1, <1>2, <1>3, <1>4, <1>5, <1>6, <1>7, <1>8, <1>9, <1>10, <1>11, <1>12, <1>13, <1>14, <1>15, <1>16 DEF Next, CallerStep, Main

\* A new job is in the queue, and pending.
LEMMA EnqueueAccounts ==
  ASSUME TypeOK, Accounted, Pending, NEW c \in Caller, Enqueue(c),
         Running \subseteq Running', UNCHANGED <<entry, finished>>
  PROVE  Accounted' /\ Pending'
<1>1. next_job_id \in Job /\ queue \in Seq(Job)
  BY EnqueueType DEF TypeOK
<1>2. \A j \in Job : j < next_job_id' => j < next_job_id \/ j = next_job_id
  BY <1>1, Constants DEF Enqueue
<1>3. Pending'
  BY <1>2 DEF Pending, Enqueue
<1>4. \E i \in DOMAIN queue' : queue'[i] = next_job_id
  BY <1>1, AppendTo DEF Enqueue
<1>5. \A i \in DOMAIN queue : i \in DOMAIN queue' /\ queue'[i] = queue[i]
  BY <1>1, AppendTo DEF Enqueue
<1>6. ASSUME NEW j \in Job, j < next_job_id'
      PROVE  \/ \E i \in DOMAIN queue' : queue'[i] = j
             \/ \E w \in Running' : entry'[w] = j
             \/ j \in finished'
  BY <1>2, <1>4, <1>5, <1>6 DEF Accounted
<1> QED BY <1>3, <1>6 DEF Accounted

\* A finished job need not be pending.
LEMMA EraseKeeps ==
  ASSUME Pending, NEW w \in Worker, entry[w] \in finished \cup {-1},
         pending_jobs' = pending_jobs \ {entry[w]}, UNCHANGED <<next_job_id, finished>>
  PROVE  Pending'
BY Constants DEF Pending

\* A step loses no task, and no job that has not finished stops to be pending.
LEMMA AccountedStep == IndInv /\ [Next]_vars => Accounted' /\ Pending'
<1> SUFFICES ASSUME IndInv, [Next]_vars PROVE Accounted' /\ Pending'
  OBVIOUS
<1> USE DEF IndInv
<1>1. ASSUME NEW c \in Caller, AddTask(c) PROVE Accounted' /\ Pending'
  <2>1. Running' = Running
    BY <1>1 DEF AddTask, Running, threadVars
  <2>2. CASE Enqueue(c)
    BY <1>1, <2>1, <2>2, EnqueueAccounts DEF AddTask, threadVars
  <2>3. CASE UNCHANGED <<queue, pending_jobs, next_job_id, added>>
    BY <1>1, <2>1, <2>3 DEF AddTask, Accounted, Pending, threadVars
  <2> QED BY <1>1, <2>2, <2>3 DEF AddTask
<1>2. ASSUME NEW c \in Caller, AddSignal(c) PROVE Accounted' /\ Pending'
  BY <1>2 DEF AddSignal, Stands, Return, NotifyOne, TypeOK, Accounted, Pending, Behind, Running, config, poolVars, threadVars, callerVars
<1>3. ASSUME NEW c \in Caller, AddThread(c) PROVE Accounted' /\ Pending'
  <2>1. next_job_id \in Worker /\ pc[next_job_id] = "new"
    BY <1>3, NewThread
  <2>2. Running \subseteq Running'
    BY <1>3, <2>1 DEF AddThread, Running, TypeOK
  <2> QED BY <1>3, <2>2, EnqueueAccounts DEF AddThread
<1>4. ASSUME NEW c \in Caller, Exit(c) PROVE Accounted' /\ Pending'
  BY <1>4 DEF Exit, Return, NotifyThreads, Calling, Stands, TypeOK, Accounted, Pending, Behind, Running, config, poolVars, threadVars, callerVars
<1>5. ASSUME NEW c \in Caller, Destroy(c) PROVE Accounted' /\ Pending'
  BY <1>5 DEF Destroy, Return, Calling, Stands, TypeOK, Accounted, Pending, Behind, Running, config, poolVars, threadVars, callerVars
<1>6. ASSUME NEW c \in Caller, NEW f \in {"sync", "barrier", "jobs", "wait"}, Await(c, f) PROVE Accounted' /\ Pending'
  BY <1>6 DEF Await, Return, Block, Calling, Stands, TypeOK, Accounted, Pending, Behind, Running, config, poolVars, threadVars, callerVars
<1>7. ASSUME NEW w \in Worker, Loop(w) PROVE Accounted' /\ Pending'
  BY <1>7 DEF Loop, TypeOK, Accounted, Pending, Behind, Running, config, poolVars, threadVars, callerVars
<1>8. ASSUME NEW w \in Worker, Idle(w) PROVE Accounted' /\ Pending'
  <2>1. Running' = Running /\ w \notin Running
    BY <1>8 DEF Idle, Running, TypeOK
  <2>2. Pending'
    BY <1>8, <2>1, EraseKeeps DEF Idle, Behind
  <2> QED BY <1>8, <2>1, <2>2 DEF Idle, Accounted
<1>9. ASSUME NEW w \in Worker, Take(w) PROVE Accounted' /\ Pending'
  <2>1. w \notin Running /\ Running' = Running \cup {w} /\ entry'[w] = Head(queue)
    BY <1>9 DEF Take, Running, TypeOK
  <2>2. Pending'
    BY <1>9, <2>1, EraseKeeps DEF Take, Behind
  <2>3. \A v \in Running : v \in Running' /\ entry'[v] = entry[v]
    BY <1>9, <2>1 DEF Take, TypeOK, Running
  <2>4. ASSUME NEW i \in DOMAIN queue
        PROVE  \/ \E k \in DOMAIN queue' : queue'[k] = queue[i]
               \/ entry'[w] = queue[i]
    <3>1. queue # <<>> /\ queue' = Tail(queue)
      BY <1>9 DEF Take
    <3>2. /\ Head(queue) = queue[1]
          /\ \A j \in DOMAIN queue : j # 1 => j - 1 \in DOMAIN Tail(queue) /\ Tail(queue)[j - 1] = queue[j]
      <4>1. queue \in Seq(Job)
        BY DEF TypeOK
      <4> HIDE DEF IndInv
      <4> QED BY <3>1, <4>1, TailOf
    <3>3. CASE i = 1
      BY <2>1, <3>2, <3>3
    <3>4. CASE i # 1
      BY <3>1, <3>2, <3>4
    <3> QED BY <3>3, <3>4
  <2>5. Accounted'
    BY <1>9, <2>1, <2>3, <2>4 DEF Take, Accounted
  <2> QED BY <2>2, <2>5
<1>10. ASSUME NEW w \in Worker, Break(w) PROVE Accounted' /\ Pending'
  <2>1. Running' = Running /\ w \notin Running
    BY <1>10 DEF Break, Running, TypeOK
  <2>2. Pending'
    BY <1>10, <2>1, EraseKeeps DEF Break, Behind
  <2> QED BY <1>10, <2>1, <2>2 DEF Break, Accounted
<1>11. ASSUME NEW w \in Worker, Taken(w) PROVE Accounted' /\ Pending'
  BY <1>11 DEF Taken, NotifyCallers, TypeOK, Accounted, Pending, Behind, Running, config, poolVars, threadVars, callerVars
<1>12. ASSUME NEW w \in Worker, Run(w) PROVE Accounted' /\ Pending'
  BY <1>12 DEF Run, TypeOK, Accounted, Pending, Behind, Running, config, poolVars, threadVars, callerVars
<1>13. ASSUME NEW w \in Worker, Leave(w) PROVE Accounted' /\ Pending'
  <2>1. Running' = Running /\ w \notin Running
    BY <1>13 DEF Leave, Running, TypeOK
  <2>2. Pending'
    BY <1>13, <2>1, EraseKeeps DEF Leave, Behind
  <2> QED BY <1>13, <2>1, <2>2 DEF Leave, Accounted
<1>14. ASSUME NEW w \in Worker, Last(w) PROVE Accounted' /\ Pending'
  BY <1>14 DEF Last, NotifyCallers, TypeOK, Accounted, Pending, Behind, Running, config, poolVars, threadVars, callerVars
<1>15. ASSUME SpuriousWake PROVE Accounted' /\ Pending'
  BY <1>15 DEF SpuriousWake, TypeOK, Accounted, Pending, Behind, Running, config, poolVars, threadVars, callerVars
<1>16. ASSUME UNCHANGED vars PROVE Accounted' /\ Pending'
  BY <1>16 DEF vars, TypeOK, Accounted, Pending, Behind, Running, config, poolVars, threadVars, callerVars
<1> QED BY <1>1, <1>2, <1>3, <1>4, <1>5, <1>6, <1>7, <1>8, <1>9, <1>10, <1>11, <1>12, <1>13, <1>14, <1>15, <1>16 DEF Next, CallerStep, Main

\* A new job is the greatest.
LEMMA EnqueueGiven ==
  ASSUME TypeOK, Given, NEW c \in Caller, Enqueue(c), UNCHANGED <<entry, finished>>
  PROVE  Given'
<1>1. /\ next_job_id \in Int /\ next_job_id' = next_job_id + 1
      /\ next_job_id \in Job /\ queue \in Seq(Job)
  BY EnqueueType, Constants DEF Enqueue, TypeOK
<1>2. \A j \in Int : j < next_job_id => j < next_job_id'
  BY <1>1
<1>3. \A i \in DOMAIN queue' : queue'[i] < next_job_id'
  <2>1. ASSUME NEW i \in DOMAIN queue' 
        PROVE  (i \in DOMAIN queue /\ queue'[i] = queue[i]) \/ queue'[i] = next_job_id
    BY <1>1, AppendTo DEF Enqueue
  <2>2. \A i \in DOMAIN queue : queue[i] \in Job /\ queue[i] \in Int
    <3>1. \A i \in DOMAIN queue : queue[i] \in Job
      BY <1>1
    <3> QED BY <3>1, Constants
  <2> QED BY <1>1, <1>2, <2>1, <2>2 DEF Given
<1>4. \A w \in Worker : entry[w] \in Int
  <2>1. \A w \in Worker : entry[w] \in Job \cup {-1}
    BY DEF TypeOK
  <2>2. Job \subseteq Int /\ -1 \in Int
    BY Constants
  <2>3. Job \cup {-1} \subseteq Int
    BY <2>2
  <2> QED BY <2>1, <2>3
<1>5. \A j \in Job : j \in pending_jobs' \cup finished' => j < next_job_id'
  BY <1>1, <1>2, Constants DEF Given, Enqueue
<1>6. ASSUME NEW d \in Caller, NEW j \in added'[d] PROVE j < next_job_id'
  <2>1. j \in added[d] \/ j = next_job_id
    BY <1>6 DEF Enqueue, TypeOK
  <2>2. added[d] \subseteq Int
    BY Constants DEF TypeOK
  <2> QED BY <1>1, <1>2, <2>1, <2>2 DEF Given
<1> QED BY <1>2, <1>3, <1>4, <1>5, <1>6 DEF Given

\* A step keeps jobs below next_job_id, and a thread takes a task only when it has
\* finished the one before.
LEMMA GivenStep == IndInv /\ [Next]_vars => Given' /\ Behind'
<1> SUFFICES ASSUME IndInv, [Next]_vars PROVE Given' /\ Behind'
  OBVIOUS
<1> USE DEF IndInv
<1>1. ASSUME NEW c \in Caller, AddTask(c) PROVE Given' /\ Behind'
  <2>1. Running' = Running
    BY <1>1 DEF AddTask, Running, threadVars
  <2>2. CASE Enqueue(c)
    BY <1>1, <2>1, <2>2, EnqueueGiven DEF AddTask, threadVars, Behind
  <2>3. CASE UNCHANGED <<queue, pending_jobs, next_job_id, added>>
    BY <1>1, <2>1, <2>3 DEF AddTask, Given, Behind, threadVars
  <2> QED BY <1>1, <2>2, <2>3 DEF AddTask
<1>2. ASSUME NEW c \in Caller, AddSignal(c) PROVE Given' /\ Behind'
  BY <1>2 DEF AddSignal, Stands, Return, NotifyOne, TypeOK, Given, Behind, Running, config, poolVars, threadVars, callerVars
<1>3. ASSUME NEW c \in Caller, AddThread(c) PROVE Given' /\ Behind'
  <2>1. next_job_id \in Worker /\ pc[next_job_id] = "new"
    BY <1>3, NewThread
  <2>2. Running' = Running
    BY <1>3, <2>1 DEF AddThread, Running, TypeOK
  <2> QED BY <1>3, <2>2, EnqueueGiven DEF AddThread, Behind
<1>4. ASSUME NEW c \in Caller, Exit(c) PROVE Given' /\ Behind'
  BY <1>4 DEF Exit, Return, NotifyThreads, Calling, Stands, TypeOK, Given, Behind, Running, config, poolVars, threadVars, callerVars
<1>5. ASSUME NEW c \in Caller, Destroy(c) PROVE Given' /\ Behind'
  BY <1>5 DEF Destroy, Return, Calling, Stands, TypeOK, Given, Behind, Running, config, poolVars, threadVars, callerVars
<1>6. ASSUME NEW c \in Caller, NEW f \in {"sync", "barrier", "jobs", "wait"}, Await(c, f) PROVE Given' /\ Behind'
  BY <1>6 DEF Await, Return, Block, Calling, Stands, TypeOK, Given, Behind, Running, config, poolVars, threadVars, callerVars
<1>7. ASSUME NEW w \in Worker, Loop(w) PROVE Given' /\ Behind'
  BY <1>7 DEF Loop, TypeOK, Given, Behind, Running, config, poolVars, threadVars, callerVars
<1>8. ASSUME NEW w \in Worker, Idle(w) PROVE Given' /\ Behind'
  BY <1>8 DEF Idle, NotifyCallers, TypeOK, Given, Behind, Running, config, poolVars, threadVars, callerVars
<1>9. ASSUME NEW w \in Worker, Take(w) PROVE Given' /\ Behind'
  BY <1>9, TailOf DEF Take, TypeOK, Given, Behind, Running, config, poolVars, threadVars, callerVars
<1>10. ASSUME NEW w \in Worker, Break(w) PROVE Given' /\ Behind'
  BY <1>10 DEF Break, TypeOK, Given, Behind, Running, config, poolVars, threadVars, callerVars
<1>11. ASSUME NEW w \in Worker, Taken(w) PROVE Given' /\ Behind'
  BY <1>11 DEF Taken, NotifyCallers, TypeOK, Given, Behind, Running, config, poolVars, threadVars, callerVars
<1>12. ASSUME NEW w \in Worker, Run(w) PROVE Given' /\ Behind'
  BY <1>12 DEF Run, TypeOK, Given, Behind, Running, config, poolVars, threadVars, callerVars
<1>13. ASSUME NEW w \in Worker, Leave(w) PROVE Given' /\ Behind'
  BY <1>13 DEF Leave, TypeOK, Given, Behind, Running, config, poolVars, threadVars, callerVars
<1>14. ASSUME NEW w \in Worker, Last(w) PROVE Given' /\ Behind'
  BY <1>14 DEF Last, NotifyCallers, TypeOK, Given, Behind, Running, config, poolVars, threadVars, callerVars
<1>15. ASSUME SpuriousWake PROVE Given' /\ Behind'
  BY <1>15 DEF SpuriousWake, TypeOK, Given, Behind, Running, config, poolVars, threadVars, callerVars
<1>16. ASSUME UNCHANGED vars PROVE Given' /\ Behind'
  BY <1>16 DEF vars, TypeOK, Given, Behind, Running, config, poolVars, threadVars, callerVars
<1> QED BY <1>1, <1>2, <1>3, <1>4, <1>5, <1>6, <1>7, <1>8, <1>9, <1>10, <1>11, <1>12, <1>13, <1>14, <1>15, <1>16 DEF Next, CallerStep, Main

\* A thread leaves the map only when it has left the loop.
LEMMA ListedStep == IndInv /\ [Next]_vars => Listed' /\ Fresh'
<1> SUFFICES ASSUME IndInv, [Next]_vars PROVE Listed' /\ Fresh'
  OBVIOUS
<1> USE DEF IndInv
<1>1. ASSUME NEW c \in Caller, AddTask(c) PROVE Listed' /\ Fresh'
  <2>1. next_job_id' = next_job_id \/ next_job_id' = next_job_id + 1
    BY <1>1 DEF AddTask, Enqueue
  <2>2. next_job_id \in Int /\ Worker \subseteq Int
    BY Constants DEF TypeOK
  <2>3. \A w \in Worker : w < next_job_id => w < next_job_id'
    BY <2>1, <2>2
  <2> QED BY <1>1, <2>3 DEF AddTask, Listed, Fresh, config, threadVars
<1>2. ASSUME NEW c \in Caller, AddSignal(c) PROVE Listed' /\ Fresh'
  BY <1>2 DEF AddSignal, Stands, Return, NotifyOne, TypeOK, Listed, Fresh, config, poolVars, threadVars, callerVars
<1>3. ASSUME NEW c \in Caller, AddThread(c) PROVE Listed' /\ Fresh'
  <2>1. next_job_id \in Worker /\ next_job_id' = next_job_id + 1
    BY <1>3, NewThread DEF AddThread, Enqueue
  <2>2. next_job_id \in Int /\ Worker \subseteq Int
    BY <2>1, Constants
  <2>3. /\ \A w \in Worker : w < next_job_id => w < next_job_id'
        /\ next_job_id < next_job_id'
    BY <2>1, <2>2
  <2>4. \A w \in Worker : w # next_job_id => pc'[w] = pc[w]
    BY <1>3 DEF AddThread, TypeOK
  <2>5. Listed'
    BY <1>3, <2>4 DEF AddThread, Listed
  <2>6. Fresh'
    BY <1>3, <2>3, <2>4 DEF AddThread, Fresh, config
  <2> QED BY <2>5, <2>6
<1>4. ASSUME NEW c \in Caller, Exit(c) PROVE Listed' /\ Fresh'
  BY <1>4 DEF Exit, Return, NotifyThreads, Calling, Stands, TypeOK, Listed, Fresh, config, poolVars, threadVars, callerVars
<1>5. ASSUME NEW c \in Caller, Destroy(c) PROVE Listed' /\ Fresh'
  BY <1>5 DEF Destroy, Return, Calling, Stands, TypeOK, Listed, Fresh, config, poolVars, threadVars, callerVars
<1>6. ASSUME NEW c \in Caller, NEW f \in {"sync", "barrier", "jobs", "wait"}, Await(c, f) PROVE Listed' /\ Fresh'
  BY <1>6 DEF Await, Return, Block, Calling, Stands, TypeOK, Listed, Fresh, config, poolVars, threadVars, callerVars
<1>7. ASSUME NEW w \in Worker, Loop(w) PROVE Listed' /\ Fresh'
  BY <1>7 DEF Loop, TypeOK, Listed, Fresh, config, poolVars, threadVars, callerVars
<1>8. ASSUME NEW w \in Worker, Idle(w) PROVE Listed' /\ Fresh'
  BY <1>8 DEF Idle, NotifyCallers, TypeOK, Listed, Fresh, config, poolVars, threadVars, callerVars
<1>9. ASSUME NEW w \in Worker, Take(w) PROVE Listed' /\ Fresh'
  BY <1>9 DEF Take, TypeOK, Listed, Fresh, config, poolVars, threadVars, callerVars
<1>10. ASSUME NEW w \in Worker, Break(w) PROVE Listed' /\ Fresh'
  BY <1>10 DEF Break, TypeOK, Listed, Fresh, config, poolVars, threadVars, callerVars
<1>11. ASSUME NEW w \in Worker, Taken(w) PROVE Listed' /\ Fresh'
  BY <1>11 DEF Taken, NotifyCallers, TypeOK, Listed, Fresh, config, poolVars, threadVars, callerVars
<1>12. ASSUME NEW w \in Worker, Run(w) PROVE Listed' /\ Fresh'
  BY <1>12 DEF Run, TypeOK, Listed, Fresh, config, poolVars, threadVars, callerVars
<1>13. ASSUME NEW w \in Worker, Leave(w) PROVE Listed' /\ Fresh'
  BY <1>13 DEF Leave, TypeOK, Listed, Fresh, config, poolVars, threadVars, callerVars
<1>14. ASSUME NEW w \in Worker, Last(w) PROVE Listed' /\ Fresh'
  BY <1>14 DEF Last, NotifyCallers, TypeOK, Listed, Fresh, config, poolVars, threadVars, callerVars
<1>15. ASSUME SpuriousWake PROVE Listed' /\ Fresh'
  BY <1>15 DEF SpuriousWake, TypeOK, Listed, Fresh, config, poolVars, threadVars, callerVars
<1>16. ASSUME UNCHANGED vars PROVE Listed' /\ Fresh'
  BY <1>16 DEF vars, TypeOK, Listed, Fresh, config, poolVars, threadVars, callerVars
<1> QED BY <1>1, <1>2, <1>3, <1>4, <1>5, <1>6, <1>7, <1>8, <1>9, <1>10, <1>11, <1>12, <1>13, <1>14, <1>15, <1>16 DEF Next, CallerStep, Main

\* num_running follows the threads that run a task.
LEMMA CountedStep == IndInv /\ [Next]_vars => Counted'
<1> SUFFICES ASSUME IndInv, [Next]_vars PROVE Counted'
  OBVIOUS
<1> USE DEF IndInv
<1>1. ASSUME NEW c \in Caller, AddTask(c) PROVE Counted'
  BY <1>1 DEF AddTask, Enqueue, Block, Calling, Stands, TypeOK, Counted, Running, config, poolVars, threadVars, callerVars
<1>2. ASSUME NEW c \in Caller, AddSignal(c) PROVE Counted'
  BY <1>2 DEF AddSignal, Stands, Return, NotifyOne, TypeOK, Counted, Running, config, poolVars, threadVars, callerVars
<1>3. ASSUME NEW c \in Caller, AddThread(c) PROVE Counted'
  <2>1. next_job_id \in Worker /\ pc[next_job_id] = "new"
    BY <1>3, NewThread
  <2>2. Running' = Running
    BY <1>3, <2>1 DEF AddThread, Running, TypeOK
  <2> QED BY <1>3, <2>2 DEF AddThread, Counted
<1>4. ASSUME NEW c \in Caller, Exit(c) PROVE Counted'
  BY <1>4 DEF Exit, Return, NotifyThreads, Calling, Stands, TypeOK, Counted, Running, config, poolVars, threadVars, callerVars
<1>5. ASSUME NEW c \in Caller, Destroy(c) PROVE Counted'
  BY <1>5 DEF Destroy, Return, Calling, Stands, TypeOK, Counted, Running, config, poolVars, threadVars, callerVars
<1>6. ASSUME NEW c \in Caller, NEW f \in {"sync", "barrier", "jobs", "wait"}, Await(c, f) PROVE Counted'
  BY <1>6 DEF Await, Return, Block, Calling, Stands, TypeOK, Counted, Running, config, poolVars, threadVars, callerVars
<1>7. ASSUME NEW w \in Worker, Loop(w) PROVE Counted'
  BY <1>7 DEF Loop, TypeOK, Counted, Running, config, poolVars, threadVars, callerVars
<1>8. ASSUME NEW w \in Worker, Idle(w) PROVE Counted'
  BY <1>8 DEF Idle, NotifyCallers, TypeOK, Counted, Running, config, poolVars, threadVars, callerVars
<1>9. ASSUME NEW w \in Worker, Take(w) PROVE Counted'
  <2>1. w \notin Running /\ Running' = Running \cup {w}
    BY <1>9 DEF Take, Running, TypeOK
  <2> QED BY <1>9, <2>1, RunningFinite, FS_AddElement DEF Take, Counted
<1>10. ASSUME NEW w \in Worker, Break(w) PROVE Counted'
  BY <1>10 DEF Break, TypeOK, Counted, Running, config, poolVars, threadVars, callerVars
<1>11. ASSUME NEW w \in Worker, Taken(w) PROVE Counted'
  BY <1>11 DEF Taken, NotifyCallers, TypeOK, Counted, Running, config, poolVars, threadVars, callerVars
<1>12. ASSUME NEW w \in Worker, Run(w) PROVE Counted'
  <2>1. w \in Running /\ Running' = Running \ {w}
    BY <1>12 DEF Run, Running, TypeOK
  <2> QED BY <1>12, <2>1, RunningFinite, FS_RemoveElement DEF Run, Counted
<1>13. ASSUME NEW w \in Worker, Leave(w) PROVE Counted'
  BY <1>13 DEF Leave, TypeOK, Counted, Running, config, poolVars, threadVars, callerVars
<1>14. ASSUME NEW w \in Worker, Last(w) PROVE Counted'
  BY <1>14 DEF Last, NotifyCallers, TypeOK, Counted, Running, config, poolVars, threadVars, callerVars
<1>15. ASSUME SpuriousWake PROVE Counted'
  BY <1>15 DEF SpuriousWake, TypeOK, Counted, Running, config, poolVars, threadVars, callerVars
<1>16. ASSUME UNCHANGED vars PROVE Counted'
  BY <1>16 DEF vars, TypeOK, Counted, Running, config, poolVars, threadVars, callerVars
<1> QED BY <1>1, <1>2, <1>3, <1>4, <1>5, <1>6, <1>7, <1>8, <1>9, <1>10, <1>11, <1>12, <1>13, <1>14, <1>15, <1>16 DEF Next, CallerStep, Main

\* The inductive invariant: jobs are accounted for, pending until they have
\* finished, and num_running and the map of threads are exact.
THEOREM Invariance == Spec => []IndInv
<1>1. Init => IndInv
  BY Initially
<1>2. IndInv /\ [Next]_vars => IndInv'
  BY TypeStep, AccountedStep, GivenStep, ListedStep, CountedStep DEF IndInv
<1> QED BY <1>1, <1>2, PTL DEF Spec

\* Only Await lets one of the calls return that wait for something.
LEMMA ReturnsWhenMet ==
  ASSUME TypeOK, [Next]_vars, NEW c \in Caller,
         NEW f \in {"sync", "barrier", "jobs", "wait"}, Returns(c, f)
  PROVE  ~ MustWait(c, f)
<1>1. /\ script[c] # <<>> /\ Head(script[c]) = f /\ at[c] = "call"
      /\ script'[c] # script[c]
  BY DEF Returns, Calling, Stands
<1>2. ASSUME NEW d \in Caller, script' = [script EXCEPT ![d] = Tail(@)] PROVE d = c
  BY <1>1, <1>2 DEF TypeOK
<1>3. script' # script
  BY <1>1
<1>4. PICK d \in Caller : CallerStep(d)
  BY <1>3 DEF Next, Main, SpuriousWake, vars, callerVars, Loop, Idle, Take, Break, Taken,
              Run, Leave, Last
<1>5. ~ AddTask(d)
  BY <1>3 DEF AddTask, Block
<1>6. ~ AddSignal(d)
  BY <1>1, <1>2 DEF AddSignal, Return
<1>7. ~ AddThread(d) /\ ~ Exit(d) /\ ~ Destroy(d)
  BY <1>1, <1>2 DEF AddThread, Exit, Destroy, Calling, Stands, Return
<1>8. PICK g \in {"sync", "barrier", "jobs", "wait"} : Await(d, g)
  BY <1>4, <1>5, <1>6, <1>7 DEF CallerStep
<1>9. ~ MustWait(d, g) /\ Return(d) /\ Head(script[d]) = g
  BY <1>3, <1>8 DEF Await, Block, Calling, Stands
<1>10. d = c
  BY <1>2, <1>9 DEF Return
<1> QED BY <1>1, <1>9, <1>10

\* sync() returns only when every task that was added has returned: with
\* num_running zero nobody has a task, and the queue is empty
\* (ThreadPool.cpp:99).
THEOREM SyncIsSafe == Spec => SyncMeansFinished
<1>1. ASSUME IndInv, NEW c \in Caller, [Next]_vars, Returns(c, "sync")
      PROVE  \A j \in Job : j < next_job_id => j \in finished
  <2>1. num_running = 0 /\ queue = <<>>
    BY <1>1, ReturnsWhenMet DEF IndInv, MustWait
  <2>2. Running = {}
    BY <1>1, <2>1, RunningFinite, FS_EmptySet DEF IndInv, Counted
  <2> QED BY <1>1, <2>1, <2>2 DEF IndInv, Accounted
<1>2. IndInv /\ [Next]_vars =>
        [\A c \in Caller : Returns(c, "sync") =>
           \A j \in Job : j < next_job_id => j \in finished]_vars
  BY <1>1
<1> QED BY <1>2, Invariance, PTL DEF Spec, SyncMeansFinished

\* sync(barrier) and sync(jobs) return only when the jobs have finished: those
\* that were given out and have not are pending (ThreadPool.cpp:107, 121).
THEOREM BarrierIsSafe == Spec => BarrierMeansFinished
<1> DEFINE A == \A c \in Caller :
         /\ Returns(c, "barrier") =>
              \A j \in Job, k \in added[c] : j <= k => j \in finished
         /\ Returns(c, "jobs") => added[c] \subseteq finished
<1>1. ASSUME IndInv, NEW c \in Caller, [Next]_vars, Returns(c, "barrier")
      PROVE  \A j \in Job, k \in added[c] : j <= k => j \in finished
  <2>1. ~ \E j \in pending_jobs, k \in added[c] : j <= k
    BY <1>1, ReturnsWhenMet DEF IndInv, MustWait
  <2>2. \A k \in added[c] : k \in Int /\ k < next_job_id
    BY <1>1, Constants DEF IndInv, TypeOK, Given
  <2>3. next_job_id \in Int /\ Job \subseteq Int
    BY <1>1, Constants DEF IndInv, TypeOK
  <2>4. \A j \in Job, k \in added[c] : j <= k => j < next_job_id
    BY <2>2, <2>3
  <2> QED BY <1>1, <2>1, <2>4 DEF IndInv, Pending
<1>2. ASSUME IndInv, NEW c \in Caller, [Next]_vars, Returns(c, "jobs")
      PROVE  added[c] \subseteq finished
  <2>1. \A j \in added[c] : j \notin pending_jobs
    BY <1>2, ReturnsWhenMet DEF IndInv, MustWait
  <2>2. \A j \in added[c] : j \in Job /\ j < next_job_id
    BY <1>2 DEF IndInv, TypeOK, Given
  <2> QED BY <1>2, <2>1, <2>2 DEF IndInv, Pending
<1>3. IndInv /\ [Next]_vars => [A]_vars
  BY <1>1, <1>2
<1> QED BY <1>3, Invariance, PTL DEF Spec, BarrierMeansFinished

\* After wait() no thread runs a task or will take one: the threads that could
\* are in the map (ThreadPool.cpp:92).
THEOREM WaitIsSafe == Spec => WaitMeansOver
<1>1. ASSUME IndInv, NEW c \in Caller, [Next]_vars, Returns(c, "wait")
      PROVE  \A w \in Worker : pc[w] \in {"new", "notify", "gone"}
  <2>1. threads = {}
    BY <1>1, ReturnsWhenMet DEF IndInv, MustWait
  <2> QED BY <1>1, <2>1 DEF IndInv, Listed
<1>2. IndInv /\ [Next]_vars =>
        [\A c \in Caller : Returns(c, "wait") =>
           \A w \in Worker : pc[w] \in {"new", "notify", "gone"}]_vars
  BY <1>1
<1> QED BY <1>2, Invariance, PTL DEF Spec, WaitMeansOver

-----------------------------------------------------------------------------
(* A task runs once. *)

\* Initially there is no task.
LEMMA InitSingle == Init => Single
BY DEF Init, Single, Running

\* A new job is not that of another task.
LEMMA EnqueueSingle ==
  ASSUME IndInv, Single, NEW c \in Caller, Enqueue(c), Running' = Running,
         UNCHANGED <<entry, finished>>
  PROVE  Single'
<1>1. next_job_id \in Job /\ queue \in Seq(Job) /\ queue' = Append(queue, next_job_id)
  BY EnqueueType DEF IndInv, TypeOK, Enqueue
<1>2. next_job_id \in Int /\ ~ (next_job_id < next_job_id)
  BY <1>1, Constants
<1>3. /\ \A i \in DOMAIN queue : queue[i] # next_job_id
      /\ next_job_id \notin finished
      /\ \A w \in Running : entry[w] # next_job_id
  BY <1>1, <1>2 DEF IndInv, Given, Running
<1>4. \A i \in DOMAIN queue' : (i \in DOMAIN queue /\ queue'[i] = queue[i]) \/ (i = Len(queue) + 1 /\ queue'[i] = next_job_id)
  BY <1>1
<1> QED BY <1>3, <1>4 DEF Single

\* A step that leaves the tasks where they are.
LEMMA SameTasks ==
  ASSUME Single, Running' = Running, \A w \in Running : entry'[w] = entry[w],
         UNCHANGED <<queue, finished>>
  PROVE  Single'
BY DEF Single

\* A step gives no task to two threads, and none to one that has returned.
LEMMA SingleStep == IndInv /\ Single /\ [Next]_vars => Single'
<1> SUFFICES ASSUME IndInv, Single, [Next]_vars PROVE Single'
  OBVIOUS
<1>0. TypeOK /\ Behind
  BY DEF IndInv
<1>1. ASSUME NEW c \in Caller, AddTask(c) PROVE Single'
  <2>1. Running' = Running
    BY <1>1 DEF AddTask, Running, threadVars
  <2>2. CASE Enqueue(c)
    BY <1>1, <2>1, <2>2, EnqueueSingle DEF AddTask, threadVars
  <2>3. CASE UNCHANGED queue
    BY <1>1, <2>1, <2>3, SameTasks DEF AddTask, threadVars
  <2> QED BY <1>1, <2>2, <2>3 DEF AddTask
<1>2. ASSUME NEW c \in Caller, AddSignal(c) PROVE Single'
  <2>1. Running' = Running
    BY <1>0, <1>2 DEF AddSignal, NotifyOne, TypeOK, Running, threadVars
  <2> QED BY <1>2, <2>1, SameTasks DEF AddSignal, NotifyOne, poolVars, threadVars
<1>3. ASSUME NEW c \in Caller, AddThread(c) PROVE Single'
  <2>1. next_job_id \in Worker /\ pc[next_job_id] = "new"
    BY <1>3, NewThread
  <2>2. Running' = Running
    BY <1>0, <1>3, <2>1 DEF AddThread, Running, TypeOK
  <2> QED BY <1>3, <2>2, EnqueueSingle DEF AddThread
<1>4. ASSUME NEW c \in Caller, Exit(c) PROVE Single'
  <2>1. Running' = Running
    BY <1>0, <1>4 DEF Exit, NotifyThreads, TypeOK, Running, threadVars
  <2> QED BY <1>4, <2>1, SameTasks DEF Exit, NotifyThreads, poolVars, threadVars
<1>5. ASSUME NEW c \in Caller, Destroy(c) PROVE Single'
  <2>1. Running' = Running
    BY <1>0, <1>5 DEF Destroy, TypeOK, Running, threadVars
  <2> QED BY <1>5, <2>1, SameTasks DEF Destroy, poolVars, threadVars
<1>6. ASSUME NEW c \in Caller, NEW f \in {"sync", "barrier", "jobs", "wait"}, Await(c, f) PROVE Single'
  <2>1. Running' = Running
    BY <1>0, <1>6 DEF Await, TypeOK, Running, threadVars
  <2> QED BY <1>6, <2>1, SameTasks DEF Await, poolVars, threadVars
<1>7. ASSUME NEW w \in Worker, Loop(w) PROVE Single'
  <2>1. Running' = Running
    BY <1>0, <1>7 DEF Loop, TypeOK, Running, threadVars
  <2> QED BY <1>7, <2>1, SameTasks DEF Loop, poolVars, threadVars
<1>8. ASSUME NEW w \in Worker, Idle(w) PROVE Single'
  <2>1. Running' = Running
    BY <1>0, <1>8 DEF Idle, TypeOK, Running, threadVars
  <2> QED BY <1>8, <2>1, SameTasks DEF Idle, poolVars, threadVars
<1>9. ASSUME NEW w \in Worker, Take(w) PROVE Single'
  <2>1. w \notin Running /\ Running' = Running \cup {w} /\ queue \in Seq(Job) /\ queue # <<>>
    BY <1>0, <1>9 DEF Take, Running, TypeOK
  <2>2. /\ 1 \in DOMAIN queue /\ Head(queue) = queue[1]
        /\ \A i \in DOMAIN queue' : i + 1 \in DOMAIN queue /\ queue'[i] = queue[i + 1] /\ i + 1 # 1
        /\ \A i, k \in DOMAIN queue' : i + 1 = k + 1 => i = k
    <3>1. queue' = Tail(queue)
      BY <1>9 DEF Take
    <3>2. \A i \in DOMAIN queue' : i \in Nat /\ 1 <= i
      BY <2>1, <3>1, TailOf
    <3>3. \A i \in DOMAIN queue' : i + 1 # 1
      BY <3>2
    <3> QED BY <2>1, <3>1, <3>2, <3>3, TailOf
  <2>3. entry'[w] = queue[1] /\ \A v \in Running : entry'[v] = entry[v]
    BY <1>0, <1>9, <2>1, <2>2 DEF Take, TypeOK, Running
  <2>4. \A i, k \in DOMAIN queue' : queue'[i] = queue'[k] => i = k
    BY <2>2 DEF Single
  <2>5. \A v, u \in Running' : entry'[v] = entry'[u] => v = u
    BY <2>1, <2>2, <2>3 DEF Single
  <2>6. \A i \in DOMAIN queue' : queue'[i] \notin finished /\ \A v \in Running' : entry'[v] # queue'[i]
    BY <2>1, <2>2, <2>3 DEF Single
  <2>7. \A v \in Running' : entry'[v] \notin finished
    BY <2>1, <2>2, <2>3 DEF Single
  <2>8. finished' = finished
    BY <1>9 DEF Take
  <2> QED BY <2>4, <2>5, <2>6, <2>7, <2>8 DEF Single
<1>10. ASSUME NEW w \in Worker, Break(w) PROVE Single'
  <2>1. Running' = Running
    BY <1>0, <1>10 DEF Break, TypeOK, Running, threadVars
  <2> QED BY <1>10, <2>1, SameTasks DEF Break, poolVars, threadVars
<1>11. ASSUME NEW w \in Worker, Taken(w) PROVE Single'
  <2>1. Running' = Running
    BY <1>0, <1>11 DEF Taken, TypeOK, Running, threadVars
  <2> QED BY <1>11, <2>1, SameTasks DEF Taken, poolVars, threadVars
<1>12. ASSUME NEW w \in Worker, Run(w) PROVE Single'
  <2>1. w \in Running /\ Running' = Running \ {w}
    BY <1>0, <1>12 DEF Run, Running, TypeOK
  <2>2. finished' = finished \cup {entry[w]} /\ queue' = queue /\ entry' = entry
    BY <1>12 DEF Run
  <2> QED BY <2>1, <2>2 DEF Single
<1>13. ASSUME NEW w \in Worker, Leave(w) PROVE Single'
  <2>1. Running' = Running
    BY <1>0, <1>13 DEF Leave, TypeOK, Running, threadVars
  <2> QED BY <1>13, <2>1, SameTasks DEF Leave, poolVars, threadVars
<1>14. ASSUME NEW w \in Worker, Last(w) PROVE Single'
  <2>1. Running' = Running
    BY <1>0, <1>14 DEF Last, TypeOK, Running, threadVars
  <2> QED BY <1>14, <2>1, SameTasks DEF Last, poolVars, threadVars
<1>15. ASSUME SpuriousWake PROVE Single'
  <2>1. Running' = Running
    BY <1>0, <1>15 DEF SpuriousWake, TypeOK, Running, threadVars
  <2> QED BY <1>15, <2>1, SameTasks DEF SpuriousWake, poolVars
<1>16. ASSUME UNCHANGED vars PROVE Single'
  BY <1>16 DEF vars, Single, Running, poolVars, threadVars
<1> QED BY <1>1, <1>2, <1>3, <1>4, <1>5, <1>6, <1>7, <1>8, <1>9, <1>10, <1>11, <1>12, <1>13, <1>14, <1>15, <1>16 DEF Next, CallerStep, Main

\* The three places of a job hold one task between them.
LEMMA CountedOnce == IndInv /\ Single => RunsOnce
<1> SUFFICES ASSUME IndInv, Single, NEW j \in Job
    PROVE  Cardinality({i \in DOMAIN queue : queue[i] = j})
             + Cardinality({w \in Running : entry[w] = j})
             + Cardinality({j} \cap finished)
           = IF j < next_job_id THEN 1 ELSE 0
  BY DEF RunsOnce
<1> DEFINE Q == {i \in DOMAIN queue : queue[i] = j}
           R == {w \in Running : entry[w] = j}
           F == {j} \cap finished
<1>1. Q = {} \/ \E i : Q = {i}
  <2>1. \A i, k \in Q : i = k
    BY DEF Single
  <2> QED BY <2>1
<1>2. R = {} \/ \E w : R = {w}
  <2>1. \A w, v \in R : w = v
    BY DEF Single
  <2> HIDE DEF R
  <2> QED BY <2>1
<1>3. F = {} \/ F = {j}
  OBVIOUS
<1>4. (Q = {} /\ R = {}) \/ (Q = {} /\ F = {}) \/ (R = {} /\ F = {})
  BY DEF Single
<1>5. j < next_job_id => Q # {} \/ R # {} \/ F # {}
  BY DEF IndInv, Accounted
<1>6. ~ (j < next_job_id) => Q = {} /\ R = {} /\ F = {}
  BY DEF IndInv, Given, Running
<1>7. Cardinality({}) = 0 /\ \A x : Cardinality({x}) = 1
  BY FS_EmptySet, FS_Singleton
<1>8. /\ Q = {} => Cardinality(Q) = 0
      /\ Q # {} => Cardinality(Q) = 1
      /\ R = {} => Cardinality(R) = 0
      /\ R # {} => Cardinality(R) = 1
      /\ F = {} => Cardinality(F) = 0
      /\ F # {} => Cardinality(F) = 1
  BY <1>1, <1>2, <1>3, <1>7
<1> HIDE DEF Q, R, F
<1>9. Cardinality(Q) + Cardinality(R) + Cardinality(F) = IF j < next_job_id THEN 1 ELSE 0
  BY <1>4, <1>5, <1>6, <1>8
<1> QED BY <1>9 DEF Q, R, F

\* A task is run once, and none is lost: a job that was given out is in the queue,
\* or with one thread, or has finished, also in a pool that was told to exit
\* (ThreadPool.cpp: add_task, main).
THEOREM RunOnce == Spec => []RunsOnce
<1>1. Init => Single
  BY InitSingle
<1>2. IndInv /\ Single /\ [Next]_vars => Single'
  BY SingleStep
<1>3. IndInv /\ Single => RunsOnce
  BY CountedOnce
<1> QED BY <1>1, <1>2, <1>3, Invariance, PTL DEF Spec

-----------------------------------------------------------------------------
(* No wake-up is lost. *)

\* A new job has not finished.
LEMMA NewJob ==
  ASSUME IndInv, NEW c \in Caller, Enqueue(c)
  PROVE  next_job_id \in Job /\ next_job_id \notin finished
<1>1. next_job_id \in Job
  BY EnqueueType DEF IndInv
<1>2. next_job_id \in Int /\ ~ (next_job_id < next_job_id)
  BY <1>1, Constants
<1> QED BY <1>1, <1>2 DEF IndInv, Given

\* Finitely many threads are on their way to the queue.
LEMMA ArrivingFinite == IsFiniteSet(Arriving)
<1>1. IsFiniteSet(Worker)
  BY ConstantsAssumption, FS_Interval DEF Worker
<1> QED BY <1>1, FS_Subset DEF Arriving

\* Initially the threads are about, and nobody waits.
LEMMA InitWake == Init => WakeInv
<1> SUFFICES ASSUME Init PROVE WakeInv
  OBVIOUS
<1>1. num_threads \in Int /\ \A n \in Worker : n \in Int /\ 0 <= n
  BY Constants DEF Init, Worker
<1>2. num_threads > 0 => 0 \in Worker
  BY <1>1, ConstantsAssumption DEF Init, Worker
<1>3. ThreadsWoken /\ CallersWoken /\ Erased /\ ExitWakes /\ ListedOnly /\ FixedCallers
  BY DEF Init, ThreadsWoken, CallersWoken, Erased, ExitWakes, ListedOnly, FixedCallers
<1>4. Fixed
  BY <1>1, <1>2 DEF Init, Fixed
<1>5. OneForEach
  <2>1. num_threads < 0 => Arriving = {}
    BY <1>1 DEF Init, Arriving
  <2> QED BY <2>1, FS_EmptySet DEF Init, OneForEach
<1> QED BY <1>3, <1>4, <1>5 DEF WakeInv

\* Threads wait only in a pool that runs, and leave only one that does not.
LEMMA ThreadsStep == IndInv /\ ExitWakes /\ ListedOnly /\ Fixed /\ [Next]_vars => ExitWakes' /\ ListedOnly' /\ Fixed'
<1> SUFFICES ASSUME IndInv, ExitWakes, ListedOnly, Fixed, [Next]_vars PROVE ExitWakes' /\ ListedOnly' /\ Fixed'
  OBVIOUS
<1>0. TypeOK
  BY DEF IndInv
<1>1. ASSUME NEW c \in Caller, AddTask(c) PROVE ExitWakes' /\ ListedOnly' /\ Fixed'
  BY <1>0, <1>1 DEF AddTask, Enqueue, Block, Calling, Stands, TypeOK, ExitWakes, ListedOnly, Fixed, config, poolVars, threadVars, callerVars
<1>2. ASSUME NEW c \in Caller, AddSignal(c) PROVE ExitWakes' /\ ListedOnly' /\ Fixed'
  BY <1>0, <1>2 DEF AddSignal, Stands, Return, NotifyOne, TypeOK, ExitWakes, ListedOnly, Fixed, config, poolVars, threadVars, callerVars
<1>3. ASSUME NEW c \in Caller, AddThread(c) PROVE ExitWakes' /\ ListedOnly' /\ Fixed'
  <2>1. next_job_id \in Worker /\ pc[next_job_id] = "new"
    BY <1>3, NewThread
  <2> QED BY <1>0, <1>3, <2>1 DEF AddThread, Enqueue, Return, Calling, Stands, TypeOK, ExitWakes, ListedOnly, Fixed, config
<1>4. ASSUME NEW c \in Caller, Exit(c) PROVE ExitWakes' /\ ListedOnly' /\ Fixed'
  BY <1>0, <1>4 DEF Exit, Return, NotifyThreads, Calling, Stands, TypeOK, ExitWakes, ListedOnly, Fixed, config, poolVars, threadVars, callerVars
<1>5. ASSUME NEW c \in Caller, Destroy(c) PROVE ExitWakes' /\ ListedOnly' /\ Fixed'
  BY <1>0, <1>5 DEF Destroy, Return, Calling, Stands, TypeOK, ExitWakes, ListedOnly, Fixed, config, poolVars, threadVars, callerVars
<1>6. ASSUME NEW c \in Caller, NEW f \in {"sync", "barrier", "jobs", "wait"}, Await(c, f) PROVE ExitWakes' /\ ListedOnly' /\ Fixed'
  BY <1>0, <1>6 DEF Await, Return, Block, Calling, Stands, TypeOK, ExitWakes, ListedOnly, Fixed, config, poolVars, threadVars, callerVars
<1>7. ASSUME NEW w \in Worker, Loop(w) PROVE ExitWakes' /\ ListedOnly' /\ Fixed'
  BY <1>0, <1>7 DEF Loop, TypeOK, ExitWakes, ListedOnly, Fixed, config, poolVars, threadVars, callerVars
<1>8. ASSUME NEW w \in Worker, Idle(w) PROVE ExitWakes' /\ ListedOnly' /\ Fixed'
  BY <1>0, <1>8 DEF Idle, NotifyCallers, TypeOK, ExitWakes, ListedOnly, Fixed, config, poolVars, threadVars, callerVars
<1>9. ASSUME NEW w \in Worker, Take(w) PROVE ExitWakes' /\ ListedOnly' /\ Fixed'
  BY <1>0, <1>9 DEF Take, TypeOK, ExitWakes, ListedOnly, Fixed, config, poolVars, threadVars, callerVars
<1>10. ASSUME NEW w \in Worker, Break(w) PROVE ExitWakes' /\ ListedOnly' /\ Fixed'
  BY <1>0, <1>10 DEF Break, TypeOK, ExitWakes, ListedOnly, Fixed, config, poolVars, threadVars, callerVars
<1>11. ASSUME NEW w \in Worker, Taken(w) PROVE ExitWakes' /\ ListedOnly' /\ Fixed'
  BY <1>0, <1>11 DEF Taken, NotifyCallers, TypeOK, ExitWakes, ListedOnly, Fixed, config, poolVars, threadVars, callerVars
<1>12. ASSUME NEW w \in Worker, Run(w) PROVE ExitWakes' /\ ListedOnly' /\ Fixed'
  <2>1. num_threads > 0 => ~ (num_threads <= 0)
    BY <1>0, Constants DEF TypeOK
  <2> QED BY <1>0, <1>12, <2>1 DEF Run, TypeOK, ExitWakes, ListedOnly, Fixed, config, callerVars
<1>13. ASSUME NEW w \in Worker, Leave(w) PROVE ExitWakes' /\ ListedOnly' /\ Fixed'
  BY <1>0, <1>13 DEF Leave, TypeOK, ExitWakes, ListedOnly, Fixed, config, poolVars, threadVars, callerVars
<1>14. ASSUME NEW w \in Worker, Last(w) PROVE ExitWakes' /\ ListedOnly' /\ Fixed'
  BY <1>0, <1>14 DEF Last, NotifyCallers, TypeOK, ExitWakes, ListedOnly, Fixed, config, poolVars, threadVars, callerVars
<1>15. ASSUME SpuriousWake PROVE ExitWakes' /\ ListedOnly' /\ Fixed'
  BY <1>0, <1>15 DEF SpuriousWake, TypeOK, ExitWakes, ListedOnly, Fixed, config, poolVars, threadVars, callerVars
<1>16. ASSUME UNCHANGED vars PROVE ExitWakes' /\ ListedOnly' /\ Fixed'
  BY <1>0, <1>16 DEF vars, TypeOK, ExitWakes, ListedOnly, Fixed, config, poolVars, threadVars, callerVars
<1> QED BY <1>1, <1>2, <1>3, <1>4, <1>5, <1>6, <1>7, <1>8, <1>9, <1>10, <1>11, <1>12, <1>13, <1>14, <1>15, <1>16 DEF Next, CallerStep, Main

\* Who waits for room, or notifies a thread, uses a fixed pool.
LEMMA CallersStep == IndInv /\ FixedCallers /\ [Next]_vars => FixedCallers'
<1> SUFFICES ASSUME IndInv, FixedCallers, [Next]_vars PROVE FixedCallers'
  OBVIOUS
<1>0. TypeOK
  BY DEF IndInv
<1>1. ASSUME NEW c \in Caller, AddTask(c) PROVE FixedCallers'
  BY <1>0, <1>1 DEF AddTask, Enqueue, Block, Calling, Stands, TypeOK, FixedCallers, Stands, config, poolVars, threadVars, callerVars
<1>2. ASSUME NEW c \in Caller, AddSignal(c) PROVE FixedCallers'
  BY <1>0, <1>2 DEF AddSignal, Stands, Return, NotifyOne, TypeOK, FixedCallers, Stands, config, poolVars, threadVars, callerVars
<1>3. ASSUME NEW c \in Caller, AddThread(c) PROVE FixedCallers'
  BY <1>0, <1>3 DEF AddThread, Enqueue, Return, Calling, Stands, TypeOK, FixedCallers, Stands, config, poolVars, threadVars, callerVars
<1>4. ASSUME NEW c \in Caller, Exit(c) PROVE FixedCallers'
  BY <1>0, <1>4 DEF Exit, Return, NotifyThreads, Calling, Stands, TypeOK, FixedCallers, Stands, config, poolVars, threadVars, callerVars
<1>5. ASSUME NEW c \in Caller, Destroy(c) PROVE FixedCallers'
  BY <1>0, <1>5 DEF Destroy, Return, Calling, Stands, TypeOK, FixedCallers, Stands, config, poolVars, threadVars, callerVars
<1>6. ASSUME NEW c \in Caller, NEW f \in {"sync", "barrier", "jobs", "wait"}, Await(c, f) PROVE FixedCallers'
  BY <1>0, <1>6 DEF Await, Return, Block, Calling, Stands, TypeOK, FixedCallers, Stands, config, poolVars, threadVars, callerVars
<1>7. ASSUME NEW w \in Worker, Loop(w) PROVE FixedCallers'
  BY <1>0, <1>7 DEF Loop, TypeOK, FixedCallers, Stands, config, poolVars, threadVars, callerVars
<1>8. ASSUME NEW w \in Worker, Idle(w) PROVE FixedCallers'
  BY <1>0, <1>8 DEF Idle, NotifyCallers, TypeOK, FixedCallers, Stands, config, poolVars, threadVars, callerVars
<1>9. ASSUME NEW w \in Worker, Take(w) PROVE FixedCallers'
  BY <1>0, <1>9 DEF Take, TypeOK, FixedCallers, Stands, config, poolVars, threadVars, callerVars
<1>10. ASSUME NEW w \in Worker, Break(w) PROVE FixedCallers'
  BY <1>0, <1>10 DEF Break, TypeOK, FixedCallers, Stands, config, poolVars, threadVars, callerVars
<1>11. ASSUME NEW w \in Worker, Taken(w) PROVE FixedCallers'
  BY <1>0, <1>11 DEF Taken, NotifyCallers, TypeOK, FixedCallers, Stands, config, poolVars, threadVars, callerVars
<1>12. ASSUME NEW w \in Worker, Run(w) PROVE FixedCallers'
  BY <1>0, <1>12 DEF Run, TypeOK, FixedCallers, Stands, config, poolVars, threadVars, callerVars
<1>13. ASSUME NEW w \in Worker, Leave(w) PROVE FixedCallers'
  BY <1>0, <1>13 DEF Leave, TypeOK, FixedCallers, Stands, config, poolVars, threadVars, callerVars
<1>14. ASSUME NEW w \in Worker, Last(w) PROVE FixedCallers'
  BY <1>0, <1>14 DEF Last, NotifyCallers, TypeOK, FixedCallers, Stands, config, poolVars, threadVars, callerVars
<1>15. ASSUME SpuriousWake PROVE FixedCallers'
  BY <1>0, <1>15 DEF SpuriousWake, TypeOK, FixedCallers, Stands, config, poolVars, threadVars, callerVars
<1>16. ASSUME UNCHANGED vars PROVE FixedCallers'
  BY <1>0, <1>16 DEF vars, TypeOK, FixedCallers, Stands, config, poolVars, threadVars, callerVars
<1> QED BY <1>1, <1>2, <1>3, <1>4, <1>5, <1>6, <1>7, <1>8, <1>9, <1>10, <1>11, <1>12, <1>13, <1>14, <1>15, <1>16 DEF Next, CallerStep, Main

\* A job that has finished is erased by the thread that ran it.
LEMMA ErasedStep == IndInv /\ Erased /\ [Next]_vars => Erased'
<1> SUFFICES ASSUME IndInv, Erased, [Next]_vars PROVE Erased'
  OBVIOUS
<1>0. TypeOK
  BY DEF IndInv
<1>1. ASSUME NEW c \in Caller, AddTask(c) PROVE Erased'
  <2>1. CASE Enqueue(c)
    BY <1>0, <1>1, <2>1, NewJob, ZenonT(60) DEF AddTask, Enqueue, TypeOK, Erased, threadVars
  <2>2. CASE UNCHANGED pending_jobs
    BY <1>1, <2>2 DEF AddTask, Erased, threadVars
  <2> QED BY <1>1, <2>1, <2>2 DEF AddTask
<1>2. ASSUME NEW c \in Caller, AddSignal(c) PROVE Erased'
  BY <1>0, <1>2, ZenonT(60) DEF AddSignal, Stands, Return, NotifyOne, TypeOK, Erased, config, poolVars, threadVars, callerVars
<1>3. ASSUME NEW c \in Caller, AddThread(c) PROVE Erased'
  <2>1. next_job_id \in Worker /\ pc[next_job_id] = "new"
    BY <1>3, NewThread
  <2>2. Enqueue(c) /\ next_job_id \notin finished
    BY <1>3, NewJob DEF AddThread
  <2>3. \A w \in Worker : w # next_job_id => pc'[w] = pc[w]
    BY <1>0, <1>3 DEF AddThread, TypeOK
  <2> QED BY <1>3, <2>1, <2>2, <2>3 DEF AddThread, Enqueue, Erased
<1>4. ASSUME NEW c \in Caller, Exit(c) PROVE Erased'
  BY <1>0, <1>4 DEF Exit, Return, NotifyThreads, Calling, Stands, TypeOK, Erased, config, poolVars, threadVars, callerVars
<1>5. ASSUME NEW c \in Caller, Destroy(c) PROVE Erased'
  BY <1>0, <1>5 DEF Destroy, Return, Calling, Stands, TypeOK, Erased, config, poolVars, threadVars, callerVars
<1>6. ASSUME NEW c \in Caller, NEW f \in {"sync", "barrier", "jobs", "wait"}, Await(c, f) PROVE Erased'
  BY <1>0, <1>6 DEF Await, Return, Block, Calling, Stands, TypeOK, Erased, config, poolVars, threadVars, callerVars
<1>7. ASSUME NEW w \in Worker, Loop(w) PROVE Erased'
  BY <1>0, <1>7 DEF Loop, TypeOK, Erased, config, poolVars, threadVars, callerVars
<1>8. ASSUME NEW w \in Worker, Idle(w) PROVE Erased'
  BY <1>0, <1>8 DEF Idle, NotifyCallers, TypeOK, Erased, config, poolVars, threadVars, callerVars
<1>9. ASSUME NEW w \in Worker, Take(w) PROVE Erased'
  BY <1>0, <1>9 DEF Take, TypeOK, Erased, config, poolVars, threadVars, callerVars
<1>10. ASSUME NEW w \in Worker, Break(w) PROVE Erased'
  BY <1>0, <1>10 DEF Break, TypeOK, Erased, config, poolVars, threadVars, callerVars
<1>11. ASSUME NEW w \in Worker, Taken(w) PROVE Erased'
  BY <1>0, <1>11 DEF Taken, NotifyCallers, TypeOK, Erased, config, poolVars, threadVars, callerVars
<1>12. ASSUME NEW w \in Worker, Run(w) PROVE Erased'
  BY <1>0, <1>12 DEF Run, TypeOK, Erased, config, poolVars, threadVars, callerVars
<1>13. ASSUME NEW w \in Worker, Leave(w) PROVE Erased'
  BY <1>0, <1>13 DEF Leave, TypeOK, Erased, config, poolVars, threadVars, callerVars
<1>14. ASSUME NEW w \in Worker, Last(w) PROVE Erased'
  BY <1>0, <1>14 DEF Last, NotifyCallers, TypeOK, Erased, config, poolVars, threadVars, callerVars
<1>15. ASSUME SpuriousWake PROVE Erased'
  BY <1>0, <1>15, ZenonT(60) DEF SpuriousWake, TypeOK, Erased, config, poolVars, threadVars, callerVars
<1>16. ASSUME UNCHANGED vars PROVE Erased'
  BY <1>0, <1>16 DEF vars, TypeOK, Erased, config, poolVars, threadVars, callerVars
<1> QED BY <1>1, <1>2, <1>3, <1>4, <1>5, <1>6, <1>7, <1>8, <1>9, <1>10, <1>11, <1>12, <1>13, <1>14, <1>15, <1>16 DEF Next, CallerStep, Main

\* With a thread for each task none finds the queue empty.
LEMMA OneForEachStep == IndInv /\ OneForEach /\ [Next]_vars => OneForEach'
<1> SUFFICES ASSUME IndInv, OneForEach, [Next]_vars PROVE OneForEach'
  OBVIOUS
<1>0. TypeOK /\ num_threads \in Int
  BY Constants DEF IndInv, TypeOK
<1>1. ASSUME NEW c \in Caller, AddTask(c) PROVE OneForEach'
  <2>1. ~ (num_threads < 0)
    BY <1>0, <1>1, Constants DEF AddTask, TypeOK
  <2> QED BY <1>1, <2>1 DEF AddTask, OneForEach, config
<1>2. ASSUME NEW c \in Caller, AddSignal(c) PROVE OneForEach'
  <2>1. CASE num_threads < 0 /\ do_run
    <3>1. Arriving' = Arriving /\ \A v \in Worker : pc'[v] # "wait"
      BY <1>0, <1>2, <2>1 DEF AddSignal, Stands, Return, NotifyOne, TypeOK, OneForEach, Arriving, threadVars
    <3> QED BY <1>2, <2>1, <3>1 DEF AddSignal, OneForEach, config, poolVars
  <2>2. CASE ~ (num_threads < 0 /\ do_run)
    BY <1>2, <2>2 DEF AddSignal, OneForEach, config, poolVars
  <2> QED BY <2>1, <2>2
<1>3. ASSUME NEW c \in Caller, AddThread(c) PROVE OneForEach'
  <2>1. next_job_id \in Worker /\ pc[next_job_id] = "new"
    BY <1>3, NewThread
  <2>2. queue \in Seq(Job) /\ queue' = Append(queue, next_job_id)
    BY <1>0, <1>3 DEF AddThread, Enqueue, TypeOK
  <2>3. Len(queue') = Len(queue) + 1
    BY <2>2
  <2>4. Arriving' = Arriving \cup {next_job_id} /\ next_job_id \notin Arriving
    BY <1>0, <1>3, <2>1 DEF AddThread, Arriving, TypeOK
  <2>5. Cardinality(Arriving') = Cardinality(Arriving) + 1
    BY <2>4, ArrivingFinite, FS_AddElement
  <2>6. (\A w \in Worker : pc[w] # "wait") => \A w \in Worker : pc'[w] # "wait"
    BY <1>0, <1>3 DEF AddThread, TypeOK
  <2> QED BY <1>3, <2>3, <2>5, <2>6 DEF AddThread, OneForEach, config
<1>4. ASSUME NEW c \in Caller, Exit(c) PROVE OneForEach'
  BY <1>4 DEF Exit, OneForEach
<1>5. ASSUME NEW c \in Caller, Destroy(c) PROVE OneForEach'
  <2>1. CASE num_threads < 0 /\ do_run
    <3>1. Arriving' = Arriving /\ \A v \in Worker : pc'[v] # "wait"
      BY <1>0, <1>5, <2>1 DEF Destroy, Return, Calling, Stands, TypeOK, OneForEach, Arriving, threadVars
    <3> QED BY <1>5, <2>1, <3>1 DEF Destroy, OneForEach, config, poolVars
  <2>2. CASE ~ (num_threads < 0 /\ do_run)
    BY <1>5, <2>2 DEF Destroy, OneForEach, config, poolVars
  <2> QED BY <2>1, <2>2
<1>6. ASSUME NEW c \in Caller, NEW f \in {"sync", "barrier", "jobs", "wait"}, Await(c, f) PROVE OneForEach'
  <2>1. CASE num_threads < 0 /\ do_run
    <3>1. Arriving' = Arriving /\ \A v \in Worker : pc'[v] # "wait"
      BY <1>0, <1>6, <2>1 DEF Await, Return, Block, Calling, Stands, TypeOK, OneForEach, Arriving, threadVars
    <3> QED BY <1>6, <2>1, <3>1 DEF Await, OneForEach, config, poolVars
  <2>2. CASE ~ (num_threads < 0 /\ do_run)
    BY <1>6, <2>2 DEF Await, OneForEach, config, poolVars
  <2> QED BY <2>1, <2>2
<1>7. ASSUME NEW w \in Worker, Loop(w) PROVE OneForEach'
  <2>1. CASE num_threads < 0 /\ do_run
    <3>1. Arriving' = Arriving /\ \A v \in Worker : pc'[v] # "wait"
      BY <1>0, <1>7, <2>1 DEF Loop, TypeOK, OneForEach, Arriving, threadVars
    <3> QED BY <1>7, <2>1, <3>1 DEF Loop, OneForEach, config, poolVars
  <2>2. CASE ~ (num_threads < 0 /\ do_run)
    BY <1>7, <2>2 DEF Loop, OneForEach, config, poolVars
  <2> QED BY <2>1, <2>2
<1>8. ASSUME NEW w \in Worker, Idle(w) PROVE OneForEach'
  <2>1. ASSUME num_threads < 0, do_run PROVE FALSE
    <3>1. Len(queue) = 0 /\ w \in Arriving
      BY <1>8 DEF Idle, Arriving
    <3>2. Cardinality(Arriving) = 0
      BY <2>1, <3>1 DEF OneForEach
    <3> QED BY <3>1, <3>2, ArrivingFinite, FS_EmptySet
  <2> QED BY <1>8, <2>1 DEF Idle, OneForEach, config
<1>9. ASSUME NEW w \in Worker, Take(w) PROVE OneForEach'
  <2>1. queue \in Seq(Job) /\ queue # <<>> /\ queue' = Tail(queue)
    BY <1>0, <1>9 DEF Take, TypeOK
  <2>2. Len(queue) \in Nat /\ Len(queue') = Len(queue) - 1
    BY <2>1
  <2>3. Arriving' = Arriving \ {w} /\ w \in Arriving
    BY <1>0, <1>9 DEF Take, Arriving, TypeOK
  <2>4. Cardinality(Arriving') = Cardinality(Arriving) - 1
    BY <2>3, ArrivingFinite, FS_RemoveElement
  <2>5. (\A v \in Worker : pc[v] # "wait") => \A v \in Worker : pc'[v] # "wait"
    BY <1>0, <1>9 DEF Take, TypeOK
  <2> QED BY <1>9, <2>2, <2>4, <2>5 DEF Take, OneForEach, config
<1>10. ASSUME NEW w \in Worker, Break(w) PROVE OneForEach'
  <2>1. CASE num_threads < 0 /\ do_run
    <3>1. Arriving' = Arriving /\ \A v \in Worker : pc'[v] # "wait"
      BY <1>0, <1>10, <2>1 DEF Break, TypeOK, OneForEach, Arriving, threadVars
    <3> QED BY <1>10, <2>1, <3>1 DEF Break, OneForEach, config, poolVars
  <2>2. CASE ~ (num_threads < 0 /\ do_run)
    BY <1>10, <2>2 DEF Break, OneForEach, config, poolVars
  <2> QED BY <2>1, <2>2
<1>11. ASSUME NEW w \in Worker, Taken(w) PROVE OneForEach'
  <2>1. CASE num_threads < 0 /\ do_run
    <3>1. Arriving' = Arriving /\ \A v \in Worker : pc'[v] # "wait"
      BY <1>0, <1>11, <2>1 DEF Taken, NotifyCallers, TypeOK, OneForEach, Arriving, threadVars
    <3> QED BY <1>11, <2>1, <3>1 DEF Taken, OneForEach, config, poolVars
  <2>2. CASE ~ (num_threads < 0 /\ do_run)
    BY <1>11, <2>2 DEF Taken, OneForEach, config, poolVars
  <2> QED BY <2>1, <2>2
<1>12. ASSUME NEW w \in Worker, Run(w) PROVE OneForEach'
  <2>1. CASE num_threads < 0 /\ do_run
    <3>1. Arriving' = Arriving /\ \A v \in Worker : pc'[v] # "wait"
      BY <1>0, <1>12, <2>1 DEF Run, TypeOK, OneForEach, Arriving, threadVars
    <3> QED BY <1>12, <2>1, <3>1 DEF Run, OneForEach, config, poolVars
  <2>2. CASE ~ (num_threads < 0 /\ do_run)
    BY <1>12, <2>2 DEF Run, OneForEach, config, poolVars
  <2> QED BY <2>1, <2>2
<1>13. ASSUME NEW w \in Worker, Leave(w) PROVE OneForEach'
  <2>1. CASE num_threads < 0 /\ do_run
    <3>1. Arriving' = Arriving /\ \A v \in Worker : pc'[v] # "wait"
      BY <1>0, <1>13, <2>1 DEF Leave, TypeOK, OneForEach, Arriving, threadVars
    <3> QED BY <1>13, <2>1, <3>1 DEF Leave, OneForEach, config, poolVars
  <2>2. CASE ~ (num_threads < 0 /\ do_run)
    BY <1>13, <2>2 DEF Leave, OneForEach, config, poolVars
  <2> QED BY <2>1, <2>2
<1>14. ASSUME NEW w \in Worker, Last(w) PROVE OneForEach'
  <2>1. CASE num_threads < 0 /\ do_run
    <3>1. Arriving' = Arriving /\ \A v \in Worker : pc'[v] # "wait"
      BY <1>0, <1>14, <2>1 DEF Last, NotifyCallers, TypeOK, OneForEach, Arriving, threadVars
    <3> QED BY <1>14, <2>1, <3>1 DEF Last, OneForEach, config, poolVars
  <2>2. CASE ~ (num_threads < 0 /\ do_run)
    BY <1>14, <2>2 DEF Last, OneForEach, config, poolVars
  <2> QED BY <2>1, <2>2
<1>15. ASSUME SpuriousWake PROVE OneForEach'
  <2>1. CASE num_threads < 0 /\ do_run
    <3>1. Arriving' = Arriving /\ \A v \in Worker : pc'[v] # "wait"
      BY <1>0, <1>15, <2>1 DEF SpuriousWake, TypeOK, OneForEach, Arriving, threadVars
    <3> QED BY <1>15, <2>1, <3>1 DEF SpuriousWake, OneForEach, config, poolVars
  <2>2. CASE ~ (num_threads < 0 /\ do_run)
    BY <1>15, <2>2 DEF SpuriousWake, OneForEach, config, poolVars
  <2> QED BY <2>1, <2>2
<1>16. ASSUME UNCHANGED vars PROVE OneForEach'
  <2>1. CASE num_threads < 0 /\ do_run
    <3>1. Arriving' = Arriving /\ \A v \in Worker : pc'[v] # "wait"
      BY <1>0, <1>16, <2>1 DEF vars, TypeOK, OneForEach, Arriving, threadVars
    <3> QED BY <1>16, <2>1, <3>1 DEF vars, OneForEach, config, poolVars
  <2>2. CASE ~ (num_threads < 0 /\ do_run)
    BY <1>16, <2>2 DEF vars, OneForEach, config, poolVars
  <2> QED BY <2>1, <2>2
<1> QED BY <1>1, <1>2, <1>3, <1>4, <1>5, <1>6, <1>7, <1>8, <1>9, <1>10, <1>11, <1>12, <1>13, <1>14, <1>15, <1>16 DEF Next, CallerStep, Main

\* A fixed pool that runs has a thread, which is about unless it waits.
LEMMA FixedActive ==
  ASSUME Fixed, num_threads > 0, do_run, \A w \in Worker : pc[w] # "wait"
  PROVE  Active # {}
BY DEF Fixed, Active

\* With a thread for each task there is a thread for the first one.
LEMMA OneArrives ==
  ASSUME IndInv, OneForEach, num_threads < 0, do_run, queue # <<>>
  PROVE  Arriving # {}
<1>1. queue \in Seq(Job)
  BY DEF IndInv, TypeOK
<1>2. Len(queue) # 0
  BY <1>1
<1> QED BY <1>2, FS_EmptySet DEF OneForEach

\* A thread is told of a task, or finds it.
LEMMA ThreadsWokenStep == IndInv /\ ThreadsWoken /\ OneForEach /\ Fixed /\ FixedCallers /\ [Next]_vars => ThreadsWoken'
<1> SUFFICES ASSUME IndInv, ThreadsWoken, OneForEach, Fixed, FixedCallers, [Next]_vars PROVE ThreadsWoken'
  OBVIOUS
<1>0. TypeOK /\ num_threads \in Int
  BY Constants DEF IndInv, TypeOK
<1>1. ASSUME NEW c \in Caller, AddTask(c) PROVE ThreadsWoken'
  <2>1. CASE at' = [at EXCEPT ![c] = "signal"]
    BY <1>0, <1>1, <2>1 DEF ThreadsWoken, TypeOK
  <2>2. CASE Block(c) /\ UNCHANGED queue
    <3>1. Active' = Active
      BY <1>1 DEF AddTask, Active, threadVars
    <3>2. \A d \in Caller : at[d] = "signal" => at'[d] = "signal"
      BY <1>0, <1>1, <2>2 DEF AddTask, Calling, Block, TypeOK
    <3> QED BY <1>1, <2>2, <3>1, <3>2 DEF AddTask, ThreadsWoken
  <2> QED BY <1>1, <2>1, <2>2 DEF AddTask
<1>2. ASSUME NEW c \in Caller, AddSignal(c) PROVE ThreadsWoken'
  <2>1. CASE do_run /\ \A w \in Worker : pc[w] # "wait"
    <3>1. Active # {} /\ pc' = pc
      BY <1>2, <2>1, FixedActive DEF AddSignal, NotifyOne, FixedCallers
    <3> QED BY <3>1 DEF ThreadsWoken, Active
  <2>2. CASE \E w \in Worker : pc[w] = "wait" /\ pc' = [pc EXCEPT ![w] = "lock"]
    BY <1>0, <2>2 DEF ThreadsWoken, Active, TypeOK
  <2>3. CASE ~ do_run
    BY <1>2, <2>3 DEF AddSignal, ThreadsWoken
  <2> QED BY <1>2, <2>1, <2>2, <2>3 DEF AddSignal, NotifyOne
<1>3. ASSUME NEW c \in Caller, AddThread(c) PROVE ThreadsWoken'
  <2>1. next_job_id \in Worker /\ pc'[next_job_id] = "loop"
    BY <1>0, <1>3, NewThread DEF AddThread, TypeOK
  <2> QED BY <2>1 DEF ThreadsWoken, Active
<1>4. ASSUME NEW c \in Caller, Exit(c) PROVE ThreadsWoken'
  BY <1>4 DEF Exit, ThreadsWoken
<1>5. ASSUME NEW c \in Caller, Destroy(c) PROVE ThreadsWoken'
  BY <1>0, <1>5 DEF Destroy, Return, Calling, Stands, TypeOK, ThreadsWoken, Active, config, poolVars, threadVars, callerVars
<1>6. ASSUME NEW c \in Caller, NEW f \in {"sync", "barrier", "jobs", "wait"}, Await(c, f) PROVE ThreadsWoken'
  BY <1>0, <1>6 DEF Await, Return, Block, Calling, Stands, TypeOK, ThreadsWoken, Active, config, poolVars, threadVars, callerVars
<1>7. ASSUME NEW w \in Worker, Loop(w) PROVE ThreadsWoken'
  <2>1. w \in Active'
    BY <1>0, <1>7 DEF Loop, TypeOK, Active
  <2> QED BY <2>1 DEF ThreadsWoken
<1>8. ASSUME NEW w \in Worker, Idle(w) PROVE ThreadsWoken'
  BY <1>8 DEF Idle, ThreadsWoken
<1>9. ASSUME NEW w \in Worker, Take(w) PROVE ThreadsWoken'
  <2>1. w \in Active'
    BY <1>0, <1>9 DEF Take, TypeOK, Active
  <2> QED BY <2>1 DEF ThreadsWoken
<1>10. ASSUME NEW w \in Worker, Break(w) PROVE ThreadsWoken'
  BY <1>10 DEF Break, ThreadsWoken
<1>11. ASSUME NEW w \in Worker, Taken(w) PROVE ThreadsWoken'
  <2>1. w \in Active'
    BY <1>0, <1>11 DEF Taken, NotifyCallers, TypeOK, Active
  <2> QED BY <2>1 DEF ThreadsWoken
<1>12. ASSUME NEW w \in Worker, Run(w) PROVE ThreadsWoken'
  <2>1. w \in Active'
    BY <1>0, <1>12 DEF Run, TypeOK, Active
  <2> QED BY <2>1 DEF ThreadsWoken
<1>13. ASSUME NEW w \in Worker, Leave(w) PROVE ThreadsWoken'
  <2>1. w \in Active'
    BY <1>0, <1>13 DEF Leave, TypeOK, Active
  <2> QED BY <2>1 DEF ThreadsWoken
<1>14. ASSUME NEW w \in Worker, Last(w) PROVE ThreadsWoken'
  <2>1. CASE do_run /\ queue # <<>>
    <3>1. num_threads < 0
      BY <1>0, <1>14, <2>1, Constants, ConstantsAssumption DEF Last, Fixed, TypeOK
    <3>2. PICK v \in Arriving : TRUE
      BY <2>1, <3>1, OneArrives
    <3>3. v \in Active'
      BY <1>0, <1>14, <3>2 DEF Last, Arriving, Active, TypeOK
    <3> QED BY <3>3 DEF ThreadsWoken
  <2> QED BY <1>14, <2>1 DEF Last, ThreadsWoken, poolVars
<1>15. ASSUME SpuriousWake PROVE ThreadsWoken'
  BY <1>0, <1>15 DEF SpuriousWake, TypeOK, ThreadsWoken, Active, config, poolVars, threadVars, callerVars
<1>16. ASSUME UNCHANGED vars PROVE ThreadsWoken'
  BY <1>0, <1>16 DEF vars, TypeOK, ThreadsWoken, Active, config, poolVars, threadVars, callerVars
<1> QED BY <1>1, <1>2, <1>3, <1>4, <1>5, <1>6, <1>7, <1>8, <1>9, <1>10, <1>11, <1>12, <1>13, <1>14, <1>15, <1>16 DEF Next, CallerStep, Main

\* What a caller waits for lasts while nothing is taken and no thread leaves.
LEMMA WaitsLonger ==
  ASSUME TypeOK, NEW c \in Caller, Waits(c), script'[c] = script[c], added'[c] = added[c],
         queue' = queue \/ \E j \in Job : queue' = Append(queue, j),
         pending_jobs \subseteq pending_jobs', threads \subseteq threads',
         UNCHANGED <<config, do_run, num_running>>
  PROVE  Waits(c)'
<1>1. Stands(c, "add")' = Stands(c, "add") /\ \A f : Stands(c, f)' = Stands(c, f)
  BY DEF Stands
<1>2. queue # <<>> => queue' # <<>>
  BY DEF TypeOK
<1>3. Full => Full'
  <2>1. Len(queue') \in Nat /\ Len(queue) \in Nat /\ Len(queue') >= Len(queue) /\ max_queue_size \in Int
    BY Constants DEF TypeOK
  <2> QED BY <2>1 DEF Full, config
<1>4. ASSUME NEW f \in {"sync", "barrier", "jobs", "wait"}, MustWait(c, f) PROVE MustWait(c, f)'
  BY <1>2, <1>4 DEF MustWait
<1> QED BY <1>1, <1>3, <1>4 DEF Waits

\* A caller that need not wait any more is told, or a thread is about that will.
LEMMA CallersWokenStep == IndInv /\ CallersWoken /\ Fixed /\ FixedCallers /\ [Next]_vars => CallersWoken'
<1> SUFFICES ASSUME IndInv, CallersWoken, Fixed, FixedCallers, [Next]_vars PROVE CallersWoken'
  OBVIOUS
<1>0. TypeOK
  BY DEF IndInv
<1>1. ASSUME NEW c \in Caller, AddTask(c) PROVE CallersWoken'
  <2>1. ASSUME NEW d \in Caller, at'[d] = "blocked", d # c PROVE Waits(d)' \/ Active' # {}
    <3>1. at[d] = "blocked" /\ script'[d] = script[d] /\ added'[d] = added[d]
      BY <1>0, <1>1, <2>1 DEF AddTask, Enqueue, Block, Calling, Stands, TypeOK, callerVars
    <3>2. Active # {} => Active' # {}
      BY <1>1 DEF AddTask, Active, threadVars
    <3>3. Waits(d) => Waits(d)'
      BY <1>0, <1>1, <3>1, WaitsLonger, EnqueueType DEF AddTask, Enqueue, Block, Calling, Stands, poolVars
    <3> QED BY <3>1, <3>2, <3>3 DEF CallersWoken
  <2>2. at'[c] = "blocked" => Waits(c)'
    <3>1. CASE do_run /\ Full /\ Block(c) /\ UNCHANGED queue
      BY <1>1, <3>1 DEF AddTask, Block, Calling, Stands, Waits, Full, config
    <3>2. CASE at' = [at EXCEPT ![c] = "signal"]
      BY <1>0, <3>2 DEF TypeOK
    <3> QED BY <1>1, <3>1, <3>2 DEF AddTask
  <2> QED BY <2>1, <2>2 DEF CallersWoken
<1>2. ASSUME NEW c \in Caller, AddSignal(c) PROVE CallersWoken'
  <2>1. ASSUME NEW d \in Caller, at'[d] = "blocked", d # c PROVE Waits(d)' \/ Active' # {}
    <3>1. at[d] = "blocked" /\ script'[d] = script[d] /\ added'[d] = added[d]
      BY <1>0, <1>2, <2>1 DEF AddSignal, Stands, Return, NotifyOne, TypeOK, callerVars
    <3>2. Active # {} => Active' # {}
      BY <1>0, <1>2 DEF AddSignal, NotifyOne, Active, TypeOK
    <3>3. Waits(d) => Waits(d)'
      BY <1>0, <1>2, <3>1, WaitsLonger DEF AddSignal, Stands, Return, NotifyOne, poolVars
    <3> QED BY <3>1, <3>2, <3>3 DEF CallersWoken
  <2>2. at'[c] # "blocked"
    BY <1>0, <1>2 DEF AddSignal, Stands, Return, NotifyOne, TypeOK
  <2> QED BY <2>1, <2>2 DEF CallersWoken
<1>3. ASSUME NEW c \in Caller, AddThread(c) PROVE CallersWoken'
  <2>1. next_job_id \in Worker /\ pc'[next_job_id] = "loop"
    BY <1>0, <1>3, NewThread DEF AddThread, TypeOK
  <2> QED BY <2>1 DEF CallersWoken, Active
<1>4. ASSUME NEW c \in Caller, Exit(c) PROVE CallersWoken'
  <2>1. Active \subseteq Active' /\ \A w \in Worker : pc[w] = "wait" => w \in Active'
    BY <1>0, <1>4 DEF Exit, NotifyThreads, Active, TypeOK
  <2>2. ASSUME NEW d \in Caller, at'[d] = "blocked" PROVE Waits(d)' \/ Active' # {}
    <3>1. d # c /\ at[d] = "blocked" /\ script'[d] = script[d] /\ added' = added
      BY <1>0, <1>4, <2>2 DEF Exit, Return, TypeOK
    <3>2. CASE Stands(d, "add") /\ do_run
      <4>1. num_threads > 0
        BY <3>1, <3>2 DEF FixedCallers
      <4> QED BY <2>1, <3>2, <4>1, FixedActive
    <3>3. CASE \E f \in {"sync", "barrier", "jobs", "wait"} : Stands(d, f) /\ MustWait(d, f)
      BY <1>4, <3>1, <3>3 DEF Exit, Waits, Stands, MustWait, poolVars
    <3> QED BY <2>1, <3>1, <3>2, <3>3 DEF CallersWoken, Waits
  <2> QED BY <2>2 DEF CallersWoken
<1>5. ASSUME NEW c \in Caller, Destroy(c) PROVE CallersWoken'
  <2>1. ASSUME NEW d \in Caller, at'[d] = "blocked", d # c PROVE Waits(d)' \/ Active' # {}
    <3>1. at[d] = "blocked" /\ script'[d] = script[d] /\ added'[d] = added[d]
      BY <1>0, <1>5, <2>1 DEF Destroy, Return, Calling, Stands, TypeOK, callerVars
    <3>2. Active # {} => Active' # {}
      BY <1>5 DEF Destroy, Active, threadVars
    <3>3. Waits(d) => Waits(d)'
      BY <1>0, <1>5, <3>1, WaitsLonger DEF Destroy, Return, Calling, Stands, poolVars
    <3> QED BY <3>1, <3>2, <3>3 DEF CallersWoken
  <2>2. at'[c] # "blocked"
    BY <1>0, <1>5 DEF Destroy, Return, Calling, Stands, TypeOK
  <2> QED BY <2>1, <2>2 DEF CallersWoken
<1>6. ASSUME NEW c \in Caller, NEW f \in {"sync", "barrier", "jobs", "wait"}, Await(c, f) PROVE CallersWoken'
  <2>1. ASSUME NEW d \in Caller, at'[d] = "blocked", d # c PROVE Waits(d)' \/ Active' # {}
    <3>1. at[d] = "blocked" /\ script'[d] = script[d] /\ added'[d] = added[d]
      BY <1>0, <1>6, <2>1 DEF Await, Return, Block, Calling, Stands, TypeOK, callerVars
    <3>2. Active # {} => Active' # {}
      BY <1>6 DEF Await, Active, threadVars
    <3>3. Waits(d) => Waits(d)'
      BY <1>0, <1>6, <3>1, WaitsLonger DEF Await, Return, Block, Calling, Stands, poolVars
    <3> QED BY <3>1, <3>2, <3>3 DEF CallersWoken
  <2>2. at'[c] = "blocked" => Waits(c)'
    <3>1. CASE MustWait(c, f) /\ Block(c)
      BY <1>6, <3>1 DEF Await, Block, Calling, Stands, Waits, MustWait, poolVars
    <3>2. CASE Return(c)
      BY <1>0, <3>2 DEF Return, TypeOK
    <3> QED BY <1>6, <3>1, <3>2 DEF Await
  <2> QED BY <2>1, <2>2 DEF CallersWoken
<1>7. ASSUME NEW w \in Worker, Loop(w) PROVE CallersWoken'
  <2>1. w \in Active'
    BY <1>0, <1>7 DEF Loop, TypeOK, Active
  <2> QED BY <2>1 DEF CallersWoken
<1>8. ASSUME NEW w \in Worker, Idle(w) PROVE CallersWoken'
  BY <1>0, <1>8 DEF Idle, NotifyCallers, CallersWoken, TypeOK
<1>9. ASSUME NEW w \in Worker, Take(w) PROVE CallersWoken'
  <2>1. w \in Active'
    BY <1>0, <1>9 DEF Take, TypeOK, Active
  <2> QED BY <2>1 DEF CallersWoken
<1>10. ASSUME NEW w \in Worker, Break(w) PROVE CallersWoken'
  <2>1. w \in Active'
    BY <1>0, <1>10 DEF Break, TypeOK, Active
  <2> QED BY <2>1 DEF CallersWoken
<1>11. ASSUME NEW w \in Worker, Taken(w) PROVE CallersWoken'
  BY <1>0, <1>11 DEF Taken, NotifyCallers, CallersWoken, TypeOK
<1>12. ASSUME NEW w \in Worker, Run(w) PROVE CallersWoken'
  <2>1. w \in Active'
    BY <1>0, <1>12 DEF Run, TypeOK, Active
  <2> QED BY <2>1 DEF CallersWoken
<1>13. ASSUME NEW w \in Worker, Leave(w) PROVE CallersWoken'
  <2>1. w \in Active'
    BY <1>0, <1>13 DEF Leave, TypeOK, Active
  <2> QED BY <2>1 DEF CallersWoken
<1>14. ASSUME NEW w \in Worker, Last(w) PROVE CallersWoken'
  BY <1>0, <1>14 DEF Last, NotifyCallers, CallersWoken, TypeOK
<1>15. ASSUME SpuriousWake PROVE CallersWoken'
  <2>1. Active \subseteq Active'
    BY <1>0, <1>15 DEF SpuriousWake, Active, TypeOK
  <2>2. ASSUME NEW d \in Caller, at'[d] = "blocked" PROVE Waits(d)' \/ Active' # {}
    <3>1. at[d] = "blocked" /\ script' = script /\ added' = added
      BY <1>0, <1>15, <2>2 DEF SpuriousWake, TypeOK
    <3>2. Waits(d) => Waits(d)'
      BY <1>0, <1>15, <3>1, WaitsLonger DEF SpuriousWake, poolVars
    <3> QED BY <2>1, <3>1, <3>2 DEF CallersWoken
  <2> QED BY <2>2 DEF CallersWoken
<1>16. ASSUME UNCHANGED vars PROVE CallersWoken'
  BY <1>16 DEF vars, CallersWoken, Waits, Stands, MustWait, Full, Active, config, poolVars, threadVars, callerVars
<1> QED BY <1>1, <1>2, <1>3, <1>4, <1>5, <1>6, <1>7, <1>8, <1>9, <1>10, <1>11, <1>12, <1>13, <1>14, <1>15, <1>16 DEF Next, CallerStep, Main

\* With nobody about and no notification on its way nothing is left to do.
LEMMA WokenOrStuck == IndInv /\ WakeInv => NeverStuck
<1> SUFFICES ASSUME IndInv, WakeInv, NEW c \in Caller, at[c] = "blocked",
                    Active = {}, \A d \in Caller : at[d] # "signal"
    PROVE  \/ num_threads > 0 /\ do_run /\ Stands(c, "wait")
           \/ ~ do_run /\ queue # <<>> /\ \E f \in {"sync", "barrier", "jobs"} : Stands(c, f)
  BY DEF NeverStuck
<1>1. Waits(c)
  BY DEF WakeInv, CallersWoken
<1>2. Running = {} /\ \A w \in Worker : pc[w] \in {"new", "wait", "gone"}
  BY DEF Active, Running
<1>3. num_running = 0
  BY <1>2, FS_EmptySet DEF IndInv, Counted
<1>4. do_run => queue = <<>>
  BY DEF WakeInv, ThreadsWoken
<1>5. \A j \in pending_jobs : j \notin finished
  BY <1>2 DEF WakeInv, Erased
<1>6. \A j \in pending_jobs : queue # <<>>
  <2>1. ASSUME NEW j \in pending_jobs PROVE queue # <<>>
    <3>1. PICK i \in DOMAIN queue : queue[i] = j
      BY <1>2, <1>5, <2>1 DEF IndInv, TypeOK, Given, Accounted
    <3> QED BY <3>1
  <2> QED BY <2>1
<1>7. CASE Stands(c, "add") /\ do_run /\ Full
  <2>1. Len(queue) = 0 /\ max_queue_size \in Int
    BY <1>4, <1>7, Constants DEF IndInv, TypeOK
  <2> QED BY <1>7, <2>1 DEF Full
<1>8. ASSUME NEW f \in {"sync", "barrier", "jobs"}, Stands(c, f), MustWait(c, f)
      PROVE  ~ do_run /\ queue # <<>>
  <2>1. queue # <<>>
    BY <1>3, <1>6, <1>8 DEF MustWait
  <2> QED BY <1>4, <2>1
<1>9. CASE Stands(c, "wait") /\ MustWait(c, "wait")
  <2>1. PICK w \in threads : TRUE
    BY <1>9 DEF MustWait
  <2>2. w \in Worker /\ pc[w] = "wait"
    BY <1>2 DEF WakeInv, ListedOnly, IndInv, TypeOK
  <2>3. do_run
    BY <2>2 DEF WakeInv, ExitWakes
  <2>4. ~ (num_threads < 0)
    BY <2>2, <2>3 DEF WakeInv, OneForEach
  <2>5. num_threads > 0
    BY <2>4, ConstantsAssumption DEF IndInv, TypeOK
  <2> QED BY <1>9, <2>3, <2>5
<1> QED BY <1>1, <1>7, <1>8, <1>9 DEF Waits

\* Every call that is blocked will be told when it need not wait, and the threads
\* that make it so are about or will be told: a call stays behind only in wait()
\* of a fixed pool that nobody told to exit, and in a sync() of tasks that were
\* still in the queue when the pool exited (ThreadPool.cpp:44, 92, 99, 155).
THEOREM NoneLeftBehind == Spec => []NeverStuck
<1>1. Init => WakeInv
  BY InitWake
<1>2. IndInv /\ WakeInv /\ [Next]_vars => WakeInv'
  BY ThreadsStep, CallersStep, ErasedStep, OneForEachStep, ThreadsWokenStep, CallersWokenStep DEF WakeInv
<1>3. IndInv /\ WakeInv => NeverStuck
  BY WokenOrStuck
<1> QED BY <1>1, <1>2, <1>3, Invariance, PTL DEF Spec

=============================================================================
