------------------------------ MODULE ThreadPool ------------------------------
(***************************************************************************)
(* vnx::ThreadPool (src/src/ThreadPool.cpp): a queue of tasks, the threads *)
(* that run them, and the callers that add tasks, wait for them, and close *)
(* the pool. num_threads > 0 is a fixed number of threads, -1 a thread for *)
(* each task; with 0 add_task() runs the task itself and there is no state.*)
(*                                                                         *)
(* Every critical section of the mutex is an action. A wait on a condition *)
(* variable ends one and, when it is woken, begins the next. What happens  *)
(* outside the mutex - the test of do_run, the end of a task, and the      *)
(* notifications that follow a critical section - are actions of their own.*)
(* Tasks are their job numbers: they return, and do not use the pool.      *)
(***************************************************************************)
EXTENDS Integers, Sequences, FiniteSets

CONSTANTS
    NumThreads,     \* values of num_threads
    MaxQueueSize,   \* values of max_queue_size, 0 is unlimited
    Caller,         \* threads that use the pool
    Scripts,        \* what the callers do: a sequence of calls for each
    MaxThreads,     \* bound: threads
    MaxJobs         \* bound: tasks that are added

\* barrier is sync() of the last job the caller added, jobs sync() of all of
\* them. The destructor is exit, wait, and destroy.
Calls == {"add", "sync", "barrier", "jobs", "exit", "wait", "destroy"}

ASSUME ConstantsAssumption ==
    /\ MaxJobs \in Nat /\ MaxThreads \in Nat /\ MaxJobs <= MaxThreads
    /\ NumThreads \subseteq {-1} \cup 1..MaxThreads
    /\ MaxQueueSize \subseteq Nat
    /\ Scripts \subseteq [Caller -> Seq(Calls)]

Job    == 0..(MaxJobs - 1)
Worker == 0..(MaxThreads - 1)   \* the keys of threads

VARIABLES
    num_threads, max_queue_size,    \* as constructed
    do_run,         \* ThreadPool::do_run
    queue,          \* ThreadPool::queue, the jobs of the tasks
    pending_jobs,   \* ThreadPool::pending_jobs
    threads,        \* the keys of ThreadPool::threads
    num_running,    \* ThreadPool::num_running
    next_job_id,    \* ThreadPool::next_job_id
    pc,             \* where a thread is in main()
    entry,          \* the job it took last, -1 before the first
    script,         \* the calls a caller has left, the first is under way
    at,             \* where the caller is in it
    added,          \* the jobs its calls of add_task() have returned
    finished,       \* the jobs whose task has returned (history)
    destroyed       \* the object is gone

config     == <<num_threads, max_queue_size>>
poolVars   == <<queue, pending_jobs, threads, num_running, next_job_id>>
threadVars == <<pc, entry>>
callerVars == <<script, at, added>>
vars == <<config, do_run, poolVars, threadVars, callerVars, finished, destroyed>>

PC == {"new", "loop", "lock", "wait", "taken", "run", "leave", "notify", "gone"}

TypeOK ==
    /\ num_threads \in NumThreads /\ max_queue_size \in MaxQueueSize
    /\ do_run \in BOOLEAN
    /\ queue \in Seq(Job)
    /\ pending_jobs \subseteq Job
    /\ threads \subseteq Worker
    /\ num_running \in Int
    /\ next_job_id \in 0..MaxJobs
    /\ pc \in [Worker -> PC]
    /\ entry \in [Worker -> Job \cup {-1}]
    /\ script \in [Caller -> Seq(Calls)]
    /\ at \in [Caller -> {"call", "blocked", "signal"}]
    /\ added \in [Caller -> SUBSET Job]
    /\ finished \subseteq Job
    /\ destroyed \in BOOLEAN

Init ==
    /\ num_threads \in NumThreads /\ max_queue_size \in MaxQueueSize
    /\ do_run = TRUE
    /\ queue = <<>>
    /\ pending_jobs = {}
    /\ threads = {w \in Worker : w < num_threads}
    /\ num_running = 0
    /\ next_job_id = 0
    /\ pc = [w \in Worker |-> IF w < num_threads THEN "loop" ELSE "new"]
    /\ entry = [w \in Worker |-> -1]
    /\ script \in Scripts
    /\ at = [c \in Caller |-> "call"]
    /\ added = [c \in Caller |-> {}]
    /\ finished = {}
    /\ destroyed = FALSE

-----------------------------------------------------------------------------
(* The condition variables. *)

\* reverse_condition.notify_all()
NotifyCallers ==
    at' = [c \in Caller |-> IF at[c] = "blocked" THEN "call" ELSE at[c]]

\* condition.notify_one(), condition.notify_all()
NotifyOne ==
    \/ \E w \in Worker : pc[w] = "wait" /\ pc' = [pc EXCEPT ![w] = "lock"]
    \/ (\A w \in Worker : pc[w] # "wait") /\ UNCHANGED pc
NotifyThreads ==
    pc' = [w \in Worker |-> IF pc[w] = "wait" THEN "lock" ELSE pc[w]]

\* A wait may return without a notification.
SpuriousWake ==
    /\ \/ /\ \E w \in Worker : pc[w] = "wait" /\ pc' = [pc EXCEPT ![w] = "lock"]
          /\ UNCHANGED at
       \/ /\ \E c \in Caller : at[c] = "blocked" /\ at' = [at EXCEPT ![c] = "call"]
          /\ UNCHANGED pc
    /\ UNCHANGED <<config, do_run, poolVars, entry, script, added, finished, destroyed>>

-----------------------------------------------------------------------------
(* The callers. *)

\* Caller c enters, or goes on with, a critical section of call f.
Stands(c, f)  == script[c] # <<>> /\ Head(script[c]) = f
Calling(c, f) == Stands(c, f) /\ at[c] = "call"

Return(c) ==
    /\ script' = [script EXCEPT ![c] = Tail(@)]
    /\ at' = [at EXCEPT ![c] = "call"]

\* reverse_condition.wait()
Block(c) ==
    /\ at' = [at EXCEPT ![c] = "blocked"]
    /\ UNCHANGED script

Full == max_queue_size > 0 /\ Len(queue) >= max_queue_size

\* A new job in the queue.
Enqueue(c) ==
    /\ next_job_id < MaxJobs
    /\ next_job_id' = next_job_id + 1
    /\ queue' = Append(queue, next_job_id)
    /\ pending_jobs' = pending_jobs \cup {next_job_id}
    /\ added' = [added EXCEPT ![c] = @ \cup {next_job_id}]

\* add_task() of a fixed pool, up to the end of the critical section.
AddTask(c) ==
    /\ Calling(c, "add") /\ num_threads > 0
    /\ \/ /\ do_run /\ Full
          /\ Block(c)
          /\ UNCHANGED <<queue, pending_jobs, next_job_id, added>>
       \/ /\ do_run /\ ~ Full
          /\ Enqueue(c)
          /\ at' = [at EXCEPT ![c] = "signal"]
          /\ UNCHANGED script
       \/ /\ ~ do_run
          /\ at' = [at EXCEPT ![c] = "signal"]
          /\ UNCHANGED <<script, queue, pending_jobs, next_job_id, added>>
    /\ UNCHANGED <<config, do_run, threads, num_running, threadVars, finished, destroyed>>

\* condition.notify_one() of add_task().
AddSignal(c) ==
    /\ Stands(c, "add") /\ at[c] = "signal"
    /\ Return(c)
    /\ NotifyOne
    /\ UNCHANGED <<config, do_run, poolVars, entry, added, finished, destroyed>>

\* add_task() with a thread for each task, which has the number of the job.
AddThread(c) ==
    /\ Calling(c, "add") /\ num_threads < 0
    /\ Enqueue(c)
    /\ threads' = threads \cup {next_job_id}
    /\ pc' = [pc EXCEPT ![next_job_id] = "loop"]
    /\ Return(c)
    /\ UNCHANGED <<config, do_run, num_running, entry, finished, destroyed>>

\* Mutants: sync() looks at the queue only; wait() waits for tasks only.
MustWaitQueue(c, f) ==
    CASE f = "sync"    -> queue # <<>>
      [] f = "barrier" -> \E j \in pending_jobs, k \in added[c] : j <= k
      [] f = "jobs"    -> \E j \in added[c] : j \in pending_jobs
      [] f = "wait"    -> threads # {}
MustWaitTasks(c, f) ==
    CASE f = "sync"    -> num_running # 0 \/ queue # <<>>
      [] f = "barrier" -> \E j \in pending_jobs, k \in added[c] : j <= k
      [] f = "jobs"    -> \E j \in added[c] : j \in pending_jobs
      [] f = "wait"    -> num_running # 0

\* What the calls that wait for something wait for to become false.
MustWait(c, f) ==
    CASE f = "sync"    -> num_running # 0 \/ queue # <<>>
      [] f = "barrier" -> \E j \in pending_jobs, k \in added[c] : j <= k
      [] f = "jobs"    -> \E j \in added[c] : j \in pending_jobs
      [] f = "wait"    -> threads # {}

\* The three sync(), and wait().
Await(c, f) ==
    /\ Calling(c, f)
    /\ IF MustWait(c, f) THEN Block(c) ELSE Return(c)
    /\ UNCHANGED <<config, do_run, poolVars, threadVars, added, finished, destroyed>>

\* exit()
Exit(c) ==
    /\ Calling(c, "exit")
    /\ do_run' = FALSE
    /\ NotifyThreads
    /\ Return(c)
    /\ UNCHANGED <<config, poolVars, entry, added, finished, destroyed>>

\* The end of the destructor: the caller is the last to use the pool.
Destroy(c) ==
    /\ Calling(c, "destroy")
    /\ \A d \in Caller \ {c} : script[d] = <<>>
    /\ destroyed' = TRUE
    /\ Return(c)
    /\ UNCHANGED <<config, do_run, poolVars, threadVars, added, finished>>

-----------------------------------------------------------------------------
(* main() *)

\* while(do_run)
Loop(w) ==
    /\ pc[w] = "loop"
    /\ pc' = [pc EXCEPT ![w] = IF do_run THEN "lock" ELSE "leave"]
    /\ UNCHANGED <<config, do_run, poolVars, entry, callerVars, finished, destroyed>>

\* Mutant: the callers are not notified.
IdleSilent(w) ==
    /\ pc[w] = "lock" /\ do_run /\ queue = <<>>
    /\ pending_jobs' = pending_jobs \ {entry[w]}
    /\ pc' = [pc EXCEPT ![w] = "wait"]
    /\ UNCHANGED <<config, do_run, queue, threads, num_running, next_job_id,
                   entry, callerVars, finished, destroyed>>

\* The critical section of the loop. There is nothing to do: the callers are
\* told that the previous task is done, and the thread waits.
Idle(w) ==
    /\ pc[w] = "lock" /\ do_run /\ queue = <<>>
    /\ pending_jobs' = pending_jobs \ {entry[w]}
    /\ NotifyCallers
    /\ pc' = [pc EXCEPT ![w] = "wait"]
    /\ UNCHANGED <<config, do_run, queue, threads, num_running, next_job_id,
                   entry, script, added, finished, destroyed>>

\* Mutants: the new job is no longer pending; the task stays in the queue.
TakeErases(w) ==
    /\ pc[w] = "lock" /\ do_run /\ queue # <<>>
    /\ pending_jobs' = pending_jobs \ {Head(queue)}
    /\ entry' = [entry EXCEPT ![w] = Head(queue)]
    /\ queue' = Tail(queue)
    /\ num_running' = num_running + 1
    /\ pc' = [pc EXCEPT ![w] = "taken"]
    /\ UNCHANGED <<config, do_run, threads, next_job_id, callerVars, finished, destroyed>>
TakeFront(w) ==
    /\ pc[w] = "lock" /\ do_run /\ queue # <<>>
    /\ pending_jobs' = pending_jobs \ {entry[w]}
    /\ entry' = [entry EXCEPT ![w] = Head(queue)]
    /\ num_running' = num_running + 1
    /\ pc' = [pc EXCEPT ![w] = "taken"]
    /\ UNCHANGED <<config, do_run, queue, threads, next_job_id, callerVars, finished, destroyed>>

\* The next task is taken.
Take(w) ==
    /\ pc[w] = "lock" /\ do_run /\ queue # <<>>
    /\ pending_jobs' = pending_jobs \ {entry[w]}
    /\ entry' = [entry EXCEPT ![w] = Head(queue)]
    /\ queue' = Tail(queue)
    /\ num_running' = num_running + 1
    /\ pc' = [pc EXCEPT ![w] = "taken"]
    /\ UNCHANGED <<config, do_run, threads, next_job_id, callerVars, finished, destroyed>>

\* The pool exits.
Break(w) ==
    /\ pc[w] = "lock" /\ ~ do_run
    /\ pending_jobs' = pending_jobs \ {entry[w]}
    /\ pc' = [pc EXCEPT ![w] = "leave"]
    /\ UNCHANGED <<config, do_run, queue, threads, num_running, next_job_id,
                   entry, callerVars, finished, destroyed>>

\* The callers are told that there is room in the queue.
Taken(w) ==
    /\ pc[w] = "taken"
    /\ NotifyCallers
    /\ pc' = [pc EXCEPT ![w] = "run"]
    /\ UNCHANGED <<config, do_run, poolVars, entry, script, added, finished, destroyed>>

\* The task returns, or throws, and num_running is decremented. A thread for
\* one task leaves the loop.
Run(w) ==
    /\ pc[w] = "run"
    /\ finished' = finished \cup {entry[w]}
    /\ num_running' = num_running - 1
    /\ pc' = [pc EXCEPT ![w] = IF num_threads <= 0 THEN "leave" ELSE "loop"]
    /\ UNCHANGED <<config, do_run, queue, pending_jobs, threads, next_job_id,
                   entry, callerVars, destroyed>>

\* The last critical section: the thread detaches itself.
Leave(w) ==
    /\ pc[w] = "leave"
    /\ pending_jobs' = pending_jobs \ {entry[w]}
    /\ threads' = threads \ {w}
    /\ pc' = [pc EXCEPT ![w] = "notify"]
    /\ UNCHANGED <<config, do_run, queue, num_running, next_job_id, entry,
                   callerVars, finished, destroyed>>

\* The last notification, after which the thread uses the pool no more.
Last(w) ==
    /\ pc[w] = "notify"
    /\ NotifyCallers
    /\ pc' = [pc EXCEPT ![w] = "gone"]
    /\ UNCHANGED <<config, do_run, poolVars, entry, script, added, finished, destroyed>>

-----------------------------------------------------------------------------
CallerStep(c) ==
    \/ AddTask(c) \/ AddSignal(c) \/ AddThread(c) \/ Exit(c) \/ Destroy(c)
    \/ \E f \in {"sync", "barrier", "jobs", "wait"} : Await(c, f)

Main(w) ==
    \/ Loop(w) \/ Idle(w) \/ Take(w) \/ Break(w) \/ Taken(w) \/ Run(w)
    \/ Leave(w) \/ Last(w)

Next ==
    \/ \E c \in Caller : CallerStep(c)
    \/ \E w \in Worker : Main(w)
    \/ SpuriousWake

Spec == Init /\ [][Next]_vars

\* The threads of the pool and those of its callers run, and tasks return.
FairSpec ==
    /\ Spec
    /\ \A c \in Caller : WF_vars(CallerStep(c))
    /\ \A w \in Worker : WF_vars(Main(w))

-----------------------------------------------------------------------------
(* Properties. *)

Returns(c, f) == Calling(c, f) /\ script'[c] # script[c]

Running == {w \in Worker : pc[w] \in {"taken", "run"}}

\* "Wait for all tasks to finish": when sync() returns, every task that was
\* added has returned (ThreadPool.cpp:99).
SyncMeansFinished ==
    [][\A c \in Caller : Returns(c, "sync") =>
         \A j \in Job : j < next_job_id => j \in finished]_vars

\* "Wait for all jobs up to and including barrier to finish", and "for a set of
\* jobs to finish" (ThreadPool.cpp:107, 121): they have when sync() returns,
\* those of other callers among them.
BarrierMeansFinished ==
    [][\A c \in Caller :
         /\ Returns(c, "barrier") =>
              \A j \in Job, k \in added[c] : j <= k => j \in finished
         /\ Returns(c, "jobs") => added[c] \subseteq finished]_vars

\* When wait() returns no task is running and no thread will take one from the
\* queue (ThreadPool.cpp:92, 187).
WaitMeansOver ==
    [][\A c \in Caller : Returns(c, "wait") =>
         \A w \in Worker : pc[w] \in {"new", "notify", "gone"}]_vars

\* A task is run once: a job that was given out is in the queue, or with one
\* thread, or finished, whatever tasks of the pool were left when it exits.
RunsOnce ==
    \A j \in Job :
        Cardinality({i \in DOMAIN queue : queue[i] = j})
          + Cardinality({w \in Running : entry[w] = j})
          + Cardinality({j} \cap finished)
        = IF j < next_job_id THEN 1 ELSE 0

\* wait() "needs to be called before destructor" (ThreadPool.h:59): after it
\* the object may go, and no thread uses it any more. Refuted: the last thread
\* has yet to notify (ThreadPool.cpp:193).
NoUseAfterDestroy == destroyed => \A w \in Worker : pc[w] \in {"new", "gone"}

\* add_task() does not wait forever for room in the queue, nor for room that
\* nobody will make after exit() (ThreadPool.cpp:44).
AddReturns == \A c \in Caller : []<>~ Stands(c, "add")

\* Until exit() is called the three sync() return: the end of the last task is
\* always followed by a notification (ThreadPool.cpp:155).
SyncReturns ==
    \A c \in Caller, f \in {"sync", "barrier", "jobs"} :
        []<>(~ Stands(c, f) \/ ~ do_run)

\* After exit() wait() returns (ThreadPool.cpp:86, 193).
WaitReturns == \A c \in Caller : []<>~ (Stands(c, "wait") /\ ~ do_run)

\* A call of the pool that waits, for room, for tasks or for the threads, returns.
PoolCallsReturn == AddReturns /\ SyncReturns /\ WaitReturns

-----------------------------------------------------------------------------
(* The inductive invariant of ThreadPoolProofs. *)

\* A task that was given out waits, or is with a thread, or has returned.
Accounted ==
    \A j \in Job : j < next_job_id =>
        \/ \E i \in DOMAIN queue : queue[i] = j
        \/ \E w \in Running : entry[w] = j
        \/ j \in finished

\* Until it has returned its job is pending.
Pending == \A j \in Job : j < next_job_id => j \in pending_jobs \cup finished

\* A thread that is not running a task has finished the one it took last.
Behind ==
    \A w \in Worker :
        IF w \in Running THEN entry[w] \in Job ELSE entry[w] \in finished \cup {-1}

\* Jobs are those that were given out.
Given ==
    /\ \A j \in Job : j \in pending_jobs \cup finished => j < next_job_id
    /\ \A i \in DOMAIN queue : queue[i] < next_job_id
    /\ \A w \in Worker : entry[w] < next_job_id
    /\ \A c \in Caller : \A j \in added[c] : j < next_job_id

\* num_running, which is atomic and changed outside the mutex, is exact.
Counted == num_running = Cardinality(Running)

\* The threads that have not left the pool are those in the map.
Listed ==
    \A w \in Worker : pc[w] \notin {"new", "notify", "gone"} => w \in threads

\* A thread for one task has the number of its job, which is new.
Fresh ==
    num_threads < 0 =>
        \A w \in Worker : pc[w] # "new" => w < next_job_id

\* No task is given out twice: those that wait, those that threads run, and
\* those that have returned are different tasks.
Single ==
    /\ \A i, k \in DOMAIN queue : queue[i] = queue[k] => i = k
    /\ \A w, v \in Running : entry[w] = entry[v] => w = v
    /\ \A i \in DOMAIN queue : queue[i] \notin finished /\ \A w \in Running : entry[w] # queue[i]
    /\ \A w \in Running : entry[w] \notin finished

IndInv ==
    /\ TypeOK
    /\ Accounted
    /\ Pending
    /\ Behind
    /\ Given
    /\ Counted
    /\ Listed
    /\ Fresh

-----------------------------------------------------------------------------
(* The safety behind PoolCallsReturn: no wake-up is lost. *)

\* A thread that will notify the callers before it waits or is gone.
Active == {w \in Worker : pc[w] \notin {"new", "wait", "gone"}}

\* What a blocked caller waits for has not come about.
Waits(c) ==
    \/ Stands(c, "add") /\ do_run /\ Full
    \/ \E f \in {"sync", "barrier", "jobs", "wait"} : Stands(c, f) /\ MustWait(c, f)

\* A call that waits is not left behind: a thread is about, or a notification on
\* its way, except in wait() of a fixed pool before exit(), and in a sync() of
\* tasks that were still in the queue when the pool exited (ThreadPool.cpp:44,
\* 92, 99, 155).
NeverStuck ==
    \A c \in Caller : at[c] = "blocked" =>
        \/ Active # {}
        \/ \E d \in Caller : at[d] = "signal"
        \/ num_threads > 0 /\ do_run /\ Stands(c, "wait")
        \/ ~ do_run /\ queue # <<>> /\ \E f \in {"sync", "barrier", "jobs"} : Stands(c, f)

\* A task in the queue of a pool that runs will be taken.
ThreadsWoken ==
    do_run /\ queue # <<>> => Active # {} \/ \E c \in Caller : at[c] = "signal"

\* A caller that need not wait any more will be told.
CallersWoken == \A c \in Caller : at[c] = "blocked" => Waits(c) \/ Active # {}

\* A job that has finished and is still pending will be erased by its thread.
Erased ==
    \A j \in pending_jobs \cap finished :
        \E w \in Worker : entry[w] = j /\ pc[w] \in {"loop", "lock", "leave"}

\* No thread of a pool that has exited waits.
ExitWakes == do_run \/ \A w \in Worker : pc[w] # "wait"

\* The threads in the map have not left the pool.
ListedOnly == \A w \in threads : pc[w] \notin {"new", "notify", "gone"}

\* With a thread for each task none waits: as many are on their way to the
\* queue as there are tasks.
Arriving == {w \in Worker : pc[w] \in {"loop", "lock"}}
OneForEach ==
    num_threads < 0 /\ do_run =>
        /\ Len(queue) = Cardinality(Arriving)
        /\ \A w \in Worker : pc[w] # "wait"

\* The threads of a fixed pool stay until it exits; there is one.
Fixed ==
    num_threads > 0 =>
        /\ do_run => \A w \in Worker : pc[w] \notin {"leave", "notify", "gone"}
        /\ 0 \in Worker /\ pc[0] # "new"

\* Only the callers of a fixed pool wait for room and notify its threads.
FixedCallers ==
    \A c \in Caller :
        at[c] = "signal" \/ (at[c] = "blocked" /\ Stands(c, "add")) => num_threads > 0

WakeInv ==
    /\ ThreadsWoken
    /\ CallersWoken
    /\ Erased
    /\ ExitWakes
    /\ ListedOnly
    /\ OneForEach
    /\ Fixed
    /\ FixedCallers
=============================================================================
