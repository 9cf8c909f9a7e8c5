--------------------------- MODULE ModuleLifecycle ---------------------------
(***************************************************************************)
(* The life of a module object, its std::thread and the Handles that own   *)
(* it: vnx::Module (src/src/Module.cpp) and vnx::Handle                    *)
(* (src/include/vnx/Handle.h).                                             *)
(*                                                                         *)
(* A module is kept by shared pointers: those in its handles, self_ptr     *)
(* while it runs, and the local copy vnx_entry() makes when it ends. The   *)
(* last one to go deletes it. A method of Handle is a short program of     *)
(* steps, each one critical section, that interleaves with the thread of   *)
(* the module and with the other handles. What the node does is reduced to *)
(* vnx_do_run and the pipe of tasks; PipeNode has the detail.              *)
(*                                                                         *)
(* Callers are assumed to use a Handle from one thread at a time, and to   *)
(* start() a module from one thread at a time.                             *)
(***************************************************************************)
EXTENDS Integers, Sequences, FiniteSets

CONSTANTS
    Module,         \* module objects
    Handle,         \* handles, each used by a thread of its own
    Thread,         \* threads of execution, one for each time a module starts
    None,           \* nullptr, the empty std::thread
    Call,           \* <<h, f>>: handle h calls f
    Deferring,      \* modules whose vnx_shutdown() returns false
    Ending,         \* modules that exit() or whose main() returns of its own
    Throwing,       \* modules whose init() may throw
    MaxCalls,       \* bound: calls made on each handle
    MaxTasks        \* bound: tasks waiting in the task pipe

ASSUME ConstantsAssumption ==
    /\ None \notin Module \cup Thread
    /\ IsFiniteSet(Handle) /\ IsFiniteSet(Thread)
    /\ Deferring \subseteq Module /\ Ending \subseteq Module
    /\ Throwing \subseteq Module
    /\ MaxCalls \in Nat /\ MaxTasks \in Nat

VARIABLES
    object,         \* "unborn", "alive" or "deleted"
    self_ptr,       \* Module::self_ptr is set
    ref_count,      \* Module::ref_count
    thread,         \* Module::thread, None when it is not joinable
    do_run,         \* Node::vnx_do_run
    do_restart,     \* Module::do_restart
    is_waiting,     \* Module::is_waiting
    open,           \* the task pipe accepts messages
    tasks,          \* vnx_stop() tasks waiting in it
    module_map,     \* modules registered by name
    pc,             \* where a thread is in vnx_entry()
    of,             \* the module it runs
    num_modules,    \* process::num_modules
    module,         \* Handle::module
    detached,       \* Handle::detached
    todo,           \* the steps left of the call on a handle
    calls           \* the number of calls made on it

moduleVars == <<object, self_ptr, ref_count, thread>>
nodeVars   == <<do_run, do_restart, is_waiting, open, tasks, module_map>>
threadVars == <<pc, of, num_modules>>
handleVars == <<module, detached, todo, calls>>
vars == <<moduleVars, nodeVars, threadVars, handleVars>>

\* The steps of each method of Handle.
Program ==
    [ start          |-> <<"start">>,
      start_detached |-> <<"start", "detach">>,
      restart        |-> <<"exit", "wait", "start">>,
      restart_async  |-> <<"flag", "stop">>,
      detach         |-> <<"detach">>,
      attach         |-> <<"attach">>,
      wait           |-> <<"wait">>,
      exit           |-> <<"exit">>,
      stop           |-> <<"stop">>,
      close          |-> <<"exit", "wait", "release">>,
      shutdown       |-> <<"stop", "wait", "release">>,
      release        |-> <<"release">> ]

Step == {"start", "setup", "spawn", "detach", "attach", "exit", "stop", "flag",
         "wait", "join", "release", "drop"}

\* Until "unref" a thread has self_ptr, from there to "drop" its own copy.
Running == {"begin", "loop", "main", "close", "check", "again", "unref"}
Leaving == {"remove", "detach", "drop"}
PC == {"new", "count", "done", "terminate"} \cup Running \cup Leaving

TypeOK ==
    /\ object \in [Module -> {"unborn", "alive", "deleted"}]
    /\ self_ptr \in [Module -> BOOLEAN]
    /\ ref_count \in [Module -> Int]
    /\ thread \in [Module -> Thread \cup {None}]
    /\ do_run \in [Module -> BOOLEAN]
    /\ do_restart \in [Module -> BOOLEAN]
    /\ is_waiting \in [Module -> BOOLEAN]
    /\ open \in [Module -> BOOLEAN]
    /\ tasks \in [Module -> 0..MaxTasks]
    /\ module_map \subseteq Module
    /\ pc \in [Thread -> PC]
    /\ of \in [Thread -> Module \cup {None}]
    /\ num_modules \in Int
    /\ module \in [Handle -> Module \cup {None}]
    /\ detached \in [Handle -> BOOLEAN]
    /\ todo \in [Handle -> Seq(Step)]
    /\ calls \in [Handle -> 0..MaxCalls]

Init ==
    /\ object = [m \in Module |-> "unborn"]
    /\ self_ptr = [m \in Module |-> FALSE]
    /\ ref_count = [m \in Module |-> 0]
    /\ thread = [m \in Module |-> None]
    /\ do_run = [m \in Module |-> TRUE]
    /\ do_restart = [m \in Module |-> FALSE]
    /\ is_waiting = [m \in Module |-> FALSE]
    /\ open = [m \in Module |-> FALSE]
    /\ tasks = [m \in Module |-> 0]
    /\ module_map = {}
    /\ pc = [t \in Thread |-> "new"]
    /\ of = [t \in Thread |-> None]
    /\ num_modules = 0
    /\ module = [h \in Handle |-> None]
    /\ detached = [h \in Handle |-> FALSE]
    /\ todo = [h \in Handle |-> <<>>]
    /\ calls = [h \in Handle |-> 0]

-----------------------------------------------------------------------------
(* What the steps share. *)

\* Node::exit(): no more messages are read or accepted.
Exit(m) ==
    /\ do_run' = [do_run EXCEPT ![m] = FALSE]
    /\ open' = [open EXCEPT ![m] = FALSE]

\* ModuleBase::vnx_setup(): a new task pipe, which connect() attaches to the
\* node only while the node may run.
Setup(m) ==
    /\ tasks' = [tasks EXCEPT ![m] = 0]
    /\ open' = [open EXCEPT ![m] = do_run[m]]

\* Threads that hold a copy of self_ptr.
Holders(m) == {t \in Thread : pc[t] \in Leaving /\ of[t] = m}

\* Handles that point to a module.
Pointers(m) == {h \in Handle : module[h] = m}

At(h, s) == todo[h] # <<>> /\ Head(todo[h]) = s

\* The step of h is done, to be followed by the steps s.
Then(h, s) == todo' = [todo EXCEPT ![h] = s \o Tail(todo[h])]

\* Another handle is between the two critical sections of vnx_start().
BeingStarted(h, m) ==
    \E o \in Pointers(m) \ {h} : At(o, "setup") \/ At(o, "spawn")

-----------------------------------------------------------------------------
(* Variants of the definitions above, each with a plausible mistake, that the *)
(* properties must tell from the originals.                                   *)

\* The count goes down for a handle that is detached already.
DetachTwice(h, m) ==
    /\ At(h, "detach") /\ module[h] = m
    /\ detached' = [detached EXCEPT ![h] = TRUE]
    /\ ref_count' = [ref_count EXCEPT ![m] = @ - 1]
    /\ Then(h, <<>>)
    /\ UNCHANGED <<object, self_ptr, thread, nodeVars, threadVars, module, calls>>

\* Any owner stops the module.
ReleaseStops(h, m) ==
    /\ At(h, "release") /\ module[h] = m
    /\ ref_count' = IF detached[h] THEN ref_count
                    ELSE [ref_count EXCEPT ![m] = @ - 1]
    /\ Then(h, IF detached[h] THEN <<"drop">> ELSE <<"exit", "wait", "drop">>)
    /\ UNCHANGED <<object, self_ptr, thread, nodeVars, threadVars, module,
                   detached, calls>>

\* wait() looks at vnx_do_run instead of the thread.
WaitDoRun(h, m) ==
    /\ At(h, "wait") /\ module[h] = m
    /\ IF thread[m] = None \/ ~ do_run[m]
       THEN /\ Then(h, <<>>)
            /\ UNCHANGED is_waiting
       ELSE /\ is_waiting' = [is_waiting EXCEPT ![m] = TRUE]
            /\ Then(h, <<"join">>)
    /\ UNCHANGED <<moduleVars, do_run, do_restart, open, tasks, module_map,
                   threadVars, module, detached, calls>>

\* The module is deleted with its last owner.
DropOwned(h, m) ==
    /\ At(h, "drop") /\ module[h] = m
    /\ module' = [module EXCEPT ![h] = None]
    /\ detached' = [detached EXCEPT ![h] = FALSE]
    /\ object' = IF ref_count[m] > 0 THEN object
                 ELSE [object EXCEPT ![m] = "deleted"]
    /\ Then(h, <<>>)
    /\ UNCHANGED <<self_ptr, ref_count, thread, nodeVars, threadVars, calls>>

\* close() forgets the restart.
EntryCloseAll(t, m) ==
    /\ pc[t] = "close" /\ of[t] = m
    /\ Exit(m)
    /\ tasks' = [tasks EXCEPT ![m] = 0]
    /\ do_restart' = [do_restart EXCEPT ![m] = FALSE]
    /\ pc' = [pc EXCEPT ![t] = "check"]
    /\ UNCHANGED <<moduleVars, is_waiting, module_map, of, num_modules, handleVars>>

\* self_ptr is copied and not reset.
EntryUnrefCopy(t, m) ==
    /\ pc[t] = "unref" /\ of[t] = m
    /\ pc' = [pc EXCEPT ![t] = "remove"]
    /\ UNCHANGED <<moduleVars, nodeVars, of, num_modules, handleVars>>

\* The thread is never detached.
EntryDetachNever(t, m) ==
    /\ pc[t] = "detach" /\ of[t] = m
    /\ pc' = [pc EXCEPT ![t] = "drop"]
    /\ UNCHANGED <<moduleVars, nodeVars, of, num_modules, handleVars>>

\* The thread is detached although somebody joins it.
EntryDetachAlways(t, m) ==
    /\ pc[t] = "detach" /\ of[t] = m
    /\ thread' = [thread EXCEPT ![m] = None]
    /\ pc' = [pc EXCEPT ![t] = "drop"]
    /\ UNCHANGED <<object, self_ptr, ref_count, nodeVars, of, num_modules, handleVars>>

-----------------------------------------------------------------------------
(* Handles. *)

\* Handle h = new M(...): h owns the module.
Create(h, m) ==
    /\ object[m] = "unborn" /\ module[h] = None /\ todo[h] = <<>>
    /\ object' = [object EXCEPT ![m] = "alive"]
    /\ ref_count' = [ref_count EXCEPT ![m] = 1]
    /\ module' = [module EXCEPT ![h] = m]
    /\ detached' = [detached EXCEPT ![h] = FALSE]
    /\ UNCHANGED <<self_ptr, thread, nodeVars, threadVars, todo, calls>>

\* Handle h = o. The copy owns the module when o does.
Copy(h, o) ==
    /\ <<h, "copy">> \in Call
    /\ module[h] = None /\ todo[h] = <<>>
    /\ module[o] # None /\ todo[o] = <<>>
    /\ calls[h] < MaxCalls
    /\ calls' = [calls EXCEPT ![h] = @ + 1]
    /\ module' = [module EXCEPT ![h] = module[o]]
    /\ detached' = [detached EXCEPT ![h] = detached[o]]
    /\ ref_count' = IF detached[o] THEN ref_count
                    ELSE [ref_count EXCEPT ![module[o]] = @ + 1]
    /\ UNCHANGED <<object, self_ptr, thread, nodeVars, threadVars, todo>>

\* Handle h = get_module(name): a detached handle of a registered module.
GetModule(h, m) ==
    /\ <<h, "get_module">> \in Call
    /\ module[h] = None /\ todo[h] = <<>>
    /\ m \in module_map /\ object[m] = "alive"
    /\ calls[h] < MaxCalls
    /\ calls' = [calls EXCEPT ![h] = @ + 1]
    /\ module' = [module EXCEPT ![h] = m]
    /\ detached' = [detached EXCEPT ![h] = TRUE]
    /\ UNCHANGED <<moduleVars, nodeVars, threadVars, todo>>

\* A method of h is called.
Begin(h, f) ==
    /\ <<h, f>> \in Call
    /\ module[h] # None /\ todo[h] = <<>>
    /\ calls[h] < MaxCalls
    /\ calls' = [calls EXCEPT ![h] = @ + 1]
    /\ todo' = [todo EXCEPT ![h] = Program[f]]
    /\ UNCHANGED <<moduleVars, nodeVars, threadVars, module, detached>>

\* Module::vnx_start(): nothing when the thread is joinable. The starts are
\* bounded by the number of Threads.
Start(h, m) ==
    /\ At(h, "start") /\ module[h] = m
    /\ ~ BeingStarted(h, m)
    /\ thread[m] = None => \E t \in Thread : pc[t] = "new"
    /\ IF thread[m] = None
       THEN /\ self_ptr' = [self_ptr EXCEPT ![m] = TRUE]
            /\ do_run' = [do_run EXCEPT ![m] = TRUE]
            /\ Then(h, <<"setup">>)
       ELSE /\ Then(h, <<>>)
            /\ UNCHANGED <<self_ptr, do_run>>
    /\ UNCHANGED <<object, ref_count, thread, do_restart, is_waiting, open,
                   tasks, module_map, threadVars, module, detached, calls>>

\* vnx_setup(), init() and add_module() of vnx_start().
StartSetup(h, m) ==
    /\ At(h, "setup") /\ module[h] = m
    /\ Setup(m)
    /\ module_map' = module_map \cup {m}
    /\ Then(h, <<"spawn">>)
    /\ UNCHANGED <<moduleVars, do_run, do_restart, is_waiting, threadVars,
                   module, detached, calls>>

\* init() throws: the exception leaves the method of Handle.
StartThrows(h, m) ==
    /\ At(h, "setup") /\ module[h] = m
    /\ m \in Throwing
    /\ Setup(m)
    /\ todo' = [todo EXCEPT ![h] = <<>>]
    /\ UNCHANGED <<moduleVars, do_run, do_restart, is_waiting, module_map,
                   threadVars, module, detached, calls>>

\* The second critical section of vnx_start(): the thread is created.
Spawn(h, m, t) ==
    /\ At(h, "spawn") /\ module[h] = m
    /\ pc[t] = "new"
    /\ thread' = [thread EXCEPT ![m] = t]
    /\ pc' = [pc EXCEPT ![t] = "begin"]
    /\ of' = [of EXCEPT ![t] = m]
    /\ Then(h, <<>>)
    /\ UNCHANGED <<object, self_ptr, ref_count, nodeVars, num_modules, module,
                   detached, calls>>

\* Handle::detach()
Detach(h, m) ==
    /\ At(h, "detach") /\ module[h] = m
    /\ detached' = [detached EXCEPT ![h] = TRUE]
    /\ ref_count' = IF detached[h] THEN ref_count
                    ELSE [ref_count EXCEPT ![m] = @ - 1]
    /\ Then(h, <<>>)
    /\ UNCHANGED <<object, self_ptr, thread, nodeVars, threadVars, module, calls>>

\* Handle::attach()
Attach(h, m) ==
    /\ At(h, "attach") /\ module[h] = m
    /\ detached' = [detached EXCEPT ![h] = FALSE]
    /\ ref_count' = IF detached[h] THEN [ref_count EXCEPT ![m] = @ + 1]
                    ELSE ref_count
    /\ Then(h, <<>>)
    /\ UNCHANGED <<object, self_ptr, thread, nodeVars, threadVars, module, calls>>

\* Handle::exit()
ExitCall(h, m) ==
    /\ At(h, "exit") /\ module[h] = m
    /\ Exit(m)
    /\ Then(h, <<>>)
    /\ UNCHANGED <<moduleVars, do_restart, is_waiting, tasks, module_map,
                   threadVars, module, detached, calls>>

\* The first half of Module::vnx_restart(), the second is vnx_stop().
Flag(h, m) ==
    /\ At(h, "flag") /\ module[h] = m
    /\ do_restart' = [do_restart EXCEPT ![m] = TRUE]
    /\ Then(h, <<>>)
    /\ UNCHANGED <<moduleVars, do_run, is_waiting, open, tasks, module_map,
                   threadVars, module, detached, calls>>

\* Module::vnx_stop(): a task for the thread of the module, lost when the task
\* pipe does not accept it.
Stop(h, m) ==
    /\ At(h, "stop") /\ module[h] = m
    /\ open[m] => tasks[m] < MaxTasks
    /\ tasks' = IF open[m] THEN [tasks EXCEPT ![m] = @ + 1] ELSE tasks
    /\ Then(h, <<>>)
    /\ UNCHANGED <<moduleVars, do_run, do_restart, is_waiting, open, module_map,
                   threadVars, module, detached, calls>>

\* Module::vnx_wait() up to the join().
Wait(h, m) ==
    /\ At(h, "wait") /\ module[h] = m
    /\ IF thread[m] = None
       THEN /\ Then(h, <<>>)
            /\ UNCHANGED is_waiting
       ELSE /\ is_waiting' = [is_waiting EXCEPT ![m] = TRUE]
            /\ Then(h, <<"join">>)
    /\ UNCHANGED <<moduleVars, do_run, do_restart, open, tasks, module_map,
                   threadVars, module, detached, calls>>

\* std::thread::join()
Join(h, m) ==
    /\ At(h, "join") /\ module[h] = m
    /\ thread[m] # None
    /\ pc[thread[m]] = "done"
    /\ thread' = [thread EXCEPT ![m] = None]
    /\ Then(h, <<>>)
    /\ UNCHANGED <<object, self_ptr, ref_count, nodeVars, threadVars, module,
                   detached, calls>>

\* Handle::release(): the last owner stops the module first.
Release(h, m) ==
    /\ At(h, "release") /\ module[h] = m
    /\ ref_count' = IF detached[h] THEN ref_count
                    ELSE [ref_count EXCEPT ![m] = @ - 1]
    /\ Then(h, IF ref_count'[m] = 0 /\ ~ detached[h]
               THEN <<"exit", "wait", "drop">>
               ELSE <<"drop">>)
    /\ UNCHANGED <<object, self_ptr, thread, nodeVars, threadVars, module,
                   detached, calls>>

\* The end of release(): the shared pointer is reset.
Drop(h, m) ==
    /\ At(h, "drop") /\ module[h] = m
    /\ module' = [module EXCEPT ![h] = None]
    /\ detached' = [detached EXCEPT ![h] = FALSE]
    /\ object' = IF self_ptr[m] \/ Holders(m) # {} \/ Pointers(m) # {h}
                 THEN object
                 ELSE [object EXCEPT ![m] = "deleted"]
    /\ Then(h, <<>>)
    /\ UNCHANGED <<self_ptr, ref_count, thread, nodeVars, threadVars, calls>>

\* The next step of the call on h, to module m.
CallStep(h, m) ==
    \/ Start(h, m) \/ StartSetup(h, m) \/ StartThrows(h, m)
    \/ \E t \in Thread : Spawn(h, m, t)
    \/ Detach(h, m) \/ Attach(h, m)
    \/ ExitCall(h, m) \/ Flag(h, m) \/ Stop(h, m)
    \/ Wait(h, m) \/ Join(h, m)
    \/ Release(h, m) \/ Drop(h, m)

HandleStep(h) == \E m \in Module : CallStep(h, m)

-----------------------------------------------------------------------------
(* The thread of a module: Module::vnx_entry(). *)

\* The thread counts itself.
EntryBegin(t, m) ==
    /\ pc[t] = "begin" /\ of[t] = m
    /\ num_modules' = num_modules + 1
    /\ pc' = [pc EXCEPT ![t] = "loop"]
    /\ UNCHANGED <<moduleVars, nodeVars, of, handleVars>>

\* while(vnx_do_run())
EntryLoop(t, m) ==
    /\ pc[t] = "loop" /\ of[t] = m
    /\ pc' = [pc EXCEPT ![t] = IF do_run[m] THEN "main" ELSE "unref"]
    /\ UNCHANGED <<moduleVars, nodeVars, of, num_modules, handleVars>>

\* main() runs a task of vnx_stop().
RunTask(t, m) ==
    /\ pc[t] = "main" /\ of[t] = m
    /\ do_run[m] /\ tasks[m] > 0
    /\ tasks' = [tasks EXCEPT ![m] = @ - 1]
    /\ IF m \in Deferring THEN UNCHANGED <<do_run, open>> ELSE Exit(m)
    /\ UNCHANGED <<moduleVars, do_restart, is_waiting, module_map, threadVars,
                   handleVars>>

\* main() ends, by vnx_cleanup(), because it returns or because it throws.
MainEnds(t, m) ==
    /\ pc[t] = "main" /\ of[t] = m
    /\ ~ do_run[m]
    /\ pc' = [pc EXCEPT ![t] = "close"]
    /\ UNCHANGED <<moduleVars, nodeVars, of, num_modules, handleVars>>

\* A handler calls exit(), or main() returns or throws while the node runs.
EndsItself(t, m) ==
    /\ pc[t] = "main" /\ of[t] = m
    /\ do_run[m] /\ m \in Ending
    /\ \/ Exit(m) /\ UNCHANGED pc
       \/ pc' = [pc EXCEPT ![t] = "close"] /\ UNCHANGED <<do_run, open>>
    /\ UNCHANGED <<moduleVars, do_restart, is_waiting, tasks, module_map, of,
                   num_modules, handleVars>>

\* Node::close(), after exit(), empties the pipes.
EntryClose(t, m) ==
    /\ pc[t] = "close" /\ of[t] = m
    /\ Exit(m)
    /\ tasks' = [tasks EXCEPT ![m] = 0]
    /\ pc' = [pc EXCEPT ![t] = "check"]
    /\ UNCHANGED <<moduleVars, do_restart, is_waiting, module_map, of,
                   num_modules, handleVars>>

\* The critical section after close(): a restart sets vnx_do_run again.
EntryCheck(t, m) ==
    /\ pc[t] = "check" /\ of[t] = m
    /\ do_restart' = [do_restart EXCEPT ![m] = FALSE]
    /\ do_run' = IF do_restart[m] THEN [do_run EXCEPT ![m] = TRUE] ELSE do_run
    /\ pc' = [pc EXCEPT ![t] = IF do_restart[m] THEN "again" ELSE "loop"]
    /\ UNCHANGED <<moduleVars, is_waiting, open, tasks, module_map, of,
                   num_modules, handleVars>>

\* vnx_setup() and init() of a restart, outside the try: an exception of
\* init() terminates the process.
EntryAgain(t, m) ==
    /\ pc[t] = "again" /\ of[t] = m
    /\ Setup(m)
    /\ \/ pc' = [pc EXCEPT ![t] = "loop"]
       \/ m \in Throwing /\ pc' = [pc EXCEPT ![t] = "terminate"]
    /\ UNCHANGED <<moduleVars, do_run, do_restart, is_waiting, module_map, of,
                   num_modules, handleVars>>

\* self_ptr moves to a local variable.
EntryUnref(t, m) ==
    /\ pc[t] = "unref" /\ of[t] = m
    /\ self_ptr' = [self_ptr EXCEPT ![m] = FALSE]
    /\ pc' = [pc EXCEPT ![t] = "remove"]
    /\ UNCHANGED <<object, ref_count, thread, nodeVars, of, num_modules, handleVars>>

\* remove_module()
EntryRemove(t, m) ==
    /\ pc[t] = "remove" /\ of[t] = m
    /\ module_map' = module_map \ {m}
    /\ pc' = [pc EXCEPT ![t] = "detach"]
    /\ UNCHANGED <<moduleVars, do_run, do_restart, is_waiting, open, tasks, of,
                   num_modules, handleVars>>

\* The thread is detached unless somebody waits for it.
EntryDetach(t, m) ==
    /\ pc[t] = "detach" /\ of[t] = m
    /\ thread' = IF is_waiting[m] THEN thread ELSE [thread EXCEPT ![m] = None]
    /\ pc' = [pc EXCEPT ![t] = "drop"]
    /\ UNCHANGED <<object, self_ptr, ref_count, nodeVars, of, num_modules, handleVars>>

\* The local pointer is reset, which may delete the module.
EntryDrop(t, m) ==
    /\ pc[t] = "drop" /\ of[t] = m
    /\ pc' = [pc EXCEPT ![t] = "count"]
    /\ object' = IF self_ptr[m] \/ Holders(m) # {t} \/ Pointers(m) # {}
                 THEN object
                 ELSE [object EXCEPT ![m] = "deleted"]
    /\ UNCHANGED <<self_ptr, ref_count, thread, nodeVars, of, num_modules, handleVars>>

\* Only static variables are used from here.
EntryCount(t) ==
    /\ pc[t] = "count"
    /\ num_modules' = num_modules - 1
    /\ pc' = [pc EXCEPT ![t] = "done"]
    /\ UNCHANGED <<moduleVars, nodeVars, of, handleVars>>

\* The next step of vnx_entry(), of module m.
EntryStep(t, m) ==
    \/ EntryBegin(t, m) \/ EntryLoop(t, m)
    \/ RunTask(t, m) \/ MainEnds(t, m)
    \/ EntryClose(t, m) \/ EntryCheck(t, m) \/ EntryAgain(t, m)
    \/ EntryUnref(t, m) \/ EntryRemove(t, m) \/ EntryDetach(t, m)
    \/ EntryDrop(t, m)

Entry(t) == EntryCount(t) \/ \E m \in Module : EntryStep(t, m)

\* A user creates, copies or looks up a handle, or calls a method of one.
User(h) ==
    \/ \E m \in Module : Create(h, m) \/ GetModule(h, m)
    \/ \E o \in Handle : Copy(h, o)
    \/ \E f \in DOMAIN Program : Begin(h, f)

Next ==
    \/ \E h \in Handle : User(h) \/ HandleStep(h)
    \/ \E t \in Thread : Entry(t) \/ \E m \in Module : EndsItself(t, m)

Spec == Init /\ [][Next]_vars

\* The threads keep running: a module's, and that of a caller in a method.
\* Nothing is assumed of when callers call, or of modules that end themselves.
FairSpec ==
    /\ Spec
    /\ \A h \in Handle : WF_vars(HandleStep(h))
    /\ \A t \in Thread : WF_vars(Entry(t))

-----------------------------------------------------------------------------
(* Properties. *)

\* A handle that has not yet given up its share of ref_count.
Owners(m) ==
    {h \in Pointers(m) : ~ detached[h] /\ \A i \in DOMAIN todo[h] : todo[h][i] # "drop"}

\* A module exists as long as a handle points to it or its thread uses it, up
\* to the point of vnx_entry() (Module.cpp:204) from which only static
\* variables are used.
AliveWhileUsed ==
    /\ \A h \in Handle : module[h] # None => object[module[h]] = "alive"
    /\ \A t \in Thread : pc[t] \in Running \cup Leaving => object[of[t]] = "alive"

\* While vnx_entry() runs, up to where it may detach the thread, Module::thread
\* is that thread: a module never runs twice at once, and vnx_start() never
\* assigns to a joinable std::thread (Module.cpp:224).
ThreadKnown ==
    \A t \in Thread :
        pc[t] \in Running \cup {"remove", "detach"} => thread[of[t]] = t

\* A module that has been deleted has no joinable std::thread, which would
\* terminate the process, and is not registered.
DeletedAtRest ==
    \A m \in Module :
        object[m] = "deleted" => thread[m] = None /\ m \notin module_map

\* ref_count is the number of handles that own the module (Handle.h:180, 191,
\* 235, 250).
OwnersCounted ==
    \A m \in Module : ref_count[m] = Cardinality(Owners(m))

\* A handle that releases the module stops it only while no other handle owns
\* it: "if it's not detached and this is the only Handle" (Handle.h:54).
StopsOnlyUnowned ==
    [][\A h \in Handle :
        (todo[h] = <<"exit", "wait", "drop">> /\ todo'[h] # todo[h])
            => Owners(module[h]) = {}]_vars

\* When wait() returns, by join() or because there is no thread to join, the
\* module has finished: its main() is over, its node closed and its name
\* unregistered (Module.cpp:254).
WaitMeansFinished ==
    [][\A h \in Handle :
        (\/ At(h, "join") /\ todo'[h] # todo[h]
         \/ At(h, "wait") /\ todo'[h] = Tail(todo[h]))
            => \A t \in Thread : of[t] = module[h] =>
                    pc[t] \notin Running \cup {"remove"}]_vars

\* close() returns: the exit it asks for is not lost and the thread it waits
\* for ends (Handle.h:219).
CloseReturns ==
    \A h \in Handle : todo[h] = Program.close ~> todo[h] = <<>>

\* shutdown() returns when vnx_shutdown() does not defer: the task that stops
\* the module is run, or refused because the module is ending (Handle.h:226).
ShutdownReturns ==
    \A h \in Handle :
        (todo[h] = Program.shutdown /\ module[h] \notin Deferring)
            ~> todo[h] = <<>>

\* The calls that stop a module and wait for its end return.
StopsReturn == CloseReturns /\ ShutdownReturns

\* The last owner deletes the module once nobody points to it: "It will
\* automatically stop and delete a Module unless it has been detached"
\* (Handle.h:28).
ReleasedIsDeleted ==
    \A h \in Handle, m \in Module :
        (todo[h] = <<"exit", "wait", "drop">> /\ module[h] = m)
            ~> (object[m] = "deleted" \/ (Pointers(m) # {} /\ todo[h] = <<>>))

\* A detached module "will self destruct upon shutdown" (Handle.h:146): the
\* end of its thread deletes it unless a handle still points to it.
SelfDestructs ==
    \A t \in Thread, m \in Module :
        (pc[t] = "unref" /\ of[t] = m)
            ~> (object[m] = "deleted" \/ Pointers(m) # {})

\* restart_async() of a module that is in main() calls init() and main() again
\* (Module.cpp:181, 237), however the module comes to leave main().
RestartHonoured ==
    \A t \in Thread, h \in Handle :
        /\ pc[t] = "main" /\ do_restart[of[t]] /\ of[t] \notin Deferring
        /\ todo[h] = <<"stop">> /\ module[h] = of[t]
        ~> pc[t] = "again"

-----------------------------------------------------------------------------
(* The inductive invariant of ModuleLifecycleProofs. *)

\* The end of a release and the steps other than the first of a call.
CallShape ==
    \A h \in Handle :
        /\ todo[h] # <<>> => module[h] # None
        /\ \A i \in DOMAIN todo[h] :
            /\ i > 1 => todo[h][i] \notin {"setup", "spawn", "join"}
            /\ todo[h][i] \in {"release", "drop"} => i = Len(todo[h])

\* Between the two critical sections of vnx_start() the module keeps itself,
\* has no thread, and no other handle starts it.
StartShape ==
    \A h \in Handle : At(h, "setup") \/ At(h, "spawn") =>
        /\ self_ptr[module[h]]
        /\ thread[module[h]] = None
        /\ ~ BeingStarted(h, module[h])

\* A thread runs a module, which keeps itself until the thread has its copy.
ThreadShape ==
    /\ \A t \in Thread : pc[t] # "new" => of[t] # None
    /\ \A t \in Thread : pc[t] \in Running => self_ptr[of[t]]
    /\ \A m \in Module : thread[m] # None =>
            of[thread[m]] = m /\ pc[thread[m]] # "new"
    /\ \A m \in Module : self_ptr[m] => object[m] = "alive"

IndInv ==
    /\ TypeOK
    /\ CallShape
    /\ StartShape
    /\ ThreadShape
    /\ ThreadKnown
    /\ AliveWhileUsed
=============================================================================
