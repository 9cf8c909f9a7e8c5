--------------------------- MODULE ProcessShutdown ---------------------------
(***************************************************************************)
(* The end of a process: vnx::trigger_shutdown(), force_shutdown(), wait() *)
(* and close(), the signal handler, and the thread that waits for a        *)
(* shutdown, tells the modules, waits for them to end, and closes the      *)
(* module of the process, the instance, last (Process.cpp).                *)
(*                                                                         *)
(* The thread and wait() share a mutex and a condition; the flags are      *)
(* atomic and set without the mutex. A module counts itself in num_modules *)
(* when its thread begins, without the mutex, and at its end with it. What *)
(* a module does between is in ModuleLifecycle.                            *)
(***************************************************************************)
EXTENDS Naturals, FiniteSets

CONSTANTS
    Module,         \* modules, apart from the instance
    Instance,       \* process::instance
    Main,           \* the thread that waits for the process to end
    Other,          \* threads that trigger a shutdown, or get a signal
    MaxTrigger      \* bound: shutdowns triggered by each thread

AllModules == Module \cup {Instance}
Caller == {Main} \cup Other

ASSUME ConstantsAssumption ==
    /\ IsFiniteSet(Module) /\ Instance \notin Module
    /\ Main \notin Other /\ MaxTrigger \in Nat

VARIABLES
    do_run,         \* process::do_run
    do_force,       \* process::do_force
    is_waiting,     \* process::is_waiting
    detached,       \* whether process::thread was detached
    num_modules,    \* process::num_modules
    pc,             \* the place of the shutdown thread
    used_force,     \* its used_force
    state,          \* how far a module is
    told,           \* the modules that were told to stop
    at,             \* where a thread is in its call
    closing,        \* whether the call is close()
    calls,          \* shutdowns it has triggered
    exited,         \* whether force_shutdown() has ended the process
    counted         \* modules that were counted when do_run was cleared (history)

flagVars   == <<do_run, do_force, is_waiting>>
threadVars == <<detached, pc, used_force>>
moduleVars == <<num_modules, state, told>>
callVars   == <<at, closing, calls>>
vars == <<flagVars, threadVars, moduleVars, callVars, exited, counted>>

TypeOK ==
    /\ do_run \in BOOLEAN /\ do_force \in BOOLEAN /\ is_waiting \in BOOLEAN
    /\ detached \in BOOLEAN /\ used_force \in BOOLEAN
    /\ num_modules \in 0..Cardinality(AllModules)
    /\ pc \in {"test", "sleep", "asleep", "publish", "test2", "sleep2", "asleep2",
               "close", "cleanup", "end"}
    /\ state \in [AllModules -> {"new", "started", "runs", "ending", "gone"}]
    /\ told \subseteq AllModules
    /\ at \in [Caller -> {"idle", "notify", "force", "exit", "wait", "join", "done"}]
    /\ closing \in [Caller -> BOOLEAN] /\ calls \in [Caller -> 0..MaxTrigger]
    /\ exited \in BOOLEAN /\ counted \subseteq AllModules

\* vnx::init() has started the instance and the shutdown thread.
Init ==
    /\ do_run = TRUE /\ do_force = FALSE /\ is_waiting = FALSE
    /\ detached = FALSE /\ pc = "test" /\ used_force = FALSE
    /\ num_modules = 0
    /\ state = [m \in AllModules |-> IF m = Instance THEN "started" ELSE "new"]
    /\ told = {}
    /\ at = [c \in Caller |-> "idle"]
    /\ closing = [c \in Caller |-> FALSE]
    /\ calls = [c \in Caller |-> 0]
    /\ exited = FALSE /\ counted = {}

\* The shutdown thread keeps the mutex between a test and the wait for it.
Locked == pc \in {"sleep", "sleep2"}

\* notify_all() on process::condition.
Notified(p) == IF p = "asleep" THEN "test" ELSE IF p = "asleep2" THEN "test2" ELSE p

-----------------------------------------------------------------------------
(* Modules. *)

\* A module is started by the main thread, or by another module.
Start(m) ==
    /\ state[m] = "new"
    /\ at[Main] = "idle" \/ \E k \in AllModules : state[k] = "runs"
    /\ state' = [state EXCEPT ![m] = "started"]
    /\ UNCHANGED <<flagVars, threadVars, num_modules, told, callVars, exited, counted>>

\* Its thread begins in vnx_entry().
Count(m) ==
    /\ state[m] = "started"
    /\ state' = [state EXCEPT ![m] = "runs"]
    /\ num_modules' = num_modules + 1
    /\ UNCHANGED <<flagVars, threadVars, told, callVars, exited, counted>>

\* A module that was told to stop, or any other, leaves its loop and lets go of
\* its thread, unless somebody waits for that.
End(m) ==
    /\ state[m] = "runs"
    /\ state' = [state EXCEPT ![m] = "ending"]
    /\ UNCHANGED <<flagVars, threadVars, num_modules, told, callVars, exited, counted>>

\* The last thing its thread does.
Uncount(m) ==
    /\ state[m] = "ending" /\ ~ Locked
    /\ state' = [state EXCEPT ![m] = "gone"]
    /\ num_modules' = num_modules - 1
    /\ pc' = Notified(pc)
    /\ UNCHANGED <<flagVars, detached, used_force, told, callVars, exited, counted>>

ModuleStep(m) == Count(m) \/ (m \in told /\ End(m)) \/ Uncount(m)

-----------------------------------------------------------------------------
(* The calls. *)

\* trigger_shutdown() clears do_run and then notifies, without the mutex.
TriggerStore(c, then) ==
    /\ do_run' = FALSE
    /\ counted' = IF do_run THEN {m \in AllModules : state[m] \in {"runs", "ending"}} ELSE counted
    /\ at' = [at EXCEPT ![c] = then]

Trigger(c, close) ==
    /\ at[c] = "idle" /\ calls[c] < MaxTrigger
    /\ close => c = Main
    /\ calls' = [calls EXCEPT ![c] = @ + 1]
    /\ closing' = [closing EXCEPT ![c] = close]
    /\ TriggerStore(c, "notify")
    /\ UNCHANGED <<do_force, is_waiting, threadVars, moduleVars, exited>>

\* A signal after the first, or force_shutdown(): the first one ends the process.
ForceShutdown(c) ==
    /\ at[c] = "idle" /\ c \in Other /\ calls[c] < MaxTrigger
    /\ calls' = [calls EXCEPT ![c] = @ + 1]
    /\ do_force' = TRUE
    /\ TriggerStore(c, IF do_force THEN "notify" ELSE "force")
    /\ UNCHANGED <<is_waiting, threadVars, moduleVars, closing, exited>>

Notify(c) ==
    /\ at[c] \in {"notify", "force"}
    /\ pc' = Notified(pc)
    /\ at' = [at EXCEPT ![c] = IF @ = "force" THEN "exit" ELSE IF closing[c] THEN "wait" ELSE "idle"]
    /\ UNCHANGED <<flagVars, detached, used_force, moduleVars, closing, calls, exited, counted>>

ExitProcess(c) ==
    /\ at[c] = "exit"
    /\ exited' = TRUE
    /\ UNCHANGED <<flagVars, threadVars, moduleVars, callVars, counted>>

\* Mutant: it announces itself and does not notify.
WaitSilent(c) ==
    /\ at[c] = "wait" /\ ~ Locked
    /\ IF detached
       THEN at' = [at EXCEPT ![c] = "done"] /\ UNCHANGED is_waiting
       ELSE /\ is_waiting' = TRUE
            /\ at' = [at EXCEPT ![c] = "join"]
    /\ UNCHANGED <<do_run, do_force, threadVars, moduleVars, closing, calls, exited, counted>>

\* wait() announces itself, unless the thread was detached, and joins it.
Wait(c) ==
    /\ at[c] = "wait" /\ ~ Locked
    /\ IF detached
       THEN at' = [at EXCEPT ![c] = "done"] /\ UNCHANGED <<is_waiting, pc>>
       ELSE /\ is_waiting' = TRUE
            /\ pc' = Notified(pc)
            /\ at' = [at EXCEPT ![c] = "join"]
    /\ UNCHANGED <<do_run, do_force, detached, used_force, moduleVars, closing, calls, exited, counted>>

\* The main thread calls wait() alone.
CallWait ==
    /\ at[Main] = "idle"
    /\ at' = [at EXCEPT ![Main] = "wait"]
    /\ UNCHANGED <<flagVars, threadVars, moduleVars, closing, calls, exited, counted>>

Join(c) ==
    /\ at[c] = "join" /\ pc = "end"
    /\ at' = [at EXCEPT ![c] = "done"]
    /\ UNCHANGED <<flagVars, threadVars, moduleVars, closing, calls, exited, counted>>

CallStep(c) == Notify(c) \/ ExitProcess(c) \/ Wait(c) \/ Join(c)

-----------------------------------------------------------------------------
(* The shutdown thread. *)

Test ==
    /\ pc = "test"
    /\ pc' = IF do_run THEN "sleep" ELSE "publish"
    /\ UNCHANGED <<flagVars, detached, used_force, moduleVars, callVars, exited, counted>>

\* It lets go of the mutex and waits, in one step.
Sleep ==
    /\ Locked
    /\ pc' = IF pc = "sleep" THEN "asleep" ELSE "asleep2"
    /\ UNCHANGED <<flagVars, detached, used_force, moduleVars, callVars, exited, counted>>

\* vnx::shutdown is published to the modules that are there, other than the
\* instance.
Publish ==
    /\ pc = "publish"
    /\ told' = told \cup {m \in Module : state[m] # "new"}
    /\ pc' = "test2"
    /\ UNCHANGED <<flagVars, detached, used_force, num_modules, state, callVars, exited, counted>>

\* Handle::is_running(): whether its thread can be joined.
InstanceRuns == state[Instance] \in {"started", "runs"}

\* Mutant: the instance is always taken to be one of the modules.
MustWaitOthers == num_modules > 1 \/ (~ is_waiting /\ ~ used_force)

MustWait ==
    num_modules > (IF InstanceRuns THEN 1 ELSE 0) \/ (~ is_waiting /\ ~ used_force)

\* Mutant: the thread is detached after every forced shutdown.
Test2Detaches ==
    /\ pc = "test2"
    /\ IF MustWait
       THEN /\ pc' = "sleep2"
            /\ used_force' = (used_force \/ do_force)
            /\ told' = IF do_force /\ ~ used_force
                       THEN told \cup {m \in AllModules : state[m] # "new"} ELSE told
            /\ UNCHANGED detached
       ELSE /\ pc' = "close"
            /\ detached' = used_force
            /\ UNCHANGED <<used_force, told>>
    /\ UNCHANGED <<flagVars, num_modules, state, callVars, exited, counted>>

\* It waits until all other modules have ended, and for wait() or force; when
\* forced it tells all pipes to shut down, once.
Test2 ==
    /\ pc = "test2"
    /\ IF MustWait
       THEN /\ pc' = "sleep2"
            /\ used_force' = (used_force \/ do_force)
            /\ told' = IF do_force /\ ~ used_force
                       THEN told \cup {m \in AllModules : state[m] # "new"} ELSE told
            /\ UNCHANGED detached
       ELSE /\ pc' = "close"
            /\ detached' = ~ is_waiting
            /\ UNCHANGED <<used_force, told>>
    /\ UNCHANGED <<flagVars, num_modules, state, callVars, exited, counted>>

\* instance.close() tells the instance to exit and joins it.
CloseInstance ==
    /\ pc = "close"
    /\ IF state[Instance] = "gone" THEN pc' = "cleanup" /\ UNCHANGED told
       ELSE Instance \notin told /\ told' = told \cup {Instance} /\ UNCHANGED pc
    /\ UNCHANGED <<flagVars, detached, used_force, num_modules, state, callVars, exited, counted>>

\* static_cleanup(), and the thread ends.
Cleanup ==
    /\ pc = "cleanup"
    /\ pc' = "end"
    /\ UNCHANGED <<flagVars, detached, used_force, moduleVars, callVars, exited, counted>>

ThreadStep == Test \/ Sleep \/ Publish \/ Test2 \/ CloseInstance \/ Cleanup

-----------------------------------------------------------------------------
Next ==
    /\ ~ exited
    /\ \/ \E m \in AllModules : Start(m) \/ Count(m) \/ End(m) \/ Uncount(m)
       \/ \E c \in Caller : ForceShutdown(c) \/ CallStep(c) \/ \E close \in BOOLEAN : Trigger(c, close)
       \/ CallWait \/ ThreadStep

Spec == Init /\ [][Next]_vars

\* Threads run, and modules that were told to stop end.
FairSpec ==
    /\ Spec
    /\ WF_vars(~ exited /\ ThreadStep)
    /\ \A m \in AllModules : WF_vars(~ exited /\ ModuleStep(m))
    /\ \A c \in Caller : WF_vars(~ exited /\ CallStep(c))

-----------------------------------------------------------------------------
(* Properties. *)

\* The thread is not detached when somebody joins it, or is about to
\* (Process.cpp:82, 368).
JoinSafe == \A c \in Caller : at[c] = "join" => ~ detached

\* "Wait for the whole process and all modules to finish" (Process.h): the
\* globals are cleaned up after all modules have ended, and the instance, which
\* shows their messages, is closed after the others; of the modules whose threads
\* had begun when the shutdown was triggered, the one of the instance among them
\* (Process.cpp:75, Module.cpp:157, 207).
CountedAreWaitedFor ==
    Instance \in counted /\ pc \in {"close", "cleanup", "end"} =>
        \A m \in counted : state[m] = "gone" \/ (m = Instance /\ pc = "close")

\* close() returns, although the notification of trigger_shutdown() may come
\* between a test and the wait of the shutdown thread; unless a module that was
\* started after the shutdown was published goes on (Process.cpp:62, 364).
ShutdownCompletes ==
    []<>( \/ ~ closing[Main] \/ at[Main] \in {"idle", "done"} \/ exited
          \/ \E m \in Module \ told : state[m] = "runs" )

\* The safety behind ShutdownCompletes: while close() joins the shutdown thread,
\* that does not sleep in its first wait, whatever notification was lost; and
\* while wait() joins it, it sleeps in the second one only if a module has yet to
\* end whose end will wake it, one other than the instance or the instance as it
\* ends (Process.cpp:62, 74, 364).
SleepsForModules ==
    \A c \in Caller : at[c] = "join" =>
        /\ closing[c] => pc \notin {"sleep", "asleep"}
        /\ pc \in {"sleep2", "asleep2"} =>
             \E m \in AllModules :
                 state[m] = "ending" \/ (m # Instance /\ state[m] = "runs")

-----------------------------------------------------------------------------
(* What the proofs rest on. *)

\* The modules that are in num_modules.
Active == {m \in AllModules : state[m] \in {"runs", "ending"}}

Sized     == num_modules = Cardinality(Active)
Begun     == \A m \in counted : state[m] \in {"runs", "ending", "gone"}
Cleared   == pc \notin {"test", "sleep", "asleep"} => ~ do_run
Announced == \A c \in Caller : at[c] = "join" => is_waiting

IndInv == TypeOK /\ Sized /\ Begun /\ Cleared /\ Announced /\ JoinSafe /\ CountedAreWaitedFor

\* The instance is there from the beginning, and close() clears do_run.
InstanceThere == state[Instance] # "new"
ClosingStops  == \A c \in Caller : closing[c] => ~ do_run

\* Who joins the thread has woken it.
FirstSleep == \A c \in Caller : at[c] = "join" /\ closing[c] => pc \notin {"sleep", "asleep"}

\* Once wait() has announced itself the thread sleeps for modules alone.
Needed      == num_modules > (IF InstanceRuns THEN 1 ELSE 0)
SecondSleep == is_waiting /\ pc \in {"sleep2", "asleep2"} => Needed

SleepInv == InstanceThere /\ ClosingStops /\ FirstSleep /\ SecondSleep
=============================================================================
