-------------------------- MODULE MCModuleLifecycle --------------------------
(* Instances of ModuleLifecycle for TLC. *)
EXTENDS ModuleLifecycle

CONSTANTS a, b

\* a starts, restarts and closes the module. b gets copies of its handle, and
\* does what does not wait, or waits last.
OwnerCalls ==
    {a} \X {"start", "restart", "close", "shutdown", "exit"}
    \cup {b} \X {"copy", "stop", "exit", "detach", "release"}

\* a starts the module and lets go of it, b finds it by name.
DetachedCalls ==
    {a} \X {"start_detached", "release", "restart_async"}
    \cup {b} \X {"get_module", "attach", "stop", "exit", "release", "close"}

\* b asks for a restart, a for the end.
RestartCalls ==
    {a} \X {"start", "close"} \cup {b} \X {"copy", "restart_async", "release"}

\* a lets go of a module that b attaches to.
AttachCalls == {a} \X {"start", "release"} \cup {b} \X {"get_module", "attach"}
=============================================================================
