---------------------------- MODULE MCThreadPool ----------------------------
(* Instances of ThreadPool for TLC. *)
EXTENDS ThreadPool, TLC

CONSTANTS a, b

\* A thread for each task, one thread, two.
PoolSizes == {-1, 1, 2}

\* Two callers that wait for each other's tasks and for their own, that close
\* the pool while the other adds to it or waits, and that destroy it.
TwoCallers ==
    { a :> <<"add", "sync">>                         @@ b :> <<"add", "add", "barrier", "jobs">>,
      a :> <<"add", "exit", "wait">>                 @@ b :> <<"add", "add", "jobs">>,
      a :> <<"add", "add", "barrier", "exit", "wait", "destroy">> @@ b :> <<"add">>,
      a :> <<"exit", "wait">>                        @@ b :> <<"add", "sync", "add", "wait">> }

\* One caller runs a task and destroys the pool.
OneCaller == { a :> <<"add", "exit", "wait", "destroy">> }
=============================================================================
