----------------------- MODULE ProcessShutdownProofs -----------------------
(***************************************************************************)
(* Theorems about ProcessShutdown, for any number of modules and threads.  *)
(*                                                                         *)
(* num_modules is the number of modules in Active, so that a count of at   *)
(* most one while the instance runs leaves nobody else.                    *)
(***************************************************************************)
EXTENDS ProcessShutdown, FiniteSetTheorems, TLAPS

-----------------------------------------------------------------------------
(* The count of the modules. *)

\* AllModules and the modules that are counted are finite sets.
LEMMA Finite ==
  /\ IsFiniteSet(AllModules) /\ Cardinality(AllModules) \in Nat
  /\ \A S \in SUBSET AllModules :
       IsFiniteSet(S) /\ Cardinality(S) \in Nat /\ Cardinality(S) <= Cardinality(AllModules)
<1>1. IsFiniteSet(Module)
  BY ConstantsAssumption
<1>2. IsFiniteSet(Module \cup {Instance})
  BY <1>1, FS_AddElement
<1>3. IsFiniteSet(AllModules)
  BY <1>2 DEF AllModules
<1>4. ASSUME NEW S \in SUBSET AllModules
      PROVE  IsFiniteSet(S) /\ Cardinality(S) <= Cardinality(AllModules)
  BY <1>3, FS_Subset
<1> QED BY <1>3, <1>4, FS_CardinalityType

\* A set with at most one element, which has element x, has no other.
LEMMA OnlyOne ==
  ASSUME NEW S, IsFiniteSet(S), Cardinality(S) <= 1, NEW x \in S, NEW y \in S
  PROVE  x = y
<1> SUFFICES ASSUME x # y PROVE FALSE
  OBVIOUS
<1>1. IsFiniteSet(S \ {x}) /\ Cardinality(S \ {x}) = Cardinality(S) - 1
  BY FS_RemoveElement
<1>2. IsFiniteSet((S \ {x}) \ {y}) /\ Cardinality((S \ {x}) \ {y}) = Cardinality(S \ {x}) - 1
  <2>1. y \in S \ {x}
    OBVIOUS
  <2> QED BY <1>1, <2>1, FS_RemoveElement
<1>3. Cardinality((S \ {x}) \ {y}) \in Nat /\ Cardinality(S) \in Nat
  BY <1>2, FS_CardinalityType
<1> QED BY <1>1, <1>2, <1>3

\* The shutdown thread goes on to the instance when no other module that was
\* counted is left, and the instance has ended or is the only one.
LEMMA NobodyElse ==
  ASSUME IndInv, ~ MustWait, Instance \in counted
  PROVE  \A m \in counted : state[m] = "gone" \/ m = Instance
<1> SUFFICES ASSUME NEW m \in counted, m # Instance, state[m] # "gone"
             PROVE  FALSE
  OBVIOUS
<1>1. m \in AllModules /\ Instance \in AllModules /\ m \in Active
  BY DEF IndInv, TypeOK, Begun, Active, AllModules
<1>2. IsFiniteSet(Active) /\ Cardinality(Active) \in Nat /\ num_modules = Cardinality(Active)
  BY Finite DEF IndInv, Sized, Active
<1>3. CASE InstanceRuns
  <2>1. state[Instance] = "runs" /\ Instance \in Active
    BY <1>1, <1>3 DEF IndInv, Begun, InstanceRuns, Active
  <2>2. Cardinality(Active) <= 1
    BY <1>2, <1>3 DEF MustWait
  <2> QED BY <1>1, <1>2, <2>1, <2>2, OnlyOne
<1>4. CASE ~ InstanceRuns
  <2>1. Cardinality(Active) = 0
    BY <1>2, <1>4 DEF MustWait
  <2>2. Active = {}
    BY <1>2, <2>1, FS_EmptySet
  <2> QED BY <1>1, <2>2
<1> QED BY <1>3, <1>4

-----------------------------------------------------------------------------
(* IndInv is inductive. *)

\* Initially.
LEMMA InitInv == Init => IndInv
<1> SUFFICES ASSUME Init PROVE IndInv
  OBVIOUS
<1>1. Active = {} /\ Cardinality(Active) = 0
  BY FS_EmptySet DEF Init, Active
<1>2. Cardinality(AllModules) \in Nat /\ MaxTrigger \in Nat
  BY Finite, ConstantsAssumption
<1>3. TypeOK
  <2>1. num_modules \in 0..Cardinality(AllModules)
    BY <1>2 DEF Init
  <2>2. calls \in [Caller -> 0..MaxTrigger]
    BY <1>2 DEF Init
  <2>3. closing \in [Caller -> BOOLEAN]
    BY DEF Init
  <2>4. state \in [AllModules -> {"new", "started", "runs", "ending", "gone"}]
    BY DEF Init
  <2>5. do_run \in BOOLEAN /\ do_force \in BOOLEAN /\ is_waiting \in BOOLEAN /\ detached \in BOOLEAN
    BY DEF Init
  <2> QED BY <2>1, <2>2, <2>3, <2>4, <2>5 DEF Init, TypeOK
<1>4. Sized
  BY <1>1 DEF Init, Sized
<1>5. Begun /\ Cleared /\ Announced /\ JoinSafe /\ CountedAreWaitedFor
  BY DEF Init, Begun, Cleared, Announced, JoinSafe, CountedAreWaitedFor
<1> QED BY <1>3, <1>4, <1>5 DEF IndInv

\* A module that goes to another state that is not in num_modules: the count stays.
LEMMA SameCount ==
  ASSUME IndInv, Active' = Active, UNCHANGED num_modules
  PROVE  Sized' /\ (num_modules \in 0..Cardinality(AllModules))'
BY DEF IndInv, Sized, TypeOK

\* The steps of modules.
LEMMA ModuleInv ==
  ASSUME IndInv, NEW m \in AllModules, Start(m) \/ Count(m) \/ End(m) \/ Uncount(m)
  PROVE  IndInv'
<1> USE DEF Caller
<1>0. m \in AllModules /\ state \in [AllModules -> {"new", "started", "runs", "ending", "gone"}]
  BY DEF IndInv, TypeOK
<1>1. IsFiniteSet(Active) /\ Active \in SUBSET AllModules
  BY Finite DEF Active
<1>2. Sized'
  <2>1. CASE Start(m)
    <3>1. Active' = Active
      BY <1>0, <2>1 DEF Start, Active
    <3> QED BY <2>1, <3>1 DEF Start, Sized, IndInv
  <2>2. CASE Count(m)
    <3>1. Active' = Active \cup {m} /\ m \notin Active
      BY <1>0, <2>2 DEF Count, Active
    <3>2. Cardinality(Active') = Cardinality(Active) + 1
      BY <1>1, <3>1, FS_AddElement
    <3> QED BY <2>2, <3>2 DEF Count, Sized, IndInv
  <2>3. CASE End(m)
    <3>1. Active' = Active
      BY <1>0, <2>3 DEF End, Active
    <3> QED BY <2>3, <3>1 DEF End, Sized, IndInv
  <2>4. CASE Uncount(m)
    <3>1. Active' = Active \ {m} /\ m \in Active
      BY <1>0, <2>4 DEF Uncount, Active
    <3>2. Cardinality(Active') = Cardinality(Active) - 1
      BY <1>1, <3>1, FS_RemoveElement
    <3> QED BY <2>4, <3>2 DEF Uncount, Sized, IndInv
  <2> QED BY <2>1, <2>2, <2>3, <2>4
<1>3. (num_modules \in 0..Cardinality(AllModules))'
  <2>1. Active' \in SUBSET AllModules
    BY DEF Active
  <2>2. Cardinality(Active') \in 0..Cardinality(AllModules)
    BY <2>1, Finite
  <2> QED BY <1>2, <2>2 DEF Sized
<1>4. TypeOK'
  BY <1>0, <1>3 DEF IndInv, TypeOK, Start, Count, End, Uncount, Notified, flagVars, threadVars, callVars
<1>5. Begun'
  BY <1>0 DEF IndInv, TypeOK, Begun, Start, Count, End, Uncount
<1>6. Cleared' /\ Announced' /\ JoinSafe'
  BY DEF IndInv, Cleared, Announced, JoinSafe, Start, Count, End, Uncount, Notified, flagVars, threadVars, callVars
<1>7. CountedAreWaitedFor'
  BY <1>0 DEF IndInv, TypeOK, CountedAreWaitedFor, Start, Count, End, Uncount, Notified, flagVars, threadVars
<1> QED BY <1>2, <1>4, <1>5, <1>6, <1>7 DEF IndInv

\* The steps of calls.
LEMMA CallInv ==
  ASSUME IndInv, NEW c \in Caller,
         ForceShutdown(c) \/ CallStep(c) \/ CallWait \/ \E close \in BOOLEAN : Trigger(c, close)
  PROVE  IndInv'
<1> USE DEF IndInv
<1>1. Active' = Active /\ UNCHANGED <<num_modules, state, told>>
  BY DEF ForceShutdown, CallStep, CallWait, Trigger, TriggerStore, Notify, ExitProcess, Wait, Join, Active,
         moduleVars
<1>2. Sized'
  BY <1>1 DEF Sized
<1>3. TypeOK'
  <2>1. c \in Caller /\ Main \in Caller /\ MaxTrigger \in Nat
    BY ConstantsAssumption DEF Caller
  <2>a. ASSUME calls[c] < MaxTrigger PROVE [calls EXCEPT ![c] = @ + 1] \in [Caller -> 0..MaxTrigger]
    BY <2>1, <2>a DEF TypeOK
  <2>b. ASSUME NEW then \in {"notify", "force"}, TriggerStore(c, then)
        PROVE  /\ do_run' \in BOOLEAN /\ counted' \subseteq AllModules
               /\ at' \in [Caller -> {"idle", "notify", "force", "exit", "wait", "join", "done"}]
    BY <2>1, <2>b DEF TypeOK, TriggerStore
  <2>2. CASE ForceShutdown(c)
    <3>1. calls' \in [Caller -> 0..MaxTrigger]
      BY <2>2, <2>a DEF ForceShutdown
    <3>2. TriggerStore(c, IF do_force THEN "notify" ELSE "force")
      BY <2>2 DEF ForceShutdown
    <3>3. /\ do_run' \in BOOLEAN /\ counted' \subseteq AllModules
          /\ at' \in [Caller -> {"idle", "notify", "force", "exit", "wait", "join", "done"}]
      BY <3>2, <2>b
    <3>4. /\ do_force' = TRUE
          /\ UNCHANGED <<is_waiting, threadVars, moduleVars, closing, exited>>
      BY <2>2 DEF ForceShutdown
    <3> QED BY <3>1, <3>3, <3>4 DEF TypeOK, threadVars, moduleVars
  <2>3. CASE Notify(c) \/ ExitProcess(c)
    <3>1. CASE Notify(c)
      BY <1>1, <2>1, <3>1 DEF TypeOK, Notify, Notified, flagVars, threadVars
    <3>2. CASE ExitProcess(c)
      BY <1>1, <2>1, <3>2 DEF TypeOK, ExitProcess, flagVars, threadVars, callVars
    <3> QED BY <2>3, <3>1, <3>2
  <2>4. CASE Wait(c) \/ Join(c)
    <3>1. CASE Wait(c)
      BY <1>1, <2>1, <3>1, ZenonT(60) DEF TypeOK, Wait, Notified, flagVars, threadVars
    <3>2. CASE Join(c)
      BY <1>1, <2>1, <3>2 DEF TypeOK, Join, flagVars, threadVars
    <3> QED BY <2>4, <3>1, <3>2
  <2>5. CASE CallWait
    BY <1>1, <2>1, <2>5 DEF TypeOK, CallWait, flagVars, threadVars
  <2>6. CASE \E close \in BOOLEAN : Trigger(c, close)
    <3>1. PICK close \in BOOLEAN : Trigger(c, close)
      BY <2>6
    <3>2. calls' \in [Caller -> 0..MaxTrigger]
      BY <3>1, <2>a DEF Trigger
    <3>3. /\ do_run' \in BOOLEAN /\ counted' \subseteq AllModules
          /\ at' \in [Caller -> {"idle", "notify", "force", "exit", "wait", "join", "done"}]
      BY <3>1, <2>b DEF Trigger
    <3>4. closing' \in [Caller -> BOOLEAN]
      BY <2>1, <3>1 DEF TypeOK, Trigger
    <3>5. UNCHANGED <<do_force, is_waiting, threadVars, moduleVars, exited>>
      BY <3>1 DEF Trigger
    <3> QED BY <3>2, <3>3, <3>4, <3>5 DEF TypeOK, threadVars, moduleVars
  <2> QED BY <2>2, <2>3, <2>4, <2>5, <2>6 DEF CallStep
<1>4. Begun'
  BY <1>1 DEF TypeOK, Begun, ForceShutdown, CallStep, CallWait, Trigger, TriggerStore, Notify, ExitProcess, Wait, Join
<1>5. Cleared'
  BY DEF TypeOK, Cleared, ForceShutdown, CallStep, CallWait, Trigger, TriggerStore, Notify, ExitProcess, Wait, Join,
      Notified, flagVars, threadVars
<1>6. Announced' /\ JoinSafe'
  BY DEF TypeOK, Announced, JoinSafe, ForceShutdown, CallStep, CallWait, Trigger, TriggerStore, Notify,
      ExitProcess, Wait, Join, Caller, flagVars, threadVars, callVars
<1>7. CountedAreWaitedFor'
  BY <1>1 DEF TypeOK, Cleared, CountedAreWaitedFor, ForceShutdown, CallStep, CallWait, Trigger, TriggerStore, Notify,
      ExitProcess, Wait, Join, Notified, flagVars, threadVars
<1> QED BY <1>2, <1>3, <1>4, <1>5, <1>6, <1>7

\* The steps of the shutdown thread.
LEMMA ThreadInv ==
  ASSUME IndInv, ThreadStep
  PROVE  IndInv'
<1> USE DEF IndInv
<1>1. UNCHANGED <<num_modules, state, at, closing, calls, exited, counted, do_run, do_force, is_waiting>>
  BY DEF ThreadStep, Test, Sleep, Publish, Test2, CloseInstance, Cleanup, moduleVars, callVars, flagVars
<1>2. Active' = Active /\ Sized'
  BY <1>1 DEF Sized, Active
<1>3. TypeOK'
  <2>1. Module \subseteq AllModules /\ Instance \in AllModules
    BY DEF AllModules
  <2>2. told' \subseteq AllModules
    BY <2>1 DEF TypeOK, ThreadStep, Test, Sleep, Publish, Test2, CloseInstance, Cleanup, moduleVars
  <2>3. pc' \in {"test", "sleep", "asleep", "publish", "test2", "sleep2", "asleep2",
                 "close", "cleanup", "end"}
    BY DEF TypeOK, ThreadStep, Test, Sleep, Publish, Test2, CloseInstance, Cleanup
  <2>4. detached' \in BOOLEAN /\ used_force' \in BOOLEAN
    <3>1. CASE Test2
      <4>1. detached' \in BOOLEAN
        BY <3>1 DEF TypeOK, Test2
      <4>2. used_force' \in BOOLEAN
        BY <3>1 DEF TypeOK, Test2
      <4> QED BY <4>1, <4>2
    <3>2. CASE ~ Test2
      BY <3>2 DEF TypeOK, ThreadStep, Test, Sleep, Publish, CloseInstance, Cleanup
    <3> QED BY <3>1, <3>2
  <2> QED BY <1>1, <2>2, <2>3, <2>4 DEF TypeOK
<1>4. Begun' /\ Announced'
  BY <1>1 DEF Begun, Announced
<1>5. Cleared'
  BY <1>1 DEF TypeOK, Cleared, ThreadStep, Test, Sleep, Publish, Test2, CloseInstance, Cleanup, Locked
<1>6. JoinSafe'
  BY <1>1 DEF Announced, JoinSafe, ThreadStep, Test, Sleep, Publish, Test2, CloseInstance, Cleanup
<1>7. CountedAreWaitedFor'
  <2>1. CASE Test2
    <3>1. CASE MustWait
      BY <1>1, <2>1, <3>1 DEF Test2, CountedAreWaitedFor
    <3>2. CASE ~ MustWait
      BY <1>1, <2>1, <3>2, NobodyElse DEF Test2, CountedAreWaitedFor
    <3> QED BY <3>1, <3>2
  <2>2. CASE ~ Test2
    BY <1>1, <2>2 DEF CountedAreWaitedFor, ThreadStep, Test, Sleep, Publish, CloseInstance, Cleanup, Locked
  <2> QED BY <2>1, <2>2
<1> QED BY <1>2, <1>3, <1>4, <1>5, <1>6, <1>7

\* Every step preserves IndInv.
LEMMA NextInv == IndInv /\ [Next]_vars => IndInv'
<1> SUFFICES ASSUME IndInv, [Next]_vars PROVE IndInv'
  OBVIOUS
<1>1. CASE \E m \in AllModules : Start(m) \/ Count(m) \/ End(m) \/ Uncount(m)
  BY <1>1, ModuleInv
<1>2. CASE \E c \in Caller : ForceShutdown(c) \/ CallStep(c) \/ \E close \in BOOLEAN : Trigger(c, close)
  BY <1>2, CallInv
<1>3. CASE CallWait
  <2>1. Main \in Caller
    BY DEF Caller
  <2> QED BY <1>3, <2>1, CallInv
<1>4. CASE ThreadStep
  BY <1>4, ThreadInv
<1>5. CASE UNCHANGED vars
  BY <1>5 DEF vars, flagVars, threadVars, moduleVars, callVars, IndInv, TypeOK, Sized, Active, Begun,
      Cleared, Announced, JoinSafe, CountedAreWaitedFor
<1> QED BY <1>1, <1>2, <1>3, <1>4, <1>5 DEF Next

-----------------------------------------------------------------------------
\* The invariant holds in every behaviour.
THEOREM Invariance == Spec => []IndInv
<1> QED BY InitInv, NextInv, PTL DEF Spec

\* The shutdown thread is never detached when wait() joins it, or is about to,
\* for any number of threads that wait (Process.cpp:82, 368).
THEOREM JoinsSafely == Spec => []JoinSafe
<1>1. IndInv => JoinSafe
  BY DEF IndInv
<1> QED BY <1>1, Invariance, PTL

\* Whatever modules start and end meanwhile, those that had begun when the
\* shutdown was triggered have ended before the globals are cleaned up, and before
\* the instance is closed (Process.cpp:74, 85).
THEOREM ModulesFirst == Spec => []CountedAreWaitedFor
<1>1. IndInv => CountedAreWaitedFor
  BY DEF IndInv
<1> QED BY <1>1, Invariance, PTL

-----------------------------------------------------------------------------
(* The shutdown thread sleeps for modules alone. *)

\* Initially nobody has called.
LEMMA InitSleep == Init => SleepInv
BY DEF Init, SleepInv, InstanceThere, ClosingStops, FirstSleep, SecondSleep, AllModules

\* A module that ends may leave the thread nothing to sleep for: it wakes it.
LEMMA ModuleSleep ==
  ASSUME IndInv, SleepInv, NEW m \in AllModules, Start(m) \/ Count(m) \/ End(m) \/ Uncount(m)
  PROVE  SleepInv'
<1>0. /\ num_modules \in Nat /\ Instance \in AllModules
      /\ state \in [AllModules -> {"new", "started", "runs", "ending", "gone"}]
  BY Finite DEF IndInv, TypeOK, AllModules
<1>1. UNCHANGED <<is_waiting, do_run, at, closing>>
  BY DEF Start, Count, End, Uncount, flagVars, callVars
<1>2. InstanceThere' /\ ClosingStops'
  BY <1>0, <1>1 DEF SleepInv, InstanceThere, ClosingStops, Start, Count, End, Uncount
<1>3. FirstSleep'
  BY <1>1 DEF SleepInv, FirstSleep, Start, Count, End, Uncount, Notified, threadVars
<1>4. SecondSleep'
  <2>1. CASE Uncount(m)
    <3>1. pc' \notin {"sleep2", "asleep2"}
      BY <2>1 DEF Uncount, Locked, Notified
    <3> QED BY <3>1 DEF SecondSleep
  <2>2. CASE Start(m) \/ Count(m) \/ End(m)
    <3>1. InstanceRuns' => InstanceRuns
      BY <1>0, <2>2 DEF SleepInv, InstanceThere, InstanceRuns, Start, Count, End
    <3>2. pc' = pc /\ (num_modules' = num_modules \/ num_modules' = num_modules + 1)
      BY <2>2 DEF Start, Count, End, threadVars
    <3>3. Needed => Needed'
      <4>1. CASE InstanceRuns'
        BY <1>0, <3>1, <3>2, <4>1 DEF Needed
      <4>2. CASE ~ InstanceRuns'
        BY <1>0, <3>2, <4>2 DEF Needed
      <4> QED BY <4>1, <4>2
    <3> QED BY <1>1, <3>2, <3>3 DEF SleepInv, SecondSleep
  <2> QED BY <2>1, <2>2
<1> QED BY <1>2, <1>3, <1>4 DEF SleepInv

\* The calls that store wake the thread, those that join it with the mutex.
LEMMA CallSleep ==
  ASSUME IndInv, SleepInv, NEW c \in Caller,
         ForceShutdown(c) \/ CallStep(c) \/ CallWait \/ \E close \in BOOLEAN : Trigger(c, close)
  PROVE  SleepInv'
<1>0. /\ at \in [Caller -> {"idle", "notify", "force", "exit", "wait", "join", "done"}]
      /\ closing \in [Caller -> BOOLEAN] /\ Main \in Caller
  BY DEF IndInv, TypeOK, Caller
<1>1. UNCHANGED <<num_modules, state>>
  BY DEF ForceShutdown, CallStep, CallWait, Trigger, Notify, ExitProcess, Wait, Join, moduleVars
<1>2. InstanceThere' /\ Needed' = Needed
  BY <1>1 DEF SleepInv, InstanceThere, Needed, InstanceRuns
<1>3. CASE Notify(c) \/ Wait(c)
  <2>1. pc' = pc \/ pc' \notin {"sleep", "asleep", "sleep2", "asleep2"}
    BY <1>3 DEF Notify, Wait, Notified
  <2>2. UNCHANGED <<do_run, closing>>
    BY <1>3 DEF Notify, Wait, flagVars
  <2>3. FirstSleep'
    <3>1. CASE Notify(c)
      BY <1>0, <2>1, <2>2, <3>1 DEF SleepInv, FirstSleep, Notify
    <3>2. CASE Wait(c) /\ detached
      BY <1>0, <2>2, <3>2 DEF SleepInv, FirstSleep, Wait
    <3>3. CASE Wait(c) /\ ~ detached
      <4>1. pc' \notin {"sleep", "asleep"}
        BY <3>3 DEF Wait, Notified, Locked
      <4> QED BY <4>1 DEF FirstSleep
    <3> QED BY <1>3, <3>1, <3>2, <3>3
  <2>4. SecondSleep'
    <3>1. CASE pc' \notin {"sleep2", "asleep2"}
      BY <3>1 DEF SecondSleep
    <3>2. CASE UNCHANGED <<pc, is_waiting>>
      BY <1>2, <3>2 DEF SleepInv, SecondSleep
    <3>3. CASE Wait(c) /\ ~ detached
      <4>1. pc' \notin {"sleep2", "asleep2"}
        BY <3>3 DEF Wait, Notified, Locked
      <4> QED BY <4>1 DEF SecondSleep
    <3>4. CASE Notify(c)
      <4>1. is_waiting' = is_waiting
        BY <3>4 DEF Notify, flagVars
      <4> QED BY <2>1, <3>1, <3>2, <4>1
    <3> QED BY <1>3, <3>2, <3>3, <3>4 DEF Wait
  <2> QED BY <1>2, <2>2, <2>3, <2>4 DEF SleepInv, ClosingStops
<1>4. CASE ForceShutdown(c) \/ \E close \in BOOLEAN : Trigger(c, close)
  <2>1. /\ do_run' = FALSE /\ at'[c] # "join" /\ UNCHANGED <<is_waiting, pc>>
        /\ \A d \in Caller : d # c => at'[d] = at[d] /\ closing'[d] = closing[d]
    BY <1>0, <1>4 DEF ForceShutdown, Trigger, TriggerStore, threadVars
  <2>2. FirstSleep'
    BY <2>1 DEF SleepInv, FirstSleep
  <2> QED BY <1>2, <2>1, <2>2 DEF SleepInv, ClosingStops, SecondSleep
<1>5. CASE ExitProcess(c) \/ Join(c) \/ CallWait
  <2>1. UNCHANGED <<do_run, is_waiting, pc, closing>>
    BY <1>5 DEF ExitProcess, Join, CallWait, flagVars, threadVars, callVars
  <2>2. \A d \in Caller : at'[d] = "join" => at[d] = "join"
    BY <1>0, <1>5 DEF ExitProcess, Join, CallWait, callVars
  <2> QED BY <1>2, <2>1, <2>2 DEF SleepInv, ClosingStops, FirstSleep, SecondSleep
<1> QED BY <1>3, <1>4, <1>5 DEF CallStep

\* The thread goes to sleep only after it has looked, with the mutex.
LEMMA ThreadSleep ==
  ASSUME IndInv, SleepInv, ThreadStep
  PROVE  SleepInv'
<1>1. UNCHANGED <<num_modules, state, at, closing, do_run, is_waiting>>
  BY DEF ThreadStep, Test, Sleep, Publish, Test2, CloseInstance, Cleanup, moduleVars, callVars, flagVars
<1>2. InstanceThere' /\ ClosingStops' /\ Needed' = Needed
  BY <1>1 DEF SleepInv, InstanceThere, ClosingStops, Needed, InstanceRuns
<1>3. FirstSleep'
  <2>1. ASSUME NEW c \in Caller, at[c] = "join", closing[c]
        PROVE  pc' \notin {"sleep", "asleep"}
    BY <2>1 DEF SleepInv, FirstSleep, ClosingStops, ThreadStep, Test, Sleep, Publish, Test2,
                CloseInstance, Cleanup, Locked
  <2> QED BY <1>1, <2>1 DEF FirstSleep
<1>4. SecondSleep'
  <2>1. MustWait /\ is_waiting => Needed
    BY DEF MustWait, Needed
  <2>2. pc' \in {"sleep2", "asleep2"} => (Test2 /\ MustWait) \/ pc \in {"sleep2", "asleep2"}
    BY DEF ThreadStep, Test, Sleep, Publish, Test2, CloseInstance, Cleanup, Locked
  <2> QED BY <1>1, <1>2, <2>1, <2>2 DEF SleepInv, SecondSleep
<1> QED BY <1>2, <1>3, <1>4 DEF SleepInv

\* Every step preserves SleepInv.
LEMMA NextSleep == IndInv /\ SleepInv /\ [Next]_vars => SleepInv'
<1> SUFFICES ASSUME IndInv, SleepInv, [Next]_vars PROVE SleepInv'
  OBVIOUS
<1>1. CASE \E m \in AllModules : Start(m) \/ Count(m) \/ End(m) \/ Uncount(m)
  BY <1>1, ModuleSleep
<1>2. CASE \E c \in Caller : ForceShutdown(c) \/ CallStep(c) \/ \E close \in BOOLEAN : Trigger(c, close)
  BY <1>2, CallSleep
<1>3. CASE CallWait
  <2>1. Main \in Caller
    BY DEF Caller
  <2> QED BY <1>3, <2>1, CallSleep
<1>4. CASE ThreadStep
  BY <1>4, ThreadSleep
<1>5. CASE UNCHANGED vars
  BY <1>5 DEF vars, flagVars, threadVars, moduleVars, callVars, SleepInv, InstanceThere, ClosingStops,
      FirstSleep, SecondSleep, Needed, InstanceRuns
<1> QED BY <1>1, <1>2, <1>3, <1>4, <1>5 DEF Next

\* A count that the thread sleeps for has a module in it that will wake the thread.
LEMMA SomebodyEnds ==
  ASSUME IndInv, Needed
  PROVE  \E m \in AllModules : state[m] = "ending" \/ (m # Instance /\ state[m] = "runs")
<1>1. IsFiniteSet(Active) /\ Cardinality(Active) \in Nat /\ num_modules = Cardinality(Active)
  BY Finite DEF IndInv, Sized, Active
<1>2. CASE ~ InstanceRuns
  <2>1. Active # {}
    BY <1>1, <1>2, FS_EmptySet DEF Needed
  <2> QED BY <1>2, <2>1 DEF Active, InstanceRuns
<1>3. CASE InstanceRuns
  <2>1. Cardinality(Active \ {Instance}) > 0
    <3>1. Cardinality(Active \ {Instance}) >= Cardinality(Active) - 1
      BY <1>1, FS_RemoveElement
    <3>2. IsFiniteSet(Active \ {Instance}) /\ Cardinality(Active \ {Instance}) \in Nat
      BY <1>1, FS_RemoveElement, FS_CardinalityType
    <3> QED BY <1>1, <1>3, <3>1, <3>2 DEF Needed
  <2>2. Active \ {Instance} # {}
    BY <2>1, FS_EmptySet
  <2> QED BY <2>2 DEF Active
<1> QED BY <1>2, <1>3

\* While close() joins the shutdown thread, no notification that came too early
\* keeps that in its first wait; while wait() joins it, it sleeps in the second
\* one only if a module has yet to end that will wake it (Process.cpp:62, 74,
\* 364): with modules that end, close() cannot hang.
THEOREM SleepsSafely == Spec => []SleepsForModules
<1>1. IndInv /\ SleepInv => SleepsForModules
  <2> SUFFICES ASSUME IndInv, SleepInv, NEW c \in Caller, at[c] = "join"
        PROVE  /\ closing[c] => pc \notin {"sleep", "asleep"}
               /\ pc \in {"sleep2", "asleep2"} =>
                    \E m \in AllModules : state[m] = "ending" \/ (m # Instance /\ state[m] = "runs")
    BY DEF SleepsForModules
  <2>1. closing[c] => pc \notin {"sleep", "asleep"}
    BY DEF SleepInv, FirstSleep
  <2>2. is_waiting
    BY DEF IndInv, Announced
  <2>3. pc \in {"sleep2", "asleep2"} => Needed
    BY <2>2 DEF SleepInv, SecondSleep
  <2> QED BY <2>1, <2>3, SomebodyEnds
<1> QED BY <1>1, InitSleep, NextSleep, Invariance, PTL DEF Spec

=============================================================================
