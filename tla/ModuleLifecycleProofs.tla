------------------------ MODULE ModuleLifecycleProofs ------------------------
(***************************************************************************)
(* Theorems about ModuleLifecycle, for every value of its constants.       *)
(*                                                                         *)
(* IndInv is inductive. The steps of a call are a sequence, so the lemmas  *)
(* begin with what taking a step does to it (TodoThen); then a lemma for   *)
(* each group of conjuncts says that a step preserves it. OwnersCounted    *)
(* follows separately, from what a step does to one handle (CountOne), and *)
(* StopsOnlyUnowned from it when no handle is attached again. A module is  *)
(* at rest when it is deleted (RestInv) if it is not started again after   *)
(* somebody waited for it. TLC refutes both without these conditions.      *)
(***************************************************************************)
EXTENDS ModuleLifecycle, FiniteSetTheorems, TLAPS

-----------------------------------------------------------------------------
(* The steps left of a call. *)

\* Replacing the first element of a sequence by a sequence s.
LEMMA ThenSeq ==
  ASSUME NEW S, NEW q \in Seq(S), q # <<>>, NEW s \in Seq(S)
  PROVE  /\ s \o Tail(q) \in Seq(S)
         /\ Len(s \o Tail(q)) = Len(s) + Len(q) - 1
         /\ \A i \in 1..Len(s) : (s \o Tail(q))[i] = s[i]
         /\ \A i \in (Len(s) + 1)..(Len(s) + Len(q) - 1) :
                (s \o Tail(q))[i] = q[i - Len(s) + 1]
<1>1. Tail(q) \in Seq(S) /\ Len(Tail(q)) = Len(q) - 1
  OBVIOUS
<1>2. \A i \in 1..(Len(q) - 1) : Tail(q)[i] = q[i + 1]
  OBVIOUS
<1> QED BY <1>1, <1>2

\* The programs are sequences of steps in the shape of CallShape, and so is what
\* wait(), start() and release() put in front of the rest of a call.
LEMMA ProgramShape ==
  ASSUME NEW f \in DOMAIN Program
  PROVE  /\ Program[f] \in Seq(Step) /\ Program[f] # <<>>
         /\ \A i \in DOMAIN Program[f] :
             /\ Program[f][i] \notin {"setup", "spawn", "join", "drop"}
             /\ Program[f][i] = "release" => i = Len(Program[f])
<1>1. f \in {"start", "start_detached", "restart", "restart_async", "detach", "attach", "wait", "exit", "stop", "close", "shutdown", "release"}
  BY DEF Program
<1>2. CASE f = "start"
  BY <1>2 DEF Program, Step
<1>3. CASE f = "start_detached"
  BY <1>3 DEF Program, Step
<1>4. CASE f = "restart"
  BY <1>4 DEF Program, Step
<1>5. CASE f = "restart_async"
  BY <1>5 DEF Program, Step
<1>6. CASE f = "detach"
  BY <1>6 DEF Program, Step
<1>7. CASE f = "attach"
  BY <1>7 DEF Program, Step
<1>8. CASE f = "wait"
  BY <1>8 DEF Program, Step
<1>9. CASE f = "exit"
  BY <1>9 DEF Program, Step
<1>10. CASE f = "stop"
  BY <1>10 DEF Program, Step
<1>11. CASE f = "close"
  BY <1>11 DEF Program, Step
<1>12. CASE f = "shutdown"
  BY <1>12 DEF Program, Step
<1>13. CASE f = "release"
  BY <1>13 DEF Program, Step
<1> QED BY <1>1, <1>2, <1>3, <1>4, <1>5, <1>6, <1>7, <1>8, <1>9, <1>10, <1>11, <1>12, <1>13

\* What Then() does to the steps left of each handle.
LEMMA TodoThen ==
  ASSUME TypeOK, NEW h \in Handle, todo[h] # <<>>, NEW s \in Seq(Step), Then(h, s)
  PROVE  /\ todo' \in [Handle -> Seq(Step)]
         /\ \A o \in Handle \ {h} : todo'[o] = todo[o]
         /\ Len(todo'[h]) = Len(s) + Len(todo[h]) - 1
         /\ \A i \in 1..Len(s) : todo'[h][i] = s[i]
         /\ \A i \in (Len(s) + 1)..Len(todo'[h]) :
                todo'[h][i] = todo[h][i - Len(s) + 1]
<1>1. todo[h] \in Seq(Step)
  BY DEF TypeOK
<1>2. todo' = [todo EXCEPT ![h] = s \o Tail(todo[h])]
  BY DEF Then
<1>3. s \o Tail(todo[h]) \in Seq(Step)
  BY <1>1, ThenSeq
<1>4. todo'[h] = s \o Tail(todo[h])
  BY <1>2 DEF TypeOK
<1>5. Len(s \o Tail(todo[h])) = Len(s) + Len(todo[h]) - 1
  BY <1>1, ThenSeq
<1>6. \A i \in 1..Len(s) : (s \o Tail(todo[h]))[i] = s[i]
  BY <1>1, ThenSeq
<1>7. \A i \in (Len(s) + 1)..(Len(s) + Len(todo[h]) - 1) :
          (s \o Tail(todo[h]))[i] = todo[h][i - Len(s) + 1]
  BY <1>1, ThenSeq
<1> QED BY <1>2, <1>3, <1>4, <1>5, <1>6, <1>7 DEF TypeOK

\* The sequences that the steps put in front of the rest of a call.
LEMMA Fronts ==
  /\ <<>> \in Seq(Step) /\ <<"setup">> \in Seq(Step)
  /\ <<"spawn">> \in Seq(Step) /\ <<"join">> \in Seq(Step)
  /\ <<"drop">> \in Seq(Step) /\ <<"exit", "wait", "drop">> \in Seq(Step)
  BY DEF Step

-----------------------------------------------------------------------------
(* TypeOK *)

\* The initial state is well typed.
LEMMA InitType == Init => TypeOK
  BY ConstantsAssumption DEF Init, TypeOK, PC

\* A step keeps the types.
LEMMA NextType == TypeOK /\ [Next]_vars => TypeOK'
<1> SUFFICES ASSUME TypeOK, [Next]_vars PROVE TypeOK'
  OBVIOUS
<1> USE ConstantsAssumption, Fronts DEF TypeOK
<1>1. CASE UNCHANGED vars
  BY <1>1 DEF vars, moduleVars, nodeVars, threadVars, handleVars
<1>2. ASSUME NEW h \in Handle, User(h)
      PROVE  TypeOK'
  <2>1. ASSUME NEW m \in Module, Create(h, m)
        PROVE  TypeOK'
    BY <2>1 DEF Create, nodeVars, threadVars
  <2>2. ASSUME NEW m \in Module, GetModule(h, m)
        PROVE  TypeOK'
    BY <2>2, SMTT(60) DEF GetModule, moduleVars, nodeVars, threadVars
  <2>3. ASSUME NEW o \in Handle, Copy(h, o)
        PROVE  TypeOK'
    BY <2>3, SMTT(60) DEF Copy, nodeVars, threadVars
  <2>4. ASSUME NEW f \in DOMAIN Program, Begin(h, f)
        PROVE  TypeOK'
    BY <2>4, ProgramShape, SMTT(60) DEF Begin, moduleVars, nodeVars, threadVars
  <2> QED BY <1>2, <2>1, <2>2, <2>3, <2>4 DEF User
<1>3. ASSUME NEW h \in Handle, NEW m \in Module, CallStep(h, m)
      PROVE  TypeOK'
  <2>1. CASE Start(h, m)
    <3>1. todo' \in [Handle -> Seq(Step)]
      BY <2>1, TodoThen DEF Start, At
    <3>2. self_ptr' \in [Module -> BOOLEAN] /\ do_run' \in [Module -> BOOLEAN]
      <4>1. CASE thread[m] = None
        <5>1. /\ self_ptr' = [self_ptr EXCEPT ![m] = TRUE]
              /\ do_run' = [do_run EXCEPT ![m] = TRUE]
          BY <2>1, <4>1, Zenon DEF Start
        <5> QED BY <5>1
      <4>2. CASE thread[m] # None
        BY <2>1, <4>2 DEF Start
      <4> QED BY <4>1, <4>2
    <3> QED BY <2>1, <3>1, <3>2 DEF Start, threadVars
  <2>2. CASE StartSetup(h, m)
    <3>1. todo' \in [Handle -> Seq(Step)]
      BY <2>2, TodoThen DEF StartSetup, At
    <3>2. tasks' \in [Module -> 0..MaxTasks] /\ open' \in [Module -> BOOLEAN]
      BY <2>2 DEF StartSetup, Setup
    <3> QED BY <2>2, <3>1, <3>2 DEF StartSetup, moduleVars, threadVars
  <2>3. CASE StartThrows(h, m)
    BY <2>3, TodoThen, SMTT(60) DEF StartThrows, At, Setup, Exit, moduleVars, nodeVars, threadVars, PC, Running
  <2>4. ASSUME NEW t \in Thread, Spawn(h, m, t)
        PROVE  TypeOK'
    BY <2>4, TodoThen DEF Spawn, At, Setup, Exit, moduleVars, nodeVars, threadVars, PC, Running
  <2>5. CASE Detach(h, m)
    <3>1. todo' \in [Handle -> Seq(Step)]
      BY <2>5, TodoThen DEF Detach, At
    <3>2. detached' \in [Handle -> BOOLEAN]
      BY <2>5 DEF Detach
    <3>3. ref_count' \in [Module -> Int]
      <4>1. CASE detached[h]
        BY <2>5, <4>1 DEF Detach
      <4>2. CASE ~ detached[h]
        BY <2>5, <4>2 DEF Detach
      <4> QED BY <4>1, <4>2
    <3> QED BY <2>5, <3>1, <3>2, <3>3 DEF Detach, nodeVars, threadVars
  <2>6. CASE Attach(h, m)
    <3>1. todo' \in [Handle -> Seq(Step)]
      BY <2>6, TodoThen DEF Attach, At
    <3>2. detached' \in [Handle -> BOOLEAN]
      BY <2>6 DEF Attach
    <3>3. ref_count' \in [Module -> Int]
      <4>1. CASE detached[h]
        BY <2>6, <4>1 DEF Attach
      <4>2. CASE ~ detached[h]
        BY <2>6, <4>2 DEF Attach
      <4> QED BY <4>1, <4>2
    <3> QED BY <2>6, <3>1, <3>2, <3>3 DEF Attach, nodeVars, threadVars
  <2>7. CASE ExitCall(h, m)
    BY <2>7, TodoThen DEF ExitCall, At, Setup, Exit, moduleVars, nodeVars, threadVars, PC, Running
  <2>8. CASE Flag(h, m)
    BY <2>8, TodoThen DEF Flag, At, Setup, Exit, moduleVars, nodeVars, threadVars, PC, Running
  <2>9. CASE Stop(h, m)
    <3>1. todo' \in [Handle -> Seq(Step)]
      BY <2>9, TodoThen DEF Stop, At
    <3>2. CASE open[m]
      BY <2>9, <3>1, <3>2, SMTT(60) DEF Stop, moduleVars, nodeVars, threadVars
    <3>3. CASE ~ open[m]
      BY <2>9, <3>1, <3>3 DEF Stop, moduleVars, nodeVars, threadVars
    <3> QED BY <3>2, <3>3
  <2>10. CASE Wait(h, m)
    BY <2>10, TodoThen, ZenonT(60) DEF Wait, At, Setup, Exit, moduleVars, nodeVars, threadVars, PC, Running
  <2>11. CASE Join(h, m)
    BY <2>11, TodoThen DEF Join, At, Setup, Exit, moduleVars, nodeVars, threadVars, PC, Running
  <2>12. CASE Release(h, m)
    <3>1. PICK s \in {<<"drop">>, <<"exit", "wait", "drop">>} : Then(h, s)
      <4>1. CASE ref_count'[m] = 0 /\ ~ detached[h]
        BY <2>12, <4>1 DEF Release
      <4>2. CASE ~ (ref_count'[m] = 0 /\ ~ detached[h])
        BY <2>12, <4>2 DEF Release
      <4> QED BY <4>1, <4>2
    <3>2. todo' \in [Handle -> Seq(Step)]
      BY <2>12, <3>1, TodoThen DEF Release, At
    <3>3. CASE detached[h]
      BY <2>12, <3>2, <3>3 DEF Release, nodeVars, threadVars
    <3>4. CASE ~ detached[h]
      BY <2>12, <3>2, <3>4, SMTT(60) DEF Release, nodeVars, threadVars
    <3> QED BY <3>3, <3>4
  <2>13. CASE Drop(h, m)
    BY <2>13, TodoThen DEF Drop, At, Setup, Exit, moduleVars, nodeVars, threadVars, PC, Running
  <2> QED BY <1>3, <2>1, <2>2, <2>3, <2>4, <2>5, <2>6, <2>7, <2>8, <2>9, <2>10, <2>11, <2>12, <2>13 DEF CallStep
<1>4. ASSUME NEW t \in Thread, NEW m \in Module, EntryStep(t, m)
      PROVE  TypeOK'
  <2>1. CASE EntryBegin(t, m)
    BY <2>1 DEF EntryBegin, Setup, Exit, moduleVars, nodeVars, threadVars, handleVars, PC, Running, Leaving
  <2>2. CASE EntryLoop(t, m)
    BY <2>2 DEF EntryLoop, Setup, Exit, moduleVars, nodeVars, threadVars, handleVars, PC, Running, Leaving
  <2>3. CASE RunTask(t, m)
    <3>1. do_run' \in [Module -> BOOLEAN] /\ open' \in [Module -> BOOLEAN]
      <4>1. CASE m \in Deferring
        BY <2>3, <4>1 DEF RunTask
      <4>2. CASE m \notin Deferring
        <5>1. do_run' = [do_run EXCEPT ![m] = FALSE] /\ open' = [open EXCEPT ![m] = FALSE]
          BY <2>3, <4>2, Zenon DEF RunTask, Exit
        <5> QED BY <5>1
      <4> QED BY <4>1, <4>2
    <3>2. tasks' \in [Module -> 0..MaxTasks]
      BY <2>3 DEF RunTask
    <3> QED BY <2>3, <3>1, <3>2 DEF RunTask, moduleVars, threadVars, handleVars
  <2>4. CASE MainEnds(t, m)
    BY <2>4 DEF MainEnds, Setup, Exit, moduleVars, nodeVars, threadVars, handleVars, PC, Running, Leaving
  <2>5. CASE EntryClose(t, m)
    BY <2>5 DEF EntryClose, Setup, Exit, moduleVars, nodeVars, threadVars, handleVars, PC, Running, Leaving
  <2>6. CASE EntryCheck(t, m)
    BY <2>6 DEF EntryCheck, Setup, Exit, moduleVars, nodeVars, threadVars, handleVars, PC, Running, Leaving
  <2>7. CASE EntryAgain(t, m)
    <3>1. tasks' \in [Module -> 0..MaxTasks] /\ open' \in [Module -> BOOLEAN]
      BY <2>7 DEF EntryAgain, Setup
    <3>2. pc' \in [Thread -> PC]
      <4>1. CASE pc' = [pc EXCEPT ![t] = "loop"]
        BY <4>1 DEF PC, Running
      <4>2. CASE pc' = [pc EXCEPT ![t] = "terminate"]
        BY <4>2 DEF PC, Running
      <4> QED BY <2>7, <4>1, <4>2 DEF EntryAgain
    <3> QED BY <2>7, <3>1, <3>2 DEF EntryAgain, moduleVars, handleVars
  <2>8. CASE EntryUnref(t, m)
    BY <2>8 DEF EntryUnref, Setup, Exit, moduleVars, nodeVars, threadVars, handleVars, PC, Running, Leaving
  <2>9. CASE EntryRemove(t, m)
    BY <2>9 DEF EntryRemove, Setup, Exit, moduleVars, nodeVars, threadVars, handleVars, PC, Running, Leaving
  <2>10. CASE EntryDetach(t, m)
    BY <2>10 DEF EntryDetach, Setup, Exit, moduleVars, nodeVars, threadVars, handleVars, PC, Running, Leaving
  <2>11. CASE EntryDrop(t, m)
    BY <2>11 DEF EntryDrop, Setup, Exit, moduleVars, nodeVars, threadVars, handleVars, PC, Running, Leaving
  <2> QED BY <1>4, <2>1, <2>2, <2>3, <2>4, <2>5, <2>6, <2>7, <2>8, <2>9, <2>10, <2>11 DEF EntryStep
<1>5. ASSUME NEW t \in Thread, NEW m \in Module, EndsItself(t, m)
      PROVE  TypeOK'
  BY <1>5, ZenonT(60) DEF EndsItself, Exit, moduleVars, handleVars, PC, Running
<1>6. ASSUME NEW t \in Thread, EntryCount(t)
      PROVE  TypeOK'
  BY <1>6 DEF EntryCount, moduleVars, nodeVars, handleVars, PC
<1> QED BY <1>1, <1>2, <1>3, <1>4, <1>5, <1>6 DEF Next, HandleStep, Entry

-----------------------------------------------------------------------------
(* CallShape *)

\* A step of a call that puts s in front of the rest keeps the shape of calls,
\* when s has the shape.
LEMMA ShapeThen ==
  ASSUME TypeOK, CallShape, module' = module,
         NEW h \in Handle, todo[h] # <<>>, NEW s \in Seq(Step), Then(h, s),
         \A i \in 1..Len(s) : i > 1 => s[i] \notin {"setup", "spawn", "join"},
         \A i \in 1..Len(s) :
            s[i] \in {"release", "drop"} => i = Len(s) /\ Len(todo[h]) = 1
  PROVE  CallShape'
<1> SUFFICES ASSUME NEW o \in Handle
             PROVE  /\ todo'[o] # <<>> => module'[o] # None
                    /\ \A i \in DOMAIN todo'[o] :
                        /\ i > 1 => todo'[o][i] \notin {"setup", "spawn", "join"}
                        /\ todo'[o][i] \in {"release", "drop"} => i = Len(todo'[o])
  BY DEF CallShape
<1>1. CASE o # h
  BY <1>1, TodoThen DEF CallShape
<1>2. CASE o = h
  <2>1. /\ Len(todo'[h]) = Len(s) + Len(todo[h]) - 1
        /\ \A i \in 1..Len(s) : todo'[h][i] = s[i]
        /\ \A i \in (Len(s) + 1)..Len(todo'[h]) :
                todo'[h][i] = todo[h][i - Len(s) + 1]
        /\ todo'[h] \in Seq(Step)
    BY TodoThen
  <2>2. todo[h] \in Seq(Step) /\ Len(todo[h]) \in Nat /\ Len(todo[h]) > 0
    BY DEF TypeOK
  <2>3. ASSUME NEW i \in 1..Len(s)
        PROVE  /\ i > 1 => todo'[h][i] \notin {"setup", "spawn", "join"}
               /\ todo'[h][i] \in {"release", "drop"} => i = Len(todo'[h])
    <3>1. todo'[h][i] = s[i]
      BY <2>1
    <3>2. i > 1 => s[i] \notin {"setup", "spawn", "join"}
      OBVIOUS
    <3>3. s[i] \in {"release", "drop"} => i = Len(s) /\ Len(todo[h]) = 1
      OBVIOUS
    <3>4. Len(s) \in Nat /\ i \in Nat
      OBVIOUS
    <3>5. ASSUME s[i] \in {"release", "drop"}
          PROVE  i = Len(todo'[h])
      <4>1. i = Len(s) /\ Len(todo[h]) = 1
        BY <3>3, <3>5
      <4>2. Len(todo'[h]) = Len(s) + 1 - 1
        BY <2>1, <4>1
      <4> QED BY <3>4, <4>1, <4>2
    <3> QED BY <3>1, <3>2, <3>5
  <2>4. ASSUME NEW i \in (Len(s) + 1)..Len(todo'[h])
        PROVE  /\ i > 1 => todo'[h][i] \notin {"setup", "spawn", "join"}
               /\ todo'[h][i] \in {"release", "drop"} => i = Len(todo'[h])
    <3>1. i - Len(s) + 1 \in DOMAIN todo[h] /\ i - Len(s) + 1 > 1
      BY <2>1, <2>2
    <3>2. todo'[h][i] = todo[h][i - Len(s) + 1]
      BY <2>1
    <3>3. todo'[h][i] \notin {"setup", "spawn", "join"}
      BY <3>1, <3>2 DEF CallShape
    <3>4. todo'[h][i] \in {"release", "drop"} => i - Len(s) + 1 = Len(todo[h])
      BY <3>1, <3>2 DEF CallShape
    <3> QED BY <2>1, <2>2, <3>3, <3>4
  <2>5. module'[h] # None
    BY DEF CallShape
  <2>6. DOMAIN todo'[h] = 1..Len(todo'[h])
    BY <2>1
  <2> QED BY <1>2, <2>1, <2>2, <2>3, <2>4, <2>5, <2>6, SMTT(60)
<1> QED BY <1>1, <1>2

\* The same for the steps that put nothing in front, one step, or the end of
\* the last owner's release().
LEMMA ShapeNone ==
  ASSUME TypeOK, CallShape, module' = module,
         NEW h \in Handle, todo[h] # <<>>, Then(h, <<>>)
  PROVE  CallShape'
<1>1. <<>> \in Seq(Step) /\ 1..Len(<<>>) = {}
  BY Fronts
<1> DEFINE s == <<>>
<1>2. \A i \in 1..Len(s) : FALSE
  BY <1>1
<1>3. s \in Seq(Step) /\ Then(h, s)
  BY <1>1
<1> HIDE DEF s
<1> QED BY <1>2, <1>3, ShapeThen

\* One step that takes the place of the first keeps the shape of a call.
LEMMA ShapeOne ==
  ASSUME TypeOK, CallShape, module' = module,
         NEW h \in Handle, todo[h] # <<>>, NEW x \in Step, Then(h, <<x>>),
         x \in {"release", "drop"} => Len(todo[h]) = 1
  PROVE  CallShape'
<1> DEFINE s == <<x>>
<1>1. s \in Seq(Step) /\ Len(s) = 1 /\ s[1] = x /\ Then(h, s)
  OBVIOUS
<1> HIDE DEF s
<1>2. \A i \in 1..Len(s) : i = 1 /\ s[i] = x
  BY <1>1
<1>3. \A i \in 1..Len(s) : i > 1 => s[i] \notin {"setup", "spawn", "join"}
  BY <1>2
<1>4. \A i \in 1..Len(s) :
        s[i] \in {"release", "drop"} => i = Len(s) /\ Len(todo[h]) = 1
  BY <1>1, <1>2
<1> QED BY <1>1, <1>3, <1>4, ShapeThen

\* So do the last steps of close() in the place of the last.
LEMMA ShapeLast ==
  ASSUME TypeOK, CallShape, module' = module,
         NEW h \in Handle, Len(todo[h]) = 1, todo[h] # <<>>,
         Then(h, <<"exit", "wait", "drop">>)
  PROVE  CallShape'
<1> DEFINE s == <<"exit", "wait", "drop">>
<1>1. s \in Seq(Step) /\ Then(h, s)
  BY Fronts
<1>2. Len(s) = 3 /\ s[1] = "exit" /\ s[2] = "wait" /\ s[3] = "drop"
  OBVIOUS
<1> HIDE DEF s
<1>3. \A i \in 1..Len(s) : i = 1 \/ i = 2 \/ i = 3
  BY <1>2
<1>4. \A i \in 1..Len(s) : i > 1 => s[i] \notin {"setup", "spawn", "join"}
  BY <1>2, <1>3
<1>5. \A i \in 1..Len(s) :
        s[i] \in {"release", "drop"} => i = Len(s) /\ Len(todo[h]) = 1
  BY <1>2, <1>3
<1> QED BY <1>1, <1>4, <1>5, ShapeThen

\* A call at release() or at its end is at its last step.
LEMMA AtLast ==
  ASSUME TypeOK, CallShape, NEW h \in Handle, At(h, "release") \/ At(h, "drop")
  PROVE  Len(todo[h]) = 1
<1>1. todo[h] \in Seq(Step) /\ todo[h] # <<>>
  BY DEF TypeOK, At
<1>2. 1 \in DOMAIN todo[h] /\ todo[h][1] = Head(todo[h])
  BY <1>1
<1> QED BY <1>2 DEF CallShape, At

\* A step keeps the shape of calls.
LEMMA NextCallShape == TypeOK /\ CallShape /\ [Next]_vars => CallShape'
<1> SUFFICES ASSUME TypeOK, CallShape, [Next]_vars PROVE CallShape'
  OBVIOUS
<1> USE Fronts
<1>1. CASE UNCHANGED <<module, todo>>
  BY <1>1 DEF CallShape
<1>2. ASSUME NEW h \in Handle, User(h)
      PROVE  CallShape'
  <2>1. ASSUME NEW m \in Module, Create(h, m) \/ GetModule(h, m)
        PROVE  CallShape'
    BY <2>1, ConstantsAssumption DEF Create, GetModule, CallShape, TypeOK
  <2>2. ASSUME NEW o \in Handle, Copy(h, o)
        PROVE  CallShape'
    BY <2>2 DEF Copy, CallShape, TypeOK
  <2>3. ASSUME NEW f \in DOMAIN Program, Begin(h, f)
        PROVE  CallShape'
    <3>1. todo'[h] = Program[f] /\ module'[h] # None
      BY <2>3 DEF Begin, TypeOK
    <3>2. \A o \in Handle \ {h} : todo'[o] = todo[o] /\ module'[o] = module[o]
      BY <2>3 DEF Begin, TypeOK
    <3> QED BY <3>1, <3>2, ProgramShape DEF CallShape
  <2> QED BY <1>2, <2>1, <2>2, <2>3 DEF User
<1>3. ASSUME NEW h \in Handle, NEW m \in Module, CallStep(h, m)
      PROVE  CallShape'
  <2>1. CASE Start(h, m)
    <3>1. CASE thread[m] = None
      BY <2>1, <3>1, ShapeOne DEF Start, At, Step
    <3>2. CASE thread[m] # None
      BY <2>1, <3>2, ShapeNone DEF Start, At, Step
    <3> QED BY <3>1, <3>2
  <2>2. CASE StartSetup(h, m)
    BY <2>2, ShapeOne DEF StartSetup, At, Step
  <2>3. CASE StartThrows(h, m)
    BY <2>3 DEF StartThrows, CallShape, TypeOK
  <2>4. ASSUME NEW t \in Thread, Spawn(h, m, t)
        PROVE  CallShape'
    BY <2>4, ShapeNone DEF Spawn, At
  <2>5. CASE Detach(h, m)
    BY <2>5, ShapeNone DEF Detach, At
  <2>6. CASE Attach(h, m)
    BY <2>6, ShapeNone DEF Attach, At
  <2>7. CASE ExitCall(h, m)
    BY <2>7, ShapeNone DEF ExitCall, At
  <2>8. CASE Flag(h, m)
    BY <2>8, ShapeNone DEF Flag, At
  <2>9. CASE Stop(h, m)
    BY <2>9, ShapeNone DEF Stop, At
  <2>10. CASE Wait(h, m)
    <3>1. CASE thread[m] = None
      BY <2>10, <3>1, ShapeNone DEF Wait, At, Step
    <3>2. CASE thread[m] # None
      BY <2>10, <3>2, ShapeOne DEF Wait, At, Step
    <3> QED BY <3>1, <3>2
  <2>11. CASE Join(h, m)
    BY <2>11, ShapeNone DEF Join, At
  <2>12. CASE Release(h, m)
    <3>1. PICK s \in {<<"drop">>, <<"exit", "wait", "drop">>} : Then(h, s)
      <4>1. CASE ref_count'[m] = 0 /\ ~ detached[h]
        BY <2>12, <4>1 DEF Release
      <4>2. CASE ~ (ref_count'[m] = 0 /\ ~ detached[h])
        BY <2>12, <4>2 DEF Release
      <4> QED BY <4>1, <4>2
    <3>2. module' = module /\ todo[h] # <<>> /\ Len(todo[h]) = 1
      BY <2>12, AtLast DEF Release, At
    <3>3. CASE s = <<"drop">>
      BY <3>1, <3>2, <3>3, ShapeOne DEF Step
    <3>4. CASE s = <<"exit", "wait", "drop">>
      BY <3>1, <3>2, <3>4, ShapeLast
    <3> QED BY <3>1, <3>3, <3>4
  <2>13. CASE Drop(h, m)
    <3>1. todo'[h] = <<>> /\ \A o \in Handle \ {h} : todo'[o] = todo[o]
      <4>1. todo[h] # <<>> /\ Len(todo[h]) = 1 /\ Then(h, <<>>)
        BY <2>13, AtLast DEF Drop, At
      <4>2. todo' \in [Handle -> Seq(Step)] /\ Len(todo'[h]) = Len(<<>>) + 1 - 1
        BY <4>1, TodoThen, ZenonT(60)
      <4>3. todo'[h] \in Seq(Step) /\ Len(todo'[h]) = 0
        BY <4>2
      <4> QED BY <4>1, <4>3, TodoThen
    <3>2. \A o \in Handle \ {h} : module'[o] = module[o]
      BY <2>13 DEF Drop, TypeOK
    <3> QED BY <3>1, <3>2 DEF CallShape
  <2> QED BY <1>3, <2>1, <2>2, <2>3, <2>4, <2>5, <2>6, <2>7, <2>8, <2>9, <2>10, <2>11, <2>12, <2>13 DEF CallStep
<1>4. ASSUME NEW t \in Thread,
             \/ EntryCount(t)
             \/ \E m \in Module : EntryStep(t, m) \/ EndsItself(t, m)
      PROVE  UNCHANGED <<module, todo>>
  BY <1>4 DEF EntryCount, EndsItself, EntryStep, handleVars,
     EntryBegin, EntryLoop, RunTask, MainEnds, EntryClose, EntryCheck,
     EntryAgain, EntryUnref, EntryRemove, EntryDetach, EntryDrop
<1>5. CASE UNCHANGED vars
  BY <1>1, <1>5 DEF vars, handleVars
<1> QED BY <1>1, <1>2, <1>3, <1>4, <1>5 DEF Next, HandleStep, Entry

-----------------------------------------------------------------------------
(* StartShape, ThreadShape, ThreadKnown and AliveWhileUsed *)

\* A handle is starting its module.
Starting(h) == At(h, "setup") \/ At(h, "spawn")

\* What is kept together here.
Kept == StartShape /\ ThreadShape /\ ThreadKnown /\ AliveWhileUsed

\* What a step that ends with s says of whether a handle is starting a module.
LEMMA StartingOthers ==
  ASSUME TypeOK, NEW h \in Handle, todo[h] # <<>>, NEW s \in Seq(Step),
         Then(h, s), NEW o \in Handle \ {h}
  PROVE  Starting(o)' <=> Starting(o)
  BY TodoThen DEF Starting, At

\* A step that ends with one of these does not leave the handle starting its module.
LEMMA StartingNot ==
  ASSUME TypeOK, CallShape, NEW h \in Handle, todo[h] # <<>>,
         NEW s \in {<<>>, <<"join">>, <<"drop">>, <<"exit", "wait", "drop">>},
         Then(h, s)
  PROVE  ~ Starting(h)'
<1>1. s \in Seq(Step)
  BY Fronts
<1>2. /\ todo' \in [Handle -> Seq(Step)]
      /\ Len(todo'[h]) = Len(s) + Len(todo[h]) - 1
      /\ \A i \in 1..Len(s) : todo'[h][i] = s[i]
      /\ \A i \in (Len(s) + 1)..Len(todo'[h]) :
              todo'[h][i] = todo[h][i - Len(s) + 1]
  BY <1>1, TodoThen
<1> SUFFICES ASSUME todo'[h] # <<>>
             PROVE  todo'[h][1] \notin {"setup", "spawn"}
  BY <1>2 DEF Starting, At
<1>3. todo[h] \in Seq(Step) /\ todo'[h] \in Seq(Step) /\ Len(todo'[h]) > 0
  BY <1>2 DEF TypeOK
<1>4. CASE s = <<>>
  <2>1. Len(s) = 0
    BY <1>4
  <2>2. todo'[h][1] = todo[h][2] /\ 2 \in DOMAIN todo[h]
    BY <1>2, <1>3, <2>1
  <2> QED BY <2>2 DEF CallShape
<1>5. CASE s # <<>>
  <2>1. Len(s) >= 1 /\ s[1] \in {"join", "drop", "exit"}
    BY <1>5
  <2>2. todo'[h][1] = s[1]
    BY <1>1, <1>2, <2>1
  <2> QED BY <2>1, <2>2
<1> QED BY <1>4, <1>5

\* A step that ends with x leaves the handle at x.
LEMMA StartingOne ==
  ASSUME TypeOK, NEW h \in Handle, todo[h] # <<>>, NEW x \in Step, Then(h, <<x>>)
  PROVE  At(h, x)'
<1> DEFINE s == <<x>>
<1>1. s \in Seq(Step) /\ Len(s) = 1 /\ s[1] = x /\ Then(h, s)
  OBVIOUS
<1> HIDE DEF s
<1>2. todo' \in [Handle -> Seq(Step)] /\ Len(todo'[h]) = Len(todo[h])
      /\ todo'[h][1] = x
  <2>1. todo[h] \in Seq(Step) /\ Len(todo[h]) \in Nat
    BY DEF TypeOK
  <2>2. /\ todo' \in [Handle -> Seq(Step)]
        /\ Len(todo'[h]) = Len(s) + Len(todo[h]) - 1
        /\ \A i \in 1..Len(s) : todo'[h][i] = s[i]
    <3>1. s \in Seq(Step) /\ Then(h, s)
      BY <1>1
    <3> HIDE DEF TypeOK, Then, Step
    <3> QED BY <3>1, TodoThen
  <2>3. todo'[h][1] = x
    BY <1>1, <2>2
  <2> QED BY <1>1, <2>1, <2>2, <2>3
<1>3. Len(todo[h]) > 0
  BY DEF TypeOK
<1> QED BY <1>2, <1>3 DEF At

\* A step that leaves the threads, the modules and the pointers to them alone,
\* and starts nothing.
LEMMA KeptQuiet ==
  ASSUME Kept, UNCHANGED <<object, self_ptr, thread, pc, of, module>>,
         \A o \in Handle : Starting(o)' => Starting(o)
  PROVE  Kept'
<1>1. StartShape'
  BY DEF Kept, StartShape, Starting, BeingStarted, Pointers
<1>2. ThreadShape' /\ ThreadKnown' /\ AliveWhileUsed'
  BY DEF Kept, ThreadShape, ThreadKnown, AliveWhileUsed
<1> QED BY <1>1, <1>2 DEF Kept

\* The steps of users.
LEMMA KeptUser ==
  ASSUME TypeOK, CallShape, Kept, NEW h \in Handle, User(h)
  PROVE  Kept'
<1> USE DEF TypeOK
<1>1. ASSUME NEW m \in Module, Create(h, m)
      PROVE  Kept'
  <2>1. \A o \in Handle : Starting(o)' <=> Starting(o)
    BY <1>1 DEF Create, Starting, At
  <2>2. ~ Starting(h) /\ \A o \in Handle \ {h} : module'[o] = module[o]
    BY <1>1 DEF Create, Starting, At
  <2>3. StartShape'
    BY <1>1, <2>1, <2>2
    DEF Kept, StartShape, Create, Starting, BeingStarted, Pointers
  <2>4. ThreadShape' /\ ThreadKnown' /\ AliveWhileUsed'
    BY <1>1, ConstantsAssumption
    DEF Kept, ThreadShape, ThreadKnown, AliveWhileUsed, Create, threadVars
  <2> QED BY <2>3, <2>4 DEF Kept
<1>2. ASSUME \/ \E m \in Module : GetModule(h, m)
             \/ \E o \in Handle : Copy(h, o)
      PROVE  Kept'
  <2>1. /\ UNCHANGED <<object, self_ptr, thread, todo, pc, of>>
        /\ todo[h] = <<>>
        /\ \A o \in Handle \ {h} : module'[o] = module[o]
        /\ module'[h] # None => object[module'[h]] = "alive"
    BY <1>2 DEF GetModule, Copy, moduleVars, threadVars, Kept, AliveWhileUsed
  <2>2. /\ \A o \in Handle : Starting(o)' <=> Starting(o)
        /\ ~ Starting(h)
    BY <2>1 DEF Starting, At
  <2>3. StartShape'
    <3> SUFFICES ASSUME NEW o \in Handle, Starting(o)'
                 PROVE  /\ self_ptr'[module'[o]]
                        /\ thread'[module'[o]] = None
                        /\ ~ BeingStarted(o, module[o])'
      BY DEF StartShape, Starting
    <3>1. o # h /\ Starting(o) /\ module'[o] = module[o]
      BY <2>1, <2>2
    <3>2. self_ptr[module[o]] /\ thread[module[o]] = None /\ ~ BeingStarted(o, module[o])
      BY <3>1 DEF Kept, StartShape, Starting
    <3>3. ~ BeingStarted(o, module[o])'
      BY <2>1, <2>2, <3>1, <3>2 DEF BeingStarted, Pointers, Starting
    <3> QED BY <2>1, <3>1, <3>2, <3>3
  <2>4. ThreadShape' /\ ThreadKnown' /\ AliveWhileUsed'
    BY <2>1, ZenonT(60) DEF Kept, ThreadShape, ThreadKnown, AliveWhileUsed
  <2> QED BY <2>3, <2>4 DEF Kept
<1>3. ASSUME NEW f \in DOMAIN Program, Begin(h, f)
      PROVE  Kept'
  <2>1. todo'[h] = Program[f] /\ \A o \in Handle \ {h} : todo'[o] = todo[o]
    BY <1>3 DEF Begin
  <2>2. ~ Starting(h)'
    <3>1. Program[f] \in Seq(Step) /\ Program[f] # <<>>
      BY ProgramShape
    <3>2. 1 \in DOMAIN Program[f] /\ Head(Program[f]) = Program[f][1]
      BY <3>1
    <3> QED BY <2>1, <3>2, ProgramShape DEF Starting, At
  <2>3. \A o \in Handle : Starting(o)' => Starting(o)
    BY <2>1, <2>2 DEF Starting, At
  <2> QED BY <1>3, <2>3, KeptQuiet DEF Begin, moduleVars, threadVars
<1> QED BY <1>1, <1>2, <1>3 DEF User

\* The steps of calls.
LEMMA KeptCall ==
  ASSUME TypeOK, CallShape, Kept, NEW h \in Handle, NEW m \in Module, CallStep(h, m)
  PROVE  Kept'
<1> USE Fronts DEF TypeOK
<1>0. ASSUME NEW s \in {<<>>, <<"join">>, <<"drop">>, <<"exit", "wait", "drop">>},
             Then(h, s), todo[h] # <<>>
      PROVE  \A o \in Handle : Starting(o)' => Starting(o) /\ o # h
  BY <1>0, StartingNot, StartingOthers
<1>1. CASE Start(h, m)
  <2>1. CASE thread[m] = None
    <3>1. /\ Starting(h)'
          /\ \A o \in Handle \ {h} : Starting(o)' <=> Starting(o)
      BY <1>1, <2>1, StartingOne, StartingOthers DEF Start, At, Starting, Step
    <3>2. StartShape'
      <4> SUFFICES ASSUME NEW o \in Handle, Starting(o)'
                   PROVE  /\ self_ptr'[module'[o]]
                          /\ thread'[module'[o]] = None
                          /\ ~ BeingStarted(o, module[o])'
        BY <1>1 DEF StartShape, Starting, Start
      <4>1. CASE o = h
        BY <1>1, <2>1, <3>1, <4>1
        DEF Start, BeingStarted, Pointers, Starting
      <4>2. CASE o # h
        <5>1. Starting(o) /\ module[o] # m
          BY <1>1, <3>1, <4>2 DEF Start, BeingStarted, Pointers, Starting
        <5>2. /\ self_ptr[module[o]] /\ thread[module[o]] = None
              /\ ~ BeingStarted(o, module[o])
          BY <5>1 DEF Kept, StartShape, Starting
        <5>3. module[o] \in Module
          BY <5>1 DEF CallShape, Starting, At
        <5>4. self_ptr'[module[o]] = self_ptr[module[o]]
          BY <1>1, <2>1, <5>1, <5>3 DEF Start
        <5> QED BY <1>1, <3>1, <5>1, <5>2, <5>4
                DEF Start, BeingStarted, Pointers, Starting
      <4> QED BY <4>1, <4>2
    <3>3. module[h] = m /\ object[m] = "alive"
      BY <1>1, ConstantsAssumption DEF Start, Kept, AliveWhileUsed
    <3>4. ThreadShape'
      <4>1. \A t \in Thread : pc[t] \in Running => of[t] \in Module
        BY DEF Kept, ThreadShape, Running
      <4>2. self_ptr' = [self_ptr EXCEPT ![m] = TRUE]
        BY <1>1, <2>1 DEF Start
      <4>3. \A t \in Thread : pc[t] \in Running => self_ptr'[of[t]]
        BY <4>1, <4>2 DEF Kept, ThreadShape
      <4>4. \A n \in Module : self_ptr'[n] => object[n] = "alive"
        BY <3>3, <4>2 DEF Kept, ThreadShape
      <4> QED BY <1>1, <4>3, <4>4 DEF Start, Kept, ThreadShape, threadVars
    <3>5. ThreadKnown' /\ AliveWhileUsed'
      BY <1>1 DEF Start, Kept, ThreadKnown, AliveWhileUsed, threadVars
    <3> QED BY <3>2, <3>4, <3>5 DEF Kept
  <2>2. CASE thread[m] # None
    BY <1>0, <1>1, <2>2, KeptQuiet DEF Start, At, threadVars
  <2> QED BY <2>1, <2>2
<1>2. CASE StartSetup(h, m)
  <2>1. Starting(h) /\ \A o \in Handle \ {h} : Starting(o)' <=> Starting(o)
    BY <1>2, StartingOthers DEF StartSetup, At, Starting, Step
  <2> QED BY <1>2, <2>1, KeptQuiet DEF StartSetup, moduleVars, threadVars
<1>3. CASE StartThrows(h, m)
  <2>1. \A o \in Handle : Starting(o)' => Starting(o)
    BY <1>3 DEF StartThrows, At, Starting
  <2> QED BY <1>3, <2>1, KeptQuiet DEF StartThrows, moduleVars, threadVars
<1>4. ASSUME NEW t \in Thread, Spawn(h, m, t)
      PROVE  Kept'
  <2>1. \A o \in Handle : Starting(o)' => Starting(o) /\ o # h
    BY <1>0, <1>4 DEF Spawn, At
  <2>2. /\ Starting(h) /\ self_ptr[m] /\ thread[m] = None
        /\ ~ BeingStarted(h, m) /\ object[m] = "alive"
    BY <1>4 DEF Spawn, Kept, StartShape, Starting, ThreadShape
  <2>3. \A o \in Handle : Starting(o)' => module[o] # m
    BY <2>1, <2>2, <1>4 DEF BeingStarted, Pointers, Starting
  <2>4. StartShape'
    <3> SUFFICES ASSUME NEW o \in Handle, Starting(o)'
                 PROVE  /\ self_ptr'[module'[o]]
                        /\ thread'[module'[o]] = None
                        /\ ~ BeingStarted(o, module[o])'
      BY <1>4 DEF StartShape, Starting, Spawn
    <3>1. Starting(o) /\ module[o] # m
      BY <2>1, <2>3
    <3>2. /\ self_ptr[module[o]] /\ thread[module[o]] = None
          /\ ~ BeingStarted(o, module[o])
      BY <3>1 DEF Kept, StartShape, Starting
    <3>3. ~ BeingStarted(o, module[o])'
      BY <1>4, <2>1, <3>2 DEF Spawn, BeingStarted, Pointers, Starting
    <3> QED BY <1>4, <3>1, <3>2, <3>3 DEF Spawn
  <2>5. t # None /\ m # None
    BY ConstantsAssumption
  <2>6. ThreadShape'
    BY <1>4, <2>2, <2>5 DEF Spawn, Kept, ThreadShape
  <2>7. ThreadKnown'
    <3> SUFFICES ASSUME NEW u \in Thread, pc'[u] \in Running \cup {"remove", "detach"}
                 PROVE  thread'[of'[u]] = u
      BY DEF ThreadKnown
    <3>1. CASE u = t
      BY <1>4, <3>1 DEF Spawn
    <3>2. CASE u # t
      <4>1. pc'[u] = pc[u] /\ of'[u] = of[u]
        BY <1>4, <3>2 DEF Spawn
      <4>2. thread[of[u]] = u /\ of[u] \in Module
        BY <4>1 DEF Kept, ThreadKnown, ThreadShape, Running
      <4>3. of[u] # m
        BY <2>2, <4>2, ConstantsAssumption
      <4> QED BY <1>4, <4>1, <4>2, <4>3 DEF Spawn
    <3> QED BY <3>1, <3>2
  <2>8. AliveWhileUsed'
    BY <1>4, <2>2 DEF Spawn, Kept, AliveWhileUsed
  <2> QED BY <2>4, <2>6, <2>7, <2>8 DEF Kept
<1>5. CASE \/ Detach(h, m) \/ Attach(h, m) \/ ExitCall(h, m)
           \/ Flag(h, m) \/ Stop(h, m)
  <2>1. /\ Then(h, <<>>) /\ todo[h] # <<>>
        /\ UNCHANGED <<object, self_ptr, thread, pc, of, module>>
    BY <1>5 DEF Detach, Attach, ExitCall, Flag, Stop, At, moduleVars, threadVars
  <2> QED BY <1>0, <2>1, KeptQuiet
<1>6. CASE Wait(h, m)
  <2>1. /\ todo[h] # <<>>
        /\ UNCHANGED <<object, self_ptr, thread, pc, of, module>>
    BY <1>6 DEF Wait, At, moduleVars, threadVars
  <2>2. \E s \in {<<>>, <<"join">>} : Then(h, s)
    BY <1>6 DEF Wait
  <2> QED BY <1>0, <2>1, <2>2, KeptQuiet
<1>7. CASE Join(h, m)
  <2>1. \A o \in Handle : Starting(o)' => Starting(o) /\ o # h
    BY <1>0, <1>7 DEF Join, At
  <2>2. /\ StartShape'
    BY <1>7, <2>1 DEF Join, Kept, StartShape, Starting, BeingStarted, Pointers
  <2>3. ThreadShape' /\ AliveWhileUsed'
    BY <1>7 DEF Join, Kept, ThreadShape, AliveWhileUsed, threadVars
  <2>4. ThreadKnown'
    BY <1>7 DEF Join, Kept, ThreadKnown, threadVars, Running
  <2> QED BY <2>2, <2>3, <2>4 DEF Kept
<1>8. CASE Release(h, m)
  <2>1. /\ todo[h] # <<>>
        /\ UNCHANGED <<object, self_ptr, thread, pc, of, module>>
    BY <1>8 DEF Release, At, threadVars
  <2>2. \E s \in {<<"drop">>, <<"exit", "wait", "drop">>} : Then(h, s)
    <3>1. CASE ref_count'[m] = 0 /\ ~ detached[h]
      BY <1>8, <3>1 DEF Release
    <3>2. CASE ~ (ref_count'[m] = 0 /\ ~ detached[h])
      BY <1>8, <3>2 DEF Release
    <3> QED BY <3>1, <3>2
  <2> QED BY <1>0, <2>1, <2>2, KeptQuiet
<1>9. CASE Drop(h, m)
  <2>1. \A o \in Handle : Starting(o)' => Starting(o) /\ o # h
    BY <1>0, <1>9 DEF Drop, At
  <2>2. \A o \in Handle \ {h} : module'[o] = module[o]
    BY <1>9 DEF Drop
  <2>3. module'[h] = None /\ UNCHANGED <<self_ptr, thread, pc, of>>
    BY <1>9 DEF Drop, threadVars
  <2>4. StartShape'
    <3> SUFFICES ASSUME NEW o \in Handle, Starting(o)'
                 PROVE  /\ self_ptr'[module'[o]]
                        /\ thread'[module'[o]] = None
                        /\ ~ BeingStarted(o, module[o])'
      BY <2>1, <2>2 DEF StartShape, Starting
    <3>1. Starting(o) /\ o # h /\ module'[o] = module[o]
      BY <2>1, <2>2
    <3>2. /\ self_ptr[module[o]] /\ thread[module[o]] = None
          /\ ~ BeingStarted(o, module[o])
      BY <3>1 DEF Kept, StartShape, Starting
    <3>3. ~ BeingStarted(o, module[o])'
      BY <2>1, <2>2, <3>1, <3>2 DEF BeingStarted, Pointers, Starting
    <3> QED BY <2>3, <3>1, <3>2, <3>3
  <2>5. CASE self_ptr[m] \/ Holders(m) # {} \/ Pointers(m) # {h}
    <3>1. object' = object
      BY <1>9, <2>5 DEF Drop
    <3>2. ThreadShape' /\ ThreadKnown' /\ AliveWhileUsed'
      BY <2>2, <2>3, <3>1, ZenonT(60) DEF Kept, ThreadShape, ThreadKnown, AliveWhileUsed
    <3> QED BY <2>4, <3>2 DEF Kept
  <2>6. CASE ~ (self_ptr[m] \/ Holders(m) # {} \/ Pointers(m) # {h})
    <3>1. object' = [object EXCEPT ![m] = "deleted"]
      BY <1>9, <2>6 DEF Drop
    <3>2. ThreadShape' /\ ThreadKnown'
      BY <2>3, <2>6, <3>1 DEF Kept, ThreadShape, ThreadKnown
    <3>3. \A o \in Handle : module'[o] # None => object'[module'[o]] = "alive"
      <4> SUFFICES ASSUME NEW o \in Handle, module'[o] # None
                   PROVE  object'[module'[o]] = "alive"
        OBVIOUS
      <4>1. o # h /\ module'[o] = module[o] /\ module[o] \in Module
        BY <2>2, <2>3
      <4>2. module[o] # m
        BY <2>6, <4>1 DEF Pointers
      <4> QED BY <3>1, <4>1, <4>2 DEF Kept, AliveWhileUsed
    <3>4. \A t \in Thread : pc[t] \in Running \cup Leaving => of[t] # m
      BY <2>6 DEF Kept, ThreadShape, Holders
    <3>5. \A t \in Thread : pc[t] \in Running \cup Leaving => object'[of[t]] = "alive"
      <4>1. \A t \in Thread : pc[t] \in Running \cup Leaving => of[t] \in Module
        BY DEF Kept, ThreadShape, Running, Leaving
      <4> QED BY <3>1, <3>4, <4>1 DEF Kept, AliveWhileUsed
    <3> QED BY <2>3, <2>4, <3>2, <3>3, <3>5 DEF Kept, AliveWhileUsed
  <2> QED BY <2>5, <2>6
<1> QED BY <1>1, <1>2, <1>3, <1>4, <1>5, <1>6, <1>7, <1>8, <1>9 DEF CallStep

\* The steps of the thread of a module. None of them touches a call.
LEMMA KeptEntry ==
  ASSUME TypeOK, CallShape, Kept, NEW t \in Thread,
         \/ EntryCount(t)
         \/ \E m \in Module : EntryStep(t, m) \/ EndsItself(t, m)
  PROVE  Kept'
<1> USE DEF TypeOK
<1>1. /\ UNCHANGED <<of, module, todo>>
      /\ \A u \in Thread \ {t} : pc'[u] = pc[u]
  BY DEF EntryCount, EndsItself, EntryStep, handleVars, threadVars,
     EntryBegin, EntryLoop, RunTask, MainEnds, EntryClose, EntryCheck,
     EntryAgain, EntryUnref, EntryRemove, EntryDetach, EntryDrop
<1>2. \A o \in Handle : Starting(o)' <=> Starting(o)
  BY <1>1 DEF Starting, At
<1>4. \A u \in Thread : pc[u] \in Running \cup Leaving => of[u] \in Module
  BY DEF Kept, ThreadShape, Running, Leaving
<1>5. ASSUME UNCHANGED <<object, self_ptr, thread>>, pc[t] # "new",
             pc'[t] \in Running => pc[t] \in Running,
             pc'[t] \in {"remove", "detach"} => pc[t] \in Running \cup {"remove", "detach"},
             pc'[t] \in Leaving => pc[t] \in Running \cup Leaving,
             pc'[t] # "new"
      PROVE  Kept'
  <2>1. StartShape'
    BY <1>1, <1>2, <1>5 DEF Kept, StartShape, Starting, BeingStarted, Pointers, At
  <2>2. ThreadShape'
    <3>1. \A n \in Module : thread[n] # None => thread[n] \in Thread
      OBVIOUS
    <3>2. \A n \in Module : thread[n] # None => pc'[thread[n]] # "new"
      BY <1>1, <1>5, <3>1 DEF Kept, ThreadShape
    <3>3. \A u \in Thread : pc'[u] # "new" => of[u] # None
      BY <1>1, <1>5 DEF Kept, ThreadShape
    <3>4. \A u \in Thread : pc'[u] \in Running => self_ptr[of[u]]
      BY <1>1, <1>5 DEF Kept, ThreadShape
    <3> QED BY <1>1, <1>5, <3>2, <3>3, <3>4 DEF Kept, ThreadShape
  <2>3. ThreadKnown'
    BY <1>1, <1>5 DEF Kept, ThreadKnown
  <2>4. AliveWhileUsed'
    BY <1>1, <1>5 DEF Kept, AliveWhileUsed
  <2> QED BY <2>1, <2>2, <2>3, <2>4 DEF Kept
<1>6. CASE EntryCount(t)
  BY <1>5, <1>6 DEF EntryCount, moduleVars, Running, Leaving
<1>7. ASSUME NEW m \in Module,
             \/ EntryBegin(t, m) \/ EntryLoop(t, m) \/ RunTask(t, m)
             \/ MainEnds(t, m) \/ EndsItself(t, m) \/ EntryClose(t, m)
             \/ EntryCheck(t, m) \/ EntryAgain(t, m) \/ EntryRemove(t, m)
      PROVE  Kept'
  <2>1. UNCHANGED <<object, self_ptr, thread>>
    BY <1>7 DEF EntryBegin, EntryLoop, RunTask, MainEnds, EndsItself, EntryClose,
       EntryCheck, EntryAgain, EntryRemove, moduleVars
  <2>2. \/ pc[t] \in Running /\ pc'[t] \in Running \cup {"terminate"}
        \/ pc[t] = "remove" /\ pc'[t] = "detach"
    BY <1>7 DEF EntryBegin, EntryLoop, RunTask, MainEnds, EndsItself, EntryClose,
       EntryCheck, EntryAgain, EntryRemove, threadVars, Running
  <2> QED BY <1>5, <2>1, <2>2 DEF Running, Leaving
<1>8. ASSUME NEW m \in Module, EntryUnref(t, m)
      PROVE  Kept'
  <2>1. /\ thread[m] = t /\ t # None /\ pc[t] = "unref" /\ of[t] = m
        /\ UNCHANGED <<object, thread>> /\ pc'[t] = "remove"
        /\ self_ptr' = [self_ptr EXCEPT ![m] = FALSE]
    BY <1>8, ConstantsAssumption DEF EntryUnref, Kept, ThreadKnown, Running
  <2>2. \A o \in Handle : Starting(o) => module[o] # m /\ module[o] \in Module
    BY <2>1 DEF Kept, StartShape, Starting, CallShape, At
  <2>3. StartShape'
    BY <1>1, <1>2, <2>1, <2>2
    DEF Kept, StartShape, Starting, BeingStarted, Pointers, At
  <2>4. \A u \in Thread : pc'[u] \in Running => self_ptr'[of[u]]
    <3> SUFFICES ASSUME NEW u \in Thread, pc'[u] \in Running
                 PROVE  self_ptr'[of[u]]
      OBVIOUS
    <3>1. u # t
      BY <2>1 DEF Running
    <3>2. pc[u] \in Running /\ of[u] \in Module
      BY <1>1, <1>4, <3>1
    <3>3. of[u] # m
      BY <2>1, <3>1, <3>2 DEF Kept, ThreadKnown
    <3> QED BY <2>1, <3>2, <3>3 DEF Kept, ThreadShape
  <2>5. ThreadShape'
    BY <1>1, <2>1, <2>4 DEF Kept, ThreadShape
  <2>6. ThreadKnown' /\ AliveWhileUsed'
    BY <1>1, <2>1 DEF Kept, ThreadKnown, AliveWhileUsed, Running, Leaving
  <2> QED BY <2>3, <2>5, <2>6 DEF Kept
<1>9. ASSUME NEW m \in Module, EntryDetach(t, m)
      PROVE  Kept'
  <2>1. /\ thread[m] = t /\ t # None /\ pc[t] = "detach" /\ of[t] = m
        /\ UNCHANGED <<object, self_ptr>> /\ pc'[t] = "drop"
        /\ \A n \in Module \ {m} : thread'[n] = thread[n]
        /\ thread'[m] \in {t, None}
    BY <1>9, ConstantsAssumption DEF EntryDetach, Kept, ThreadKnown
  <2>2. \A o \in Handle : Starting(o) => module[o] # m /\ module[o] \in Module
    BY <2>1 DEF Kept, StartShape, Starting, CallShape, At
  <2>3. StartShape'
    BY <1>1, <1>2, <2>1, <2>2
    DEF Kept, StartShape, Starting, BeingStarted, Pointers, At
  <2>4. ThreadShape'
    <3>1. \A n \in Module : thread'[n] # None =>
            thread'[n] = thread[n] /\ thread[n] \in Thread
      BY <2>1
    <3>2. \A n \in Module : thread'[n] # None =>
            of[thread'[n]] = n /\ pc'[thread'[n]] # "new"
      BY <1>1, <2>1, <3>1 DEF Kept, ThreadShape
    <3>3. \A u \in Thread : pc'[u] # "new" => of[u] # None
      BY <1>1, <2>1 DEF Kept, ThreadShape
    <3>4. \A u \in Thread : pc'[u] \in Running => self_ptr[of[u]]
      BY <1>1, <2>1 DEF Kept, ThreadShape, Running
    <3> QED BY <1>1, <2>1, <3>2, <3>3, <3>4 DEF Kept, ThreadShape
  <2>5. ThreadKnown'
    <3> SUFFICES ASSUME NEW u \in Thread, pc'[u] \in Running \cup {"remove", "detach"}
                 PROVE  thread'[of[u]] = u
      BY <1>1 DEF ThreadKnown
    <3>1. u # t
      BY <2>1 DEF Running
    <3>2. pc[u] = pc'[u]
      BY <1>1, <3>1
    <3>3. of[u] \in Module /\ thread[of[u]] = u
      BY <1>4, <3>2 DEF Kept, ThreadKnown, Leaving
    <3>4. of[u] # m
      BY <2>1, <3>1, <3>3
    <3> QED BY <2>1, <3>3, <3>4
  <2>6. AliveWhileUsed'
    BY <1>1, <2>1 DEF Kept, AliveWhileUsed, Running, Leaving
  <2> QED BY <2>3, <2>4, <2>5, <2>6 DEF Kept
<1>10. ASSUME NEW m \in Module, EntryDrop(t, m)
       PROVE  Kept'
  <2>1. /\ pc[t] = "drop" /\ of[t] = m
        /\ UNCHANGED <<self_ptr, thread>> /\ pc'[t] = "count"
    BY <1>10 DEF EntryDrop
  <2>2. CASE object' = object
    BY <1>5, <2>1, <2>2 DEF Running, Leaving
  <2>3. CASE object' # object
    <3>1. /\ ~ self_ptr[m] /\ Holders(m) = {t} /\ Pointers(m) = {}
          /\ object' = [object EXCEPT ![m] = "deleted"]
      BY <1>10, <2>3 DEF EntryDrop
    <3>2. StartShape'
      BY <1>1, <1>2, <2>1
      DEF Kept, StartShape, Starting, BeingStarted, Pointers, At
    <3>3. ThreadShape' /\ ThreadKnown'
      BY <1>1, <2>1, <3>1 DEF Kept, ThreadShape, ThreadKnown, Running
    <3>4. \A o \in Handle : module[o] # None => object'[module[o]] = "alive"
      BY <3>1 DEF Kept, AliveWhileUsed, Pointers
    <3>5. \A u \in Thread : pc'[u] \in Running \cup Leaving =>
              pc[u] \in Running \cup Leaving /\ of[u] # m
      BY <1>1, <2>1, <3>1 DEF Kept, ThreadShape, Holders, Running, Leaving
    <3>6. \A u \in Thread : pc'[u] \in Running \cup Leaving =>
              object'[of[u]] = "alive"
      BY <1>4, <3>1, <3>5 DEF Kept, AliveWhileUsed
    <3> QED BY <1>1, <3>2, <3>3, <3>4, <3>6 DEF Kept, AliveWhileUsed
  <2> QED BY <2>2, <2>3
<1> QED BY <1>6, <1>7, <1>8, <1>9, <1>10 DEF EntryStep

-----------------------------------------------------------------------------
(* Theorems *)

\* The initial state satisfies the inductive invariant.
LEMMA InitInv == Init => IndInv
<1> SUFFICES ASSUME Init PROVE IndInv
  OBVIOUS
<1> USE DEF Init
<1>1. TypeOK
  BY InitType
<1>2. CallShape /\ StartShape
  BY DEF CallShape, StartShape, At
<1>3. ThreadShape /\ ThreadKnown /\ AliveWhileUsed
  BY DEF ThreadShape, ThreadKnown, AliveWhileUsed, Running, Leaving
<1> QED BY <1>1, <1>2, <1>3 DEF IndInv

\* Every step keeps it.
LEMMA NextInv == IndInv /\ [Next]_vars => IndInv'
<1> SUFFICES ASSUME IndInv, [Next]_vars PROVE IndInv'
  OBVIOUS
<1>1. TypeOK /\ CallShape /\ Kept
  BY DEF IndInv, Kept
<1>2. TypeOK' /\ CallShape'
  BY <1>1, NextType, NextCallShape
<1>3. Kept'
  <2>1. CASE UNCHANGED vars
    BY <1>1, <2>1, KeptQuiet
    DEF vars, moduleVars, threadVars, handleVars, Starting, At
  <2>2. CASE Next
    BY <1>1, <2>2, KeptUser, KeptCall, KeptEntry DEF Next, HandleStep, Entry
  <2> QED BY <2>1, <2>2
<1> QED BY <1>2, <1>3 DEF IndInv, Kept

\* The inductive invariant holds in every reachable state of Module and Handle.
THEOREM Invariance == Spec => []IndInv
  BY InitInv, NextInv, PTL DEF Spec

\* A module object is never used after it was deleted: handles point to live
\* modules, and vnx_entry() runs in one up to its last access.
THEOREM UsedAlive == Spec => []AliveWhileUsed
<1>1. IndInv => AliveWhileUsed
  BY DEF IndInv
<1> QED BY <1>1, Invariance, PTL

\* A module is run by at most one thread at a time, the one that Module::thread
\* is, until vnx_entry() may detach it.
THEOREM RunsOnce == Spec => []ThreadKnown
<1>1. IndInv => ThreadKnown
  BY DEF IndInv
<1> QED BY <1>1, Invariance, PTL

\* Only a step of the call on h changes what is left of it.
LEMMA CallChanges ==
  ASSUME TypeOK, [Next]_vars, NEW h \in Handle,
         todo[h] # <<>>, todo'[h] # todo[h]
  PROVE  \E m \in Module : CallStep(h, m)
<1> USE DEF TypeOK
<1>1. CASE UNCHANGED vars
  BY <1>1 DEF vars, handleVars
<1>2. ASSUME NEW k \in Handle, User(k)
      PROVE  FALSE
  BY <1>2 DEF User, Create, GetModule, Copy, Begin
<1>3. ASSUME NEW k \in Handle, k # h, NEW m \in Module, CallStep(k, m)
      PROVE  FALSE
  BY <1>3 DEF CallStep, Then, Start, StartSetup, StartThrows, Spawn, Detach, Attach,
     ExitCall, Flag, Stop, Wait, Join, Release, Drop
<1>4. ASSUME NEW t \in Thread,
             \/ EntryCount(t)
             \/ \E m \in Module : EntryStep(t, m) \/ EndsItself(t, m)
      PROVE  FALSE
  BY <1>4 DEF EntryCount, EndsItself, EntryStep, handleVars,
     EntryBegin, EntryLoop, RunTask, MainEnds, EntryClose, EntryCheck,
     EntryAgain, EntryUnref, EntryRemove, EntryDetach, EntryDrop
<1> QED BY <1>1, <1>2, <1>3, <1>4 DEF Next, HandleStep, Entry

\* A call at "join" or "wait" takes that step.
LEMMA AtOnly ==
  ASSUME NEW h \in Handle, NEW m \in Module, CallStep(h, m)
  PROVE  /\ At(h, "join") => Join(h, m)
         /\ At(h, "wait") => Wait(h, m)
  BY DEF CallStep, At, Start, StartSetup, StartThrows, Spawn, Detach, Attach,
     ExitCall, Flag, Stop, Wait, Join, Release, Drop

\* A wait() that returns, by join() or because the thread is not joinable,
\* returns after main() and close(), and after the module was unregistered.
THEOREM WaitFinishes == Spec => WaitMeansFinished
<1>1. ASSUME IndInv, [Next]_vars, NEW h \in Handle,
             \/ At(h, "join") /\ todo'[h] # todo[h]
             \/ At(h, "wait") /\ todo'[h] = Tail(todo[h]),
             NEW t \in Thread, of[t] = module[h]
      PROVE  pc[t] \notin Running \cup {"remove"}
  <2> SUFFICES ASSUME pc[t] \in Running \cup {"remove"} PROVE FALSE
    OBVIOUS
  <2>1. thread[module[h]] = t /\ t # None
    BY <1>1, ConstantsAssumption DEF IndInv, ThreadKnown
  <2>2. todo[h] \in Seq(Step) /\ todo[h] # <<>>
    BY <1>1 DEF IndInv, TypeOK, At
  <2>3. Len(Tail(todo[h])) = Len(todo[h]) - 1 /\ Len(todo[h]) \in Nat
    BY <2>2
  <2>4. PICK m \in Module : CallStep(h, m)
    <3>1. todo'[h] # todo[h]
      <4>1. ASSUME Tail(todo[h]) = todo[h] PROVE FALSE
        <5>1. Len(Tail(todo[h])) = Len(todo[h])
          BY <4>1
        <5> QED BY <2>3, <5>1
      <4> QED BY <1>1, <4>1
    <3> QED BY <1>1, <2>2, <3>1, CallChanges DEF IndInv
  <2>5. CASE At(h, "join")
    <3>1. Join(h, m)
      BY <2>4, <2>5, AtOnly
    <3> QED BY <2>1, <3>1 DEF Join, Running
  <2>6. CASE At(h, "wait") /\ todo'[h] = Tail(todo[h])
    <3>1. Wait(h, m)
      BY <2>4, <2>6, AtOnly
    <3>2. Then(h, <<"join">>)
      BY <2>1, <3>1 DEF Wait
    <3>3. Len(todo'[h]) = Len(<<"join">>) + Len(todo[h]) - 1
      BY <1>1, <2>2, <3>2, Fronts, TodoThen DEF IndInv
    <3>4. Len(<<"join">>) = 1
      OBVIOUS
    <3> QED BY <2>3, <2>6, <3>3, <3>4
  <2> QED BY <1>1, <2>5, <2>6
<1>2. IndInv /\ [Next]_vars => [\A h \in Handle :
        (\/ At(h, "join") /\ todo'[h] # todo[h]
         \/ At(h, "wait") /\ todo'[h] = Tail(todo[h]))
            => \A t \in Thread : of[t] = module[h] =>
                    pc[t] \notin Running \cup {"remove"}]_vars
  BY <1>1
<1> QED BY <1>2, Invariance, PTL DEF Spec, WaitMeansFinished

-----------------------------------------------------------------------------
(* OwnersCounted *)

\* Handle h is in release(), after it gave up its share of ref_count.
Dropping(h) == \E i \in DOMAIN todo[h] : todo[h][i] = "drop"

\* From there it only stops the module, waits for it and lets go of it.
DropShape ==
    \A h \in Handle : Dropping(h) =>
        \A i \in DOMAIN todo[h] : todo[h][i] \in {"exit", "wait", "join", "drop"}

\* Handle h has a share of ref_count of m.
Owns(h, m) == module[h] = m /\ ~ detached[h] /\ ~ Dropping(h)

\* What the steps of other handles leave alone.
OthersSame(h) ==
    \A o \in Handle \ {h} :
        todo'[o] = todo[o] /\ module'[o] = module[o] /\ detached'[o] = detached[o]

\* When a step of one handle h changes ref_count by what it changes of whether
\* h owns a module, ref_count still is the number of owners.
LEMMA CountOne ==
  ASSUME OwnersCounted, TypeOK, NEW h \in Handle, OthersSame(h),
         \A m \in Module :
            /\ Owns(h, m)' => ref_count'[m] = IF Owns(h, m) THEN ref_count[m]
                                              ELSE ref_count[m] + 1
            /\ ~ Owns(h, m)' => ref_count'[m] = IF Owns(h, m) THEN ref_count[m] - 1
                                                ELSE ref_count[m]
  PROVE  OwnersCounted'
<1> SUFFICES ASSUME NEW m \in Module
             PROVE  ref_count'[m] = Cardinality(Owners(m)')
  BY DEF OwnersCounted
<1>1. IsFiniteSet(Owners(m)) /\ Cardinality(Owners(m)) \in Nat
  <2>1. Owners(m) \in SUBSET Handle
    BY DEF Owners, Pointers
  <2> QED BY <2>1, FS_Subset, FS_CardinalityType, ConstantsAssumption
<1>2. ref_count[m] = Cardinality(Owners(m))
  BY DEF OwnersCounted
<1>3. h \in Owners(m) <=> Owns(h, m)
  BY DEF Owners, Owns, Pointers, Dropping
<1>4. CASE Owns(h, m)'
  <2>1. Owners(m)' = Owners(m) \cup {h}
    BY <1>4 DEF Owners, Owns, Pointers, Dropping, OthersSame
  <2>2. Cardinality(Owners(m) \cup {h}) = IF h \in Owners(m) THEN Cardinality(Owners(m))
                                           ELSE Cardinality(Owners(m)) + 1
    BY <1>1, FS_AddElement
  <2> QED BY <1>2, <1>3, <1>4, <2>1, <2>2
<1>5. CASE ~ Owns(h, m)'
  <2>1. Owners(m)' = Owners(m) \ {h}
    BY <1>5 DEF Owners, Owns, Pointers, Dropping, OthersSame
  <2>2. Cardinality(Owners(m) \ {h}) = IF h \in Owners(m) THEN Cardinality(Owners(m)) - 1
                                        ELSE Cardinality(Owners(m))
    BY <1>1, FS_RemoveElement
  <2> QED BY <1>2, <1>3, <1>5, <2>1, <2>2
<1> QED BY <1>4, <1>5

\* A step that changes neither the handles nor ref_count.
LEMMA CountSame ==
  ASSUME OwnersCounted, DropShape, UNCHANGED <<ref_count, module, detached, todo>>
  PROVE  OwnersCounted' /\ DropShape'
  BY DEF OwnersCounted, DropShape, Owners, Pointers, Dropping

\* The steps left of h change, those of other handles do not.
LEMMA DropShapeOne ==
  ASSUME DropShape, NEW h \in Handle, \A o \in Handle \ {h} : todo'[o] = todo[o],
         Dropping(h)' => \A i \in DOMAIN todo'[h] :
                            todo'[h][i] \in {"exit", "wait", "join", "drop"}
  PROVE  DropShape'
  BY DEF DropShape, Dropping

\* A call that is at a step of another kind is not dropping.
LEMMA NotDropping ==
  ASSUME TypeOK, DropShape, NEW h \in Handle, NEW s, At(h, s),
         s \notin {"exit", "wait", "join", "drop"}
  PROVE  ~ Dropping(h)
<1>1. todo[h] \in Seq(Step) /\ todo[h] # <<>>
  BY DEF TypeOK, At
<1>2. 1 \in DOMAIN todo[h] /\ todo[h][1] = s
  BY <1>1 DEF At
<1> QED BY <1>2 DEF DropShape

\* A step that neither begins nor ends the dropping.
LEMMA DropThen ==
  ASSUME TypeOK, DropShape, NEW h \in Handle, todo[h] # <<>>, Head(todo[h]) # "drop",
         NEW s \in Seq(Step), \A i \in 1..Len(s) : s[i] # "drop",
         Dropping(h) => \A i \in 1..Len(s) : s[i] = "join",
         Then(h, s)
  PROVE  (Dropping(h)' <=> Dropping(h)) /\ DropShape'
<1>1. /\ Len(todo'[h]) = Len(s) + Len(todo[h]) - 1
      /\ \A i \in 1..Len(s) : todo'[h][i] = s[i]
      /\ \A i \in (Len(s) + 1)..Len(todo'[h]) : todo'[h][i] = todo[h][i - Len(s) + 1]
      /\ todo'[h] \in Seq(Step)
      /\ \A o \in Handle \ {h} : todo'[o] = todo[o]
  BY TodoThen
<1>2. /\ todo[h] \in Seq(Step) /\ Len(todo[h]) \in Nat /\ Len(todo[h]) > 0
      /\ Len(s) \in Nat /\ todo[h][1] # "drop"
      /\ DOMAIN todo[h] = 1..Len(todo[h]) /\ DOMAIN todo'[h] = 1..Len(todo'[h])
  BY <1>1 DEF TypeOK
<1>3. Dropping(h) => Dropping(h)'
  <2> SUFFICES ASSUME NEW i \in DOMAIN todo[h], todo[h][i] = "drop" PROVE Dropping(h)'
    BY DEF Dropping
  <2>0. i \in 2..Len(todo[h])
    BY <1>2
  <2> DEFINE j == i - 1 + Len(s)
  <2>1. j \in (Len(s) + 1)..Len(todo'[h]) /\ j - Len(s) + 1 = i /\ j \in 1..Len(todo'[h])
    <3>1. Len(todo'[h]) = Len(s) + Len(todo[h]) - 1 /\ Len(s) \in Nat /\ Len(todo[h]) \in Nat
      BY <1>1, <1>2
    <3> QED BY <2>0, <3>1, SMTT(60)
  <2> HIDE DEF j
  <2>2. todo'[h][j] = "drop" /\ j \in DOMAIN todo'[h]
    BY <1>1, <1>2, <2>1
  <2> QED BY <2>2 DEF Dropping
<1>4. ASSUME NEW i \in DOMAIN todo'[h]
      PROVE  \/ i \in 1..Len(s) /\ todo'[h][i] = s[i]
             \/ \E j \in DOMAIN todo[h] : todo'[h][i] = todo[h][j]
  <2>1. CASE i \in 1..Len(s)
    BY <1>1, <2>1
  <2>2. CASE i \in (Len(s) + 1)..Len(todo'[h])
    <3>1. i - Len(s) + 1 \in DOMAIN todo[h]
      BY <1>1, <1>2, <2>2, SMTT(60)
    <3> QED BY <1>1, <2>2, <3>1
  <2> QED BY <1>2, <2>1, <2>2
<1>5. Dropping(h)' => Dropping(h)
  BY <1>4 DEF Dropping
<1>6. Dropping(h)' => \A i \in DOMAIN todo'[h] :
                         todo'[h][i] \in {"exit", "wait", "join", "drop"}
  BY <1>4, <1>5 DEF DropShape
<1> QED BY <1>1, <1>3, <1>5, <1>6, DropShapeOne

\* The same for a step that also leaves the handle and ref_count alone.
LEMMA CountThen ==
  ASSUME TypeOK, OwnersCounted, DropShape, NEW h \in Handle,
         todo[h] # <<>>, Head(todo[h]) # "drop",
         NEW s \in Seq(Step), \A i \in 1..Len(s) : s[i] # "drop",
         Dropping(h) => \A i \in 1..Len(s) : s[i] = "join",
         Then(h, s), UNCHANGED <<ref_count, module, detached>>
  PROVE  OwnersCounted' /\ DropShape'
<1>1. (Dropping(h)' <=> Dropping(h)) /\ DropShape'
  BY DropThen
<1>2. OthersSame(h)
  BY TodoThen DEF OthersSame
<1>3. \A m \in Module : Owns(h, m)' <=> Owns(h, m)
  BY <1>1 DEF Owns
<1> QED BY <1>1, <1>2, <1>3, CountOne

\* The same for the steps that put nothing in front, or one step.
LEMMA CountNone ==
  ASSUME TypeOK, OwnersCounted, DropShape, NEW h \in Handle,
         todo[h] # <<>>, Head(todo[h]) # "drop",
         Then(h, <<>>), UNCHANGED <<ref_count, module, detached>>
  PROVE  OwnersCounted' /\ DropShape'
<1> DEFINE s == <<>>
<1>1. s \in Seq(Step) /\ Then(h, s) /\ \A i \in 1..Len(s) : FALSE
  BY Fronts
<1> HIDE DEF s
<1> QED BY <1>1, CountThen

\* A step that puts one step but "drop" first keeps the count of owners.
LEMMA CountPut ==
  ASSUME TypeOK, OwnersCounted, DropShape, NEW h \in Handle,
         todo[h] # <<>>, Head(todo[h]) # "drop",
         NEW x \in Step, x # "drop", Dropping(h) => x = "join",
         Then(h, <<x>>), UNCHANGED <<ref_count, module, detached>>
  PROVE  OwnersCounted' /\ DropShape'
<1> DEFINE s == <<x>>
<1>1. s \in Seq(Step) /\ Then(h, s) /\ Len(s) = 1 /\ s[1] = x
  OBVIOUS
<1> HIDE DEF s
<1>2. \A i \in 1..Len(s) : s[i] = x
  BY <1>1
<1> QED BY <1>1, <1>2, CountThen

\* A step of the user who creates, copies or looks up a handle, or calls.
LEMMA CountUser ==
  ASSUME TypeOK, AliveWhileUsed, OwnersCounted, DropShape, NEW h \in Handle, User(h)
  PROVE  OwnersCounted' /\ DropShape'
<1> USE DEF TypeOK
<1>1. todo[h] = <<>> /\ ~ Dropping(h)
  <2>1. todo[h] = <<>>
    BY DEF User, Create, GetModule, Copy, Begin
  <2>2. DOMAIN todo[h] = {}
    BY <2>1
  <2> QED BY <2>1, <2>2 DEF Dropping
<1>2. OthersSame(h)
  BY ZenonT(60) DEF User, Create, GetModule, Copy, Begin, OthersSame
<1>3. ~ Dropping(h)'
  <2>1. CASE todo' = todo
    BY <1>1, <2>1 DEF Dropping
  <2>2. ASSUME NEW f \in DOMAIN Program, Begin(h, f) PROVE ~ Dropping(h)'
    BY <2>2, ProgramShape DEF Begin, Dropping
  <2> QED BY <2>1, <2>2 DEF User, Create, GetModule, Copy
<1>4. DropShape'
  BY <1>2, <1>3, DropShapeOne DEF OthersSame
<1>5. ASSUME NEW m \in Module, Create(h, m) PROVE OwnersCounted'
  <2>1. module[h] = None /\ None \notin Module /\ module'[h] = m /\ ~ detached'[h]
    BY <1>5, ConstantsAssumption DEF Create
  <2>2. ref_count[m] = 0
    <3>1. Pointers(m) = {}
      BY <1>5, ConstantsAssumption DEF Create, AliveWhileUsed, Pointers
    <3>2. Owners(m) = {}
      BY <3>1 DEF Owners
    <3> QED BY <3>2, FS_EmptySet DEF OwnersCounted
  <2>3. \A n \in Module : ~ Owns(h, n) /\ (Owns(h, n)' <=> n = m)
    BY <1>3, <2>1 DEF Owns
  <2>4. ref_count'[m] = 0 + 1 /\ \A n \in Module \ {m} : ref_count'[n] = ref_count[n]
    BY <1>5 DEF Create
  <2> QED BY <1>2, <2>2, <2>3, <2>4, CountOne
<1>6. ASSUME NEW m \in Module, GetModule(h, m) PROVE OwnersCounted'
  <2>1. module[h] = None /\ None \notin Module /\ detached'[h] /\ ref_count' = ref_count
    BY <1>6, ConstantsAssumption DEF GetModule, moduleVars
  <2>2. \A n \in Module : ~ Owns(h, n) /\ ~ Owns(h, n)'
    BY <2>1 DEF Owns
  <2> QED BY <1>2, <2>1, <2>2, CountOne
<1>7. ASSUME NEW o \in Handle, Copy(h, o) PROVE OwnersCounted'
  <2>1. /\ module[h] = None /\ None \notin Module /\ module[o] \in Module
        /\ module'[h] = module[o] /\ detached'[h] = detached[o]
    BY <1>7, ConstantsAssumption DEF Copy
  <2>2. \A n \in Module : ~ Owns(h, n) /\ (Owns(h, n)' <=> n = module[o] /\ ~ detached[o])
    BY <1>3, <2>1 DEF Owns
  <2>3. CASE detached[o]
    <3>1. ref_count' = ref_count
      BY <1>7, <2>3 DEF Copy
    <3> QED BY <1>2, <2>2, <2>3, <3>1, CountOne
  <2>4. CASE ~ detached[o]
    <3>1. ref_count' = [ref_count EXCEPT ![module[o]] = @ + 1]
      BY <1>7, <2>4 DEF Copy
    <3> QED BY <1>2, <2>1, <2>2, <2>4, <3>1, CountOne
  <2> QED BY <2>3, <2>4
<1>8. ASSUME NEW f \in DOMAIN Program, Begin(h, f) PROVE OwnersCounted'
  <2>1. UNCHANGED <<module, detached, ref_count>>
    BY <1>8 DEF Begin, moduleVars
  <2>2. \A n \in Module : Owns(h, n)' <=> Owns(h, n)
    BY <1>1, <1>3, <2>1 DEF Owns
  <2> QED BY <1>2, <2>1, <2>2, CountOne
<1> QED BY <1>4, <1>5, <1>6, <1>7, <1>8 DEF User

\* A step of a call.
LEMMA CountCall ==
  ASSUME TypeOK, CallShape, OwnersCounted, DropShape,
         NEW h \in Handle, NEW m \in Module, CallStep(h, m)
  PROVE  OwnersCounted' /\ DropShape'
<1> USE DEF TypeOK
<1>0. ASSUME NEW s \in Step, At(h, s), s \notin {"exit", "wait", "join", "drop"}
      PROVE  ~ Dropping(h) /\ Head(todo[h]) # "drop"
  BY <1>0, NotDropping DEF At
<1>1. CASE Start(h, m)
  <2>1. ~ Dropping(h) /\ Head(todo[h]) # "drop" /\ todo[h] # <<>>
    BY <1>0, <1>1 DEF Start, At, Step
  <2>2. CASE thread[m] = None
    BY <1>1, <2>1, <2>2, CountPut DEF Start, Step
  <2>3. CASE thread[m] # None
    BY <1>1, <2>1, <2>3, CountNone DEF Start
  <2> QED BY <2>2, <2>3
<1>2. CASE StartSetup(h, m)
  <2>1. ~ Dropping(h) /\ Head(todo[h]) # "drop" /\ todo[h] # <<>>
    BY <1>0, <1>2 DEF StartSetup, At, Step
  <2> QED BY <1>2, <2>1, CountPut DEF StartSetup, moduleVars, Step
<1>3. CASE StartThrows(h, m)
  <2>1. ~ Dropping(h)
    BY <1>0, <1>3 DEF StartThrows, Step
  <2>2. todo'[h] = <<>> /\ OthersSame(h) /\ UNCHANGED <<module, detached, ref_count>>
    BY <1>3 DEF StartThrows, OthersSame, moduleVars
  <2>3. ~ Dropping(h)'
    BY <2>2 DEF Dropping
  <2>4. DropShape'
    BY <2>2, <2>3, DropShapeOne DEF OthersSame
  <2>5. \A n \in Module : Owns(h, n)' <=> Owns(h, n)
    BY <2>1, <2>2, <2>3 DEF Owns
  <2> QED BY <2>2, <2>4, <2>5, CountOne
<1>4. ASSUME NEW t \in Thread, Spawn(h, m, t) PROVE OwnersCounted' /\ DropShape'
  BY <1>4, CountNone DEF Spawn, At
<1>5. CASE ExitCall(h, m) \/ Flag(h, m) \/ Stop(h, m)
  BY <1>5, CountNone DEF ExitCall, Flag, Stop, At, moduleVars
<1>6. CASE Wait(h, m)
  <2>1. CASE thread[m] = None
    BY <1>6, <2>1, CountNone DEF Wait, At, moduleVars
  <2>2. CASE thread[m] # None
    BY <1>6, <2>2, CountPut DEF Wait, At, moduleVars, Step
  <2> QED BY <2>1, <2>2
<1>7. CASE Join(h, m)
  BY <1>7, CountNone DEF Join, At
<1>8. CASE Detach(h, m) \/ Attach(h, m)
  <2>1. ~ Dropping(h) /\ Head(todo[h]) # "drop" /\ todo[h] # <<>>
    BY <1>0, <1>8 DEF Detach, Attach, At, Step
  <2>2. Then(h, <<>>) /\ module' = module /\ module[h] = m
    BY <1>8 DEF Detach, Attach
  <2>3. (Dropping(h)' <=> Dropping(h)) /\ DropShape'
    <3> DEFINE s == <<>>
    <3>1. s \in Seq(Step) /\ Then(h, s) /\ \A i \in 1..Len(s) : FALSE
      BY <2>2, Fronts
    <3> HIDE DEF s
    <3> QED BY <2>1, <3>1, DropThen
  <2>4. OthersSame(h)
    BY <1>8, <2>1, <2>2, TodoThen, Fronts DEF OthersSame, Detach, Attach
  <2>5. CASE Detach(h, m)
    <3>1. \A n \in Module : ~ Owns(h, n)' /\ (Owns(h, n) <=> n = m /\ ~ detached[h])
      BY <2>1, <2>2, <2>5 DEF Owns, Detach
    <3>2. CASE detached[h]
      <4>1. ref_count' = ref_count
        BY <2>5, <3>2 DEF Detach
      <4> QED BY <2>3, <2>4, <3>1, <3>2, <4>1, CountOne
    <3>3. CASE ~ detached[h]
      <4>1. ref_count' = [ref_count EXCEPT ![m] = @ - 1]
        BY <2>5, <3>3 DEF Detach
      <4> QED BY <2>3, <2>4, <3>1, <3>3, <4>1, CountOne
    <3> QED BY <3>2, <3>3
  <2>6. CASE Attach(h, m)
    <3>1. \A n \in Module : (Owns(h, n)' <=> n = m) /\ (Owns(h, n) <=> n = m /\ ~ detached[h])
      BY <2>1, <2>2, <2>3, <2>6 DEF Owns, Attach
    <3>2. CASE detached[h]
      <4>1. ref_count' = [ref_count EXCEPT ![m] = @ + 1]
        BY <2>6, <3>2 DEF Attach
      <4> QED BY <2>3, <2>4, <3>1, <3>2, <4>1, CountOne
    <3>3. CASE ~ detached[h]
      <4>1. ref_count' = ref_count
        BY <2>6, <3>3 DEF Attach
      <4> QED BY <2>3, <2>4, <3>1, <3>3, <4>1, CountOne
    <3> QED BY <3>2, <3>3
  <2> QED BY <1>8, <2>5, <2>6
<1>9. CASE Release(h, m)
  <2>1. /\ ~ Dropping(h) /\ todo[h] # <<>> /\ Len(todo[h]) = 1
        /\ module[h] = m /\ UNCHANGED <<module, detached>>
    BY <1>0, <1>9, AtLast DEF Release, At, Step
  <2>2. PICK s \in {<<"drop">>, <<"exit", "wait", "drop">>} : Then(h, s)
    <3>1. CASE ref_count'[m] = 0 /\ ~ detached[h]
      BY <1>9, <3>1 DEF Release
    <3>2. CASE ~ (ref_count'[m] = 0 /\ ~ detached[h])
      BY <1>9, <3>2 DEF Release
    <3> QED BY <3>1, <3>2
  <2>3. /\ s \in Seq(Step) /\ Len(s) \in {1, 3} /\ s[Len(s)] = "drop"
        /\ \A i \in 1..Len(s) : s[i] \in {"exit", "wait", "join", "drop"}
    <3>1. CASE s = <<"drop">>
      BY <3>1, Fronts
    <3>2. CASE s = <<"exit", "wait", "drop">>
      BY <3>2, Fronts
    <3> QED BY <2>2, <3>1, <3>2
  <2>4. /\ Len(todo'[h]) = Len(s) /\ todo'[h] \in Seq(Step)
        /\ \A i \in 1..Len(s) : todo'[h][i] = s[i]
        /\ \A o \in Handle \ {h} : todo'[o] = todo[o]
    <3>1. s \in Seq(Step) /\ todo[h] # <<>> /\ Then(h, s)
      BY <2>1, <2>2, <2>3
    <3>2. Len(todo'[h]) = Len(s) + Len(todo[h]) - 1 /\ todo' \in [Handle -> Seq(Step)]
      BY <3>1, TodoThen
    <3>3. \A i \in 1..Len(s) : todo'[h][i] = s[i]
      BY <3>1, TodoThen
    <3>4. \A o \in Handle \ {h} : todo'[o] = todo[o]
      BY <3>1, TodoThen
    <3> QED BY <2>1, <2>3, <3>2, <3>3, <3>4
  <2>5. DOMAIN todo'[h] = 1..Len(s)
    BY <2>4
  <2>6. Dropping(h)'
    <3>1. Len(s) \in 1..Len(s)
      <4>1. CASE Len(s) = 1
        BY <4>1
      <4>2. CASE Len(s) = 3
        BY <4>2
      <4> QED BY <2>3, <4>1, <4>2
    <3>2. Len(s) \in DOMAIN todo'[h] /\ todo'[h][Len(s)] = "drop"
      BY <2>3, <2>4, <2>5, <3>1
    <3> QED BY <3>2 DEF Dropping
  <2>7. DropShape'
    BY <2>3, <2>4, <2>5, DropShapeOne
  <2>8. OthersSame(h)
    BY <2>1, <2>4 DEF OthersSame
  <2>9. \A n \in Module : ~ Owns(h, n)' /\ (Owns(h, n) <=> n = m /\ ~ detached[h])
    BY <2>1, <2>6 DEF Owns
  <2>10. CASE detached[h]
    <3>1. ref_count' = ref_count
      BY <1>9, <2>10 DEF Release
    <3> QED BY <2>7, <2>8, <2>9, <2>10, <3>1, CountOne
  <2>11. CASE ~ detached[h]
    <3>1. ref_count' = [ref_count EXCEPT ![m] = @ - 1]
      BY <1>9, <2>11 DEF Release
    <3> QED BY <2>7, <2>8, <2>9, <2>11, <3>1, CountOne
  <2> QED BY <2>10, <2>11
<1>10. CASE Drop(h, m)
  <2>1. todo[h] # <<>> /\ Len(todo[h]) = 1 /\ Head(todo[h]) = "drop" /\ Then(h, <<>>)
    BY <1>10, AtLast DEF Drop, At
  <2>2. Dropping(h)
    BY <2>1 DEF Dropping
  <2>3. /\ todo' \in [Handle -> Seq(Step)] /\ Len(todo'[h]) = Len(<<>>) + 1 - 1
        /\ \A o \in Handle \ {h} : todo'[o] = todo[o]
    <3>1. <<>> \in Seq(Step)
      BY Fronts
    <3>2. todo' \in [Handle -> Seq(Step)] /\ Len(todo'[h]) = Len(<<>>) + Len(todo[h]) - 1
      BY <2>1, <3>1, TodoThen
    <3>3. \A o \in Handle \ {h} : todo'[o] = todo[o]
      BY <2>1, <3>1, TodoThen
    <3> QED BY <2>1, <3>2, <3>3
  <2>4. todo'[h] = <<>>
    <3>1. todo'[h] \in Seq(Step) /\ Len(todo'[h]) = 0
      BY <2>3
    <3> QED BY <3>1
  <2>5. ~ Dropping(h)' /\ DropShape'
    <3>1. DOMAIN todo'[h] = {}
      BY <2>4
    <3>2. ~ Dropping(h)'
      BY <3>1 DEF Dropping
    <3> QED BY <2>3, <3>2, DropShapeOne
  <2>6. module'[h] = None /\ OthersSame(h) /\ ref_count' = ref_count
    BY <1>10, <2>3 DEF Drop, OthersSame
  <2>7. \A n \in Module : ~ Owns(h, n) /\ ~ Owns(h, n)'
    BY <2>2, <2>6, ConstantsAssumption DEF Owns
  <2> QED BY <2>5, <2>6, <2>7, CountOne
<1> QED BY <1>1, <1>2, <1>3, <1>4, <1>5, <1>6, <1>7, <1>8, <1>9, <1>10 DEF CallStep

\* At first nobody owns anything.
LEMMA CountInit == Init => OwnersCounted /\ DropShape
<1> SUFFICES ASSUME Init PROVE OwnersCounted /\ DropShape
  OBVIOUS
<1>1. \A m \in Module : Owners(m) = {}
  BY ConstantsAssumption DEF Init, Owners, Pointers
<1>2. OwnersCounted
  BY <1>1, FS_EmptySet DEF Init, OwnersCounted
<1>3. DropShape
  BY DEF Init, DropShape
<1> QED BY <1>2, <1>3

\* Each step keeps the count.
LEMMA CountNext == IndInv /\ OwnersCounted /\ DropShape /\ [Next]_vars => (OwnersCounted /\ DropShape)'
<1> SUFFICES ASSUME IndInv, OwnersCounted, DropShape, [Next]_vars
             PROVE  OwnersCounted' /\ DropShape'
  OBVIOUS
<1>1. TypeOK /\ CallShape /\ AliveWhileUsed
  BY DEF IndInv
<1>2. ASSUME NEW h \in Handle, User(h) PROVE OwnersCounted' /\ DropShape'
  BY <1>1, <1>2, CountUser
<1>3. ASSUME NEW h \in Handle, HandleStep(h) PROVE OwnersCounted' /\ DropShape'
  BY <1>1, <1>3, CountCall DEF HandleStep
<1>4. ASSUME NEW t \in Thread,
             \/ EntryCount(t)
             \/ \E m \in Module : EntryStep(t, m) \/ EndsItself(t, m)
      PROVE  UNCHANGED <<ref_count, module, detached, todo>>
  BY <1>4 DEF EntryCount, EndsItself, EntryStep, handleVars, moduleVars,
     EntryBegin, EntryLoop, RunTask, MainEnds, EntryClose, EntryCheck,
     EntryAgain, EntryUnref, EntryRemove, EntryDetach, EntryDrop
<1>5. CASE UNCHANGED vars
  BY <1>5, CountSame DEF vars, handleVars, moduleVars
<1> QED BY <1>2, <1>3, <1>4, <1>5, CountSame DEF Next, Entry

\* ref_count is the number of handles that own a module, whatever mix of copies,
\* detach(), attach() and release() led there.
THEOREM OwnersAreCounted == Spec => []OwnersCounted
BY CountInit, CountNext, Invariance, PTL DEF Spec

-----------------------------------------------------------------------------
(* StopsOnlyUnowned *)

\* No handle is ever attached again: attach() between the decrement of
\* release() and its exit() makes an owner of a module that is then stopped.
NoAttach == \A h \in Handle : <<h, "attach">> \notin Call

\* No call is at attach(),
NoneAttaches == \A h \in Handle : \A i \in DOMAIN todo[h] : todo[h][i] # "attach"

\* and nobody owns the module that a release() is stopping.
LastOwner == \A h \in Handle : Dropping(h) /\ Len(todo[h]) > 1 => Owners(module[h]) = {}

\* What is in a call after a step put s in front of its rest.
LEMMA PutsThen ==
  ASSUME TypeOK, NEW h \in Handle, todo[h] # <<>>,
         NEW s \in Seq(Step), NEW X, \A i \in 1..Len(s) : s[i] \in X, Then(h, s)
  PROVE  /\ \A o \in Handle \ {h} : todo'[o] = todo[o]
         /\ \A i \in DOMAIN todo'[h] :
              todo'[h][i] \in X \/ \E j \in DOMAIN todo[h] : todo'[h][i] = todo[h][j]
<1>1. /\ Len(todo'[h]) = Len(s) + Len(todo[h]) - 1
      /\ \A i \in 1..Len(s) : todo'[h][i] = s[i]
      /\ \A i \in (Len(s) + 1)..Len(todo'[h]) : todo'[h][i] = todo[h][i - Len(s) + 1]
      /\ todo'[h] \in Seq(Step)
      /\ \A o \in Handle \ {h} : todo'[o] = todo[o]
  BY TodoThen
<1>2. /\ todo[h] \in Seq(Step) /\ Len(todo[h]) \in Nat /\ Len(s) \in Nat
      /\ DOMAIN todo[h] = 1..Len(todo[h]) /\ DOMAIN todo'[h] = 1..Len(todo'[h])
  BY <1>1 DEF TypeOK
<1>3. ASSUME NEW i \in DOMAIN todo'[h]
      PROVE  todo'[h][i] \in X \/ \E j \in DOMAIN todo[h] : todo'[h][i] = todo[h][j]
  <2>1. CASE i \in 1..Len(s)
    BY <1>1, <2>1
  <2>2. CASE i \in (Len(s) + 1)..Len(todo'[h])
    <3>1. i - Len(s) + 1 \in DOMAIN todo[h]
      BY <1>1, <1>2, <2>2, SMTT(60)
    <3> QED BY <1>1, <2>2, <3>1
  <2> QED BY <1>2, <2>1, <2>2
<1> QED BY <1>1, <1>3

\* A step of a call adds only steps of start(), wait() and release().
LEMMA CallPuts ==
  ASSUME TypeOK, NEW h \in Handle, NEW m \in Module, CallStep(h, m)
  PROVE  /\ \A o \in Handle \ {h} : todo'[o] = todo[o]
         /\ \A i \in DOMAIN todo'[h] :
              \/ todo'[h][i] \in {"setup", "spawn", "join", "exit", "wait", "drop"}
              \/ \E j \in DOMAIN todo[h] : todo'[h][i] = todo[h][j]
<1> DEFINE X == {"setup", "spawn", "join", "exit", "wait", "drop"}
<1>1. CASE StartThrows(h, m)
  <2>1. todo'[h] = <<>> /\ \A o \in Handle \ {h} : todo'[o] = todo[o]
    BY <1>1 DEF StartThrows, TypeOK
  <2>2. DOMAIN todo'[h] = {}
    BY <2>1
  <2> QED BY <2>1, <2>2
<1>2. CASE ~ StartThrows(h, m)
  <2>1. /\ todo[h] # <<>>
        /\ \E s \in {<<>>, <<"setup">>, <<"spawn">>, <<"join">>, <<"drop">>,
                     <<"exit", "wait", "drop">>} : Then(h, s)
    BY <1>2 DEF CallStep, Start, StartSetup, Spawn, Detach, Attach, ExitCall, Flag, Stop,
       Wait, Join, Release, Drop, At
  <2>2. PICK s \in {<<>>, <<"setup">>, <<"spawn">>, <<"join">>, <<"drop">>,
                    <<"exit", "wait", "drop">>} : Then(h, s)
    BY <2>1
  <2>3. s \in Seq(Step) /\ \A i \in 1..Len(s) : s[i] \in X
    <3>1. CASE s = <<>>
      BY <3>1
    <3>2. ASSUME NEW x \in {"setup", "spawn", "join", "drop"}, s = <<x>>
          PROVE  s \in Seq(Step) /\ \A i \in 1..Len(s) : s[i] \in X
      <4>1. x \in Step /\ x \in X
        BY DEF Step
      <4> HIDE DEF X
      <4> QED BY <3>2, <4>1
    <3>3. CASE s = <<"exit", "wait", "drop">>
      BY <3>3 DEF Step
    <3> QED BY <2>2, <3>1, <3>2, <3>3
  <2> HIDE DEF X
  <2>4. /\ \A o \in Handle \ {h} : todo'[o] = todo[o]
        /\ \A i \in DOMAIN todo'[h] :
             todo'[h][i] \in X \/ \E j \in DOMAIN todo[h] : todo'[h][i] = todo[h][j]
    BY <2>1, <2>2, <2>3, PutsThen
  <2> QED BY <2>4 DEF X
<1> QED BY <1>1, <1>2

\* A step that puts at most one step in front of a call does not make it longer,
\* and neither begins nor ends the dropping.
LEMMA DropOne ==
  ASSUME TypeOK, DropShape, NEW h \in Handle, todo[h] # <<>>, Head(todo[h]) # "drop",
         NEW x \in Step, x # "drop", Dropping(h) => x = "join",
         Then(h, <<>>) \/ Then(h, <<x>>)
  PROVE  (Dropping(h)' <=> Dropping(h)) /\ Len(todo'[h]) <= Len(todo[h])
<1>0. Len(todo[h]) \in Nat
  BY DEF TypeOK
<1>1. PICK s \in {<<>>, <<x>>} : Then(h, s)
  OBVIOUS
<1>2. s \in Seq(Step) /\ Len(s) \in 0..1 /\ \A i \in 1..Len(s) : s[i] = x
  <2>1. CASE s = <<>>
    BY <2>1
  <2>2. CASE s = <<x>>
    BY <2>2
  <2> QED BY <1>1, <2>1, <2>2
<1>3. Dropping(h)' <=> Dropping(h)
  BY <1>1, <1>2, DropThen
<1>4. Len(todo'[h]) = Len(s) + Len(todo[h]) - 1
  BY <1>1, <1>2, TodoThen
<1> QED BY <1>0, <1>2, <1>3, <1>4

\* Only release() begins the dropping, only its last step ends it.
LEMMA CallDropping ==
  ASSUME TypeOK, DropShape, NEW h \in Handle, NEW m \in Module,
         CallStep(h, m), ~ Release(h, m), ~ Drop(h, m)
  PROVE  /\ Dropping(h)' <=> Dropping(h)
         /\ Dropping(h) => Len(todo'[h]) <= Len(todo[h])
<1>1. CASE Start(h, m) \/ StartSetup(h, m)
  <2>1. PICK x \in {"setup", "spawn"} : Then(h, <<>>) \/ Then(h, <<x>>)
    BY <1>1 DEF Start, StartSetup
  <2>2. PICK s \in {"start", "setup"} : At(h, s)
    BY <1>1 DEF Start, StartSetup
  <2>3. todo[h] # <<>> /\ Head(todo[h]) # "drop" /\ ~ Dropping(h) /\ x \in Step /\ x # "drop"
    BY <2>1, <2>2, NotDropping DEF At, Step
  <2> QED BY <2>1, <2>3, DropOne
<1>2. CASE StartThrows(h, m)
  <2>1. ~ Dropping(h)
    BY <1>2, NotDropping DEF StartThrows
  <2>2. todo'[h] = <<>>
    BY <1>2 DEF StartThrows, TypeOK
  <2>3. ~ Dropping(h)'
    BY <2>2 DEF Dropping
  <2> QED BY <2>1, <2>3
<1>3. CASE Wait(h, m)
  <2>1. (Then(h, <<>>) \/ Then(h, <<"join">>)) /\ todo[h] # <<>> /\ Head(todo[h]) # "drop"
    BY <1>3 DEF Wait, At
  <2>2. "join" \in Step
    BY DEF Step
  <2> QED BY <2>1, <2>2, DropOne
<1>4. CASE \/ \E t \in Thread : Spawn(h, m, t)
           \/ Detach(h, m) \/ Attach(h, m) \/ ExitCall(h, m) \/ Flag(h, m) \/ Stop(h, m)
           \/ Join(h, m)
  <2>1. Then(h, <<>>) /\ todo[h] # <<>> /\ Head(todo[h]) # "drop"
    BY <1>4 DEF Spawn, Detach, Attach, ExitCall, Flag, Stop, Join, At
  <2>2. "join" \in Step
    BY DEF Step
  <2> QED BY <2>1, <2>2, DropOne
<1> QED BY <1>1, <1>2, <1>3, <1>4 DEF CallStep

\* A step of one handle h that gains it no module keeps those unowned that
\* were, as long as it is not h that begins to drop.
LEMMA LastOne ==
  ASSUME TypeOK, LastOwner, NEW h \in Handle, OthersSame(h),
         \A g \in Handle, n \in Module :
            Dropping(g) /\ module[g] = n /\ Owners(n) = {} => ~ Owns(h, n)',
         \A g \in Handle : Dropping(g) => module[g] \in Module,
         Dropping(h)' /\ Len(todo'[h]) > 1 =>
            /\ module'[h] = module[h]
            /\ Owners(module[h])' = {} \/ (Dropping(h) /\ Len(todo[h]) > 1)
  PROVE  LastOwner'
<1> SUFFICES ASSUME NEW g \in Handle, Dropping(g)', Len(todo'[g]) > 1
             PROVE  Owners(module[g])' = {}
  BY DEF LastOwner
<1>1. CASE g = h /\ Owners(module[h])' = {} /\ module'[h] = module[h]
  BY <1>1
<1>2. CASE Dropping(g) /\ Len(todo[g]) > 1 /\ module'[g] = module[g]
  <2>1. Owners(module[g]) = {} /\ module[g] \in Module
    BY <1>2 DEF LastOwner
  <2>2. ~ Owns(h, module[g])'
    <3>1. PICK n \in Module : n = module[g]
      BY <2>1
    <3> QED BY <1>2, <2>1, <3>1
  <2>3. \A o \in Handle \ {h} : ~ Owns(o, module[g])'
    BY <1>2, <2>1 DEF Owners, Owns, Pointers, Dropping, OthersSame
  <2>4. \A o \in Handle : ~ Owns(o, module[g])'
    BY <2>2, <2>3
  <2> QED BY <1>2, <2>4 DEF Owners, Owns, Pointers, Dropping
<1>3. CASE g # h
  <2>1. todo'[g] = todo[g] /\ module'[g] = module[g]
    BY <1>3 DEF OthersSame
  <2>2. Dropping(g)
    BY <2>1 DEF Dropping
  <2> QED BY <1>2, <2>1, <2>2
<1> QED BY <1>1, <1>2, <1>3

\* A step of the user makes no owner of a module that has none.
LEMMA LastUser ==
  ASSUME IndInv, NoneAttaches, LastOwner, NoAttach, NEW h \in Handle, User(h)
  PROVE  NoneAttaches' /\ LastOwner'
<1> USE DEF TypeOK
<1>0. TypeOK /\ CallShape /\ AliveWhileUsed
  BY DEF IndInv
<1>1. todo[h] = <<>> /\ DOMAIN todo[h] = {} /\ ~ Dropping(h)
  <2>1. todo[h] = <<>>
    BY DEF User, Create, GetModule, Copy, Begin
  <2>2. DOMAIN todo[h] = {}
    BY <2>1
  <2> QED BY <2>1, <2>2 DEF Dropping
<1>2. OthersSame(h)
  BY <1>0, ZenonT(60) DEF User, Create, GetModule, Copy, Begin, OthersSame
<1>3. ~ Dropping(h)' /\ \A i \in DOMAIN todo'[h] : todo'[h][i] # "attach"
  <2>1. CASE todo' = todo
    BY <1>1, <2>1 DEF Dropping
  <2>2. ASSUME NEW f \in DOMAIN Program, Begin(h, f)
        PROVE  ~ Dropping(h)' /\ \A i \in DOMAIN todo'[h] : todo'[h][i] # "attach"
    <3>1. f # "attach" /\ todo'[h] = Program[f]
      BY <1>0, <2>2 DEF Begin, NoAttach
    <3>2. \A i \in DOMAIN Program[f] : Program[f][i] # "attach"
      BY <3>1 DEF Program
    <3> QED BY <3>1, <3>2, ProgramShape DEF Dropping
  <2> QED BY <2>1, <2>2 DEF User, Create, GetModule, Copy
<1>4. NoneAttaches'
  BY <1>2, <1>3 DEF NoneAttaches, OthersSame
<1>5. \A g \in Handle : Dropping(g) => module[g] \in Module /\ object[module[g]] = "alive"
  <2> SUFFICES ASSUME NEW g \in Handle, Dropping(g)
               PROVE  module[g] \in Module /\ object[module[g]] = "alive"
    OBVIOUS
  <2>1. todo[g] # <<>>
    BY DEF Dropping
  <2> QED BY <1>0, <2>1 DEF CallShape, AliveWhileUsed
<1>6. ASSUME NEW g \in Handle, NEW n \in Module,
             Dropping(g), module[g] = n, Owners(n) = {}, Owns(h, n)'
      PROVE  FALSE
  <2>1. \A o \in Handle : ~ Owns(o, n)
    BY <1>6 DEF Owners, Owns, Pointers, Dropping
  <2>2. ASSUME NEW m \in Module, Create(h, m) PROVE FALSE
    <3>1. m = n /\ object[m] = "unborn"
      BY <1>0, <1>6, <2>2 DEF Create, Owns
    <3> QED BY <1>5, <1>6, <3>1
  <2>3. ASSUME NEW m \in Module, GetModule(h, m) PROVE FALSE
    BY <1>0, <1>6, <2>3 DEF GetModule, Owns
  <2>4. ASSUME NEW o \in Handle, Copy(h, o) PROVE FALSE
    <3>1. module[o] = n /\ ~ detached[o] /\ todo[o] = <<>>
      BY <1>0, <1>6, <2>4 DEF Copy, Owns
    <3>2. DOMAIN todo[o] = {}
      BY <3>1
    <3> QED BY <2>1, <3>1, <3>2 DEF Owns, Dropping
  <2>5. ASSUME NEW f \in DOMAIN Program, Begin(h, f) PROVE FALSE
    BY <1>1, <1>6, <2>1, <2>5 DEF Begin, Owns
  <2> QED BY <2>2, <2>3, <2>4, <2>5 DEF User
<1> QED BY <1>0, <1>2, <1>3, <1>4, <1>5, <1>6, LastOne

\* A step of a call makes no owner, unless it is attach().
LEMMA LastCall ==
  ASSUME IndInv, OwnersCounted, DropShape, NoneAttaches, LastOwner,
         NEW h \in Handle, NEW m \in Module, CallStep(h, m)
  PROVE  NoneAttaches' /\ LastOwner'
<1>0. TypeOK /\ CallShape
  BY DEF IndInv
<1>1. NoneAttaches'
  BY <1>0, CallPuts DEF NoneAttaches
<1>2. todo[h] \in Seq(Step) /\ todo[h] # <<>> /\ module[h] = m
  BY <1>0 DEF CallStep, Start, StartSetup, StartThrows, Spawn, Detach, Attach, ExitCall, Flag,
     Stop, Wait, Join, Release, Drop, At, TypeOK
<1>3. ~ Attach(h, m)
  <2>1. 1 \in DOMAIN todo[h] /\ todo[h][1] = Head(todo[h])
    BY <1>2
  <2> QED BY <2>1 DEF NoneAttaches, Attach, At
<1>4. OthersSame(h)
  <2>1. \A o \in Handle \ {h} : module'[o] = module[o] /\ detached'[o] = detached[o]
    BY <1>0 DEF CallStep, Start, StartSetup, StartThrows, Spawn, Detach, Attach, ExitCall, Flag,
       Stop, Wait, Join, Release, Drop, TypeOK
  <2> QED BY <1>0, <2>1, CallPuts DEF OthersSame
<1>5. /\ ~ Drop(h, m) => module'[h] = m /\ (~ detached'[h] => ~ detached[h])
      /\ Drop(h, m) => module'[h] = None
  BY <1>0, <1>2, <1>3 DEF CallStep, Start, StartSetup, StartThrows, Spawn, Detach, ExitCall,
     Flag, Stop, Wait, Join, Release, Drop, TypeOK
<1>6. \A g \in Handle : Dropping(g) => module[g] \in Module
  <2> SUFFICES ASSUME NEW g \in Handle, Dropping(g) PROVE module[g] \in Module
    OBVIOUS
  <2>1. todo[g] # <<>>
    BY DEF Dropping
  <2> QED BY <1>0, <2>1 DEF CallShape, TypeOK
<1>7. CASE Drop(h, m)
  <2>1. module'[h] \notin Module
    BY <1>5, <1>7, ConstantsAssumption
  <2>2. ~ Dropping(h)'
    <3>1. Len(todo[h]) = 1 /\ Then(h, <<>>) /\ <<>> \in Seq(Step)
      BY <1>0, <1>2, <1>7, AtLast, Fronts DEF Drop, At
    <3>2. Len(todo'[h]) = Len(<<>>) + Len(todo[h]) - 1 /\ todo' \in [Handle -> Seq(Step)]
      BY <1>0, <1>2, <3>1, TodoThen
    <3>3. Len(todo'[h]) = 0 /\ todo'[h] \in Seq(Step)
      BY <3>1, <3>2
    <3>4. DOMAIN todo'[h] = {}
      BY <3>3
    <3> QED BY <3>4 DEF Dropping
  <2>3. \A n \in Module : ~ Owns(h, n)'
    BY <2>1 DEF Owns
  <2> QED BY <1>0, <1>1, <1>4, <1>6, <2>2, <2>3, LastOne
<1>8. CASE Release(h, m)
  <2>0. ~ Dropping(h)
    BY <1>0, <1>8, NotDropping DEF Release
  <2>1. OwnersCounted'
    BY <1>0, CountCall
  <2>2. ref_count' = ref_count /\ ~ detached[h] => FALSE
    <3> SUFFICES ASSUME ref_count' = ref_count, ~ detached[h] PROVE FALSE
      OBVIOUS
    <3>1. ref_count'[m] = ref_count[m] - 1 /\ ref_count[m] \in Int
      BY <1>0, <1>8 DEF Release, TypeOK
    <3> QED BY <3>1
  <2>3. Len(todo[h]) = 1
    BY <1>0, <1>2, <1>8, AtLast DEF Release, At
  <2>4. CASE ref_count'[m] = 0 /\ ~ detached[h]
    <3>1. IsFiniteSet(Owners(m)') /\ Cardinality(Owners(m)') = 0
      <4>1. Owners(m)' \subseteq Handle
        BY DEF Owners, Pointers
      <4> QED BY <2>1, <2>4, <4>1, FS_Subset, ConstantsAssumption DEF OwnersCounted
    <3>2. Owners(m)' = {}
      BY <3>1, FS_EmptySet
    <3>3. \A g \in Handle, n \in Module :
            Dropping(g) /\ module[g] = n /\ Owners(n) = {} => ~ Owns(h, n)'
      BY <1>2, <1>5, <1>8, <3>2 DEF Owners, Owns, Pointers, Dropping, Release
    <3>4. module'[h] = module[h]
      BY <1>8 DEF Release
    <3>5. Owners(module[h])' = {}
      BY <1>2, <3>2, <3>4 DEF Owners, Pointers
    <3> QED BY <1>0, <1>1, <1>4, <1>6, <3>3, <3>4, <3>5, LastOne
  <2>5. CASE ~ (ref_count'[m] = 0 /\ ~ detached[h])
    <3>1. Then(h, <<"drop">>) /\ <<"drop">> \in Seq(Step)
      BY <1>8, <2>5 DEF Release, Step
    <3>2. Len(todo'[h]) = Len(<<"drop">>) + Len(todo[h]) - 1
      BY <1>0, <1>2, <3>1, TodoThen
    <3>3. Len(todo'[h]) = 1
      BY <2>3, <3>2
    <3>4. \A i \in 1..Len(<<"drop">>) : todo'[h][i] = <<"drop">>[i]
      BY <1>0, <1>2, <3>1, TodoThen
    <3>5. 1 \in DOMAIN todo'[h] /\ todo'[h][1] = "drop"
      <4>1. todo' \in [Handle -> Seq(Step)]
        BY <1>0, <1>2, <3>1, TodoThen
      <4>2. todo'[h] \in Seq(Step) /\ Len(todo'[h]) = 1
        BY <3>3, <4>1
      <4> QED BY <3>4, <4>2
    <3>6. \A n \in Module : ~ Owns(h, n)'
      BY <3>5 DEF Owns, Dropping
    <3>7. ~ (Len(todo'[h]) > 1)
      BY <3>3
    <3> QED BY <1>0, <1>1, <1>4, <1>6, <3>6, <3>7, LastOne
  <2> QED BY <2>4, <2>5
<1>9. CASE ~ Release(h, m) /\ ~ Drop(h, m)
  <2>1. (Dropping(h)' <=> Dropping(h)) /\ (Dropping(h) => Len(todo'[h]) <= Len(todo[h]))
    BY <1>0, <1>9, CallDropping
  <2>2. \A n \in Module : Owns(h, n)' => Owns(h, n)
    BY <1>2, <1>5, <1>9, <2>1 DEF Owns
  <2>3. \A g \in Handle, n \in Module :
          Dropping(g) /\ module[g] = n /\ Owners(n) = {} => ~ Owns(h, n)'
    BY <2>2 DEF Owners, Owns, Pointers, Dropping
  <2>4. Len(todo[h]) \in Nat /\ todo'[h] \in Seq(Step)
    BY <1>0, <1>2, NextType DEF TypeOK, Next, HandleStep
  <2>5. Len(todo'[h]) \in Nat
    BY <2>4
  <2>6. Dropping(h)' /\ Len(todo'[h]) > 1 => Dropping(h) /\ Len(todo[h]) > 1
    BY <2>1, <2>4, <2>5
  <2> QED BY <1>0, <1>1, <1>2, <1>4, <1>5, <1>6, <1>9, <2>3, <2>6, LastOne
<1> QED BY <1>7, <1>8, <1>9

\* A release() that stops the module does so while nobody owns it: what is left of a
\* module without owners are handles that were detached, and nothing but attach()
\* makes an owner of one of them (Handle.h:190, 246).
THEOREM StopsUnowned ==
  ASSUME NoAttach
  PROVE  Spec => StopsOnlyUnowned
<1>1. Init => NoneAttaches /\ LastOwner
  BY DEF Init, NoneAttaches, LastOwner, Dropping
<1>2. IndInv /\ OwnersCounted /\ DropShape /\ NoneAttaches /\ LastOwner /\ [Next]_vars
        => (NoneAttaches /\ LastOwner)'
  <2> SUFFICES ASSUME IndInv, OwnersCounted, DropShape, NoneAttaches, LastOwner, [Next]_vars
               PROVE  NoneAttaches' /\ LastOwner'
    OBVIOUS
  <2>1. ASSUME NEW h \in Handle, User(h) PROVE NoneAttaches' /\ LastOwner'
    BY <2>1, LastUser
  <2>2. ASSUME NEW h \in Handle, HandleStep(h) PROVE NoneAttaches' /\ LastOwner'
    BY <2>2, LastCall DEF HandleStep
  <2>3. ASSUME NEW t \in Thread,
               \/ EntryCount(t)
               \/ \E m \in Module : EntryStep(t, m) \/ EndsItself(t, m)
        PROVE  UNCHANGED <<module, detached, todo>>
    BY <2>3 DEF EntryCount, EndsItself, EntryStep, handleVars, moduleVars,
       EntryBegin, EntryLoop, RunTask, MainEnds, EntryClose, EntryCheck,
       EntryAgain, EntryUnref, EntryRemove, EntryDetach, EntryDrop
  <2>4. CASE UNCHANGED vars
    BY <2>4 DEF vars, handleVars, NoneAttaches, LastOwner, Owners, Pointers, Dropping
  <2>5. CASE UNCHANGED <<module, detached, todo>>
    BY <2>5 DEF NoneAttaches, LastOwner, Owners, Pointers, Dropping
  <2> QED BY <2>1, <2>2, <2>3, <2>4, <2>5 DEF Next, Entry
<1>3. ASSUME LastOwner, NEW h \in Handle, todo[h] = <<"exit", "wait", "drop">>
      PROVE  Owners(module[h]) = {}
  <2> DEFINE q == <<"exit", "wait", "drop">>
  <2>1. 3 \in DOMAIN q /\ q[3] = "drop" /\ Len(q) = 3 /\ todo[h] = q
    BY <1>3
  <2> HIDE DEF q
  <2> QED BY <1>3, <2>1 DEF LastOwner, Dropping
<1>4. LastOwner /\ [Next]_vars => [\A h \in Handle :
        (todo[h] = <<"exit", "wait", "drop">> /\ todo'[h] # todo[h])
            => Owners(module[h]) = {}]_vars
  BY <1>3
<1> QED BY <1>1, <1>2, <1>4, Invariance, CountInit, CountNext, PTL DEF Spec, StopsOnlyUnowned
-----------------------------------------------------------------------------
(* DeletedAtRest *)

\* A step starts no module that was waited for: is_waiting is never reset, so the
\* next thread of the module would not be detached at its end.
StartsUnwaited ==
    \A m \in Module : is_waiting[m] /\ thread[m] = None => thread'[m] = None

\* A registered module keeps itself until its thread is about to unregister it.
MapInv ==
    \A m \in module_map : self_ptr[m] \/ \E t \in Thread : pc[t] = "remove" /\ of[t] = m

\* A module has a thread while it keeps itself and until the thread detaches itself,
\* unless somebody waits, and who waits will join it.
ThreadInv ==
    \A m \in Module : thread[m] # None =>
        /\ self_ptr[m] \/ pc[thread[m]] \in {"remove", "detach"} \/ is_waiting[m]
        /\ is_waiting[m] => \E h \in Handle : At(h, "join") /\ module[h] = m

\* The invariant of modules at rest.
RestInv == MapInv /\ ThreadInv /\ DeletedAtRest

\* When the last pointer to a module goes, it has no thread and no entry.
LEMMA LastPointer ==
  ASSUME IndInv, RestInv, NEW m \in Module, ~ self_ptr[m],
         \A t \in Holders(m) : pc[t] = "drop",
         \A h \in Pointers(m) : ~ At(h, "join")
  PROVE  thread[m] = None /\ m \notin module_map
<1>1. m \notin module_map
  BY DEF RestInv, MapInv, Holders, Leaving
<1>2. ASSUME thread[m] # None PROVE FALSE
  <2>1. PICK t \in Thread : t = thread[m]
    BY <1>2 DEF IndInv, TypeOK
  <2>2. of[t] = m
    BY <1>2, <2>1 DEF IndInv, ThreadShape
  <2>3. pc[t] \notin {"remove", "detach"}
    BY <2>2 DEF Holders, Leaving
  <2>4. PICK h \in Handle : At(h, "join") /\ module[h] = m
    BY <1>2, <2>1, <2>3 DEF RestInv, ThreadInv
  <2> QED BY <2>4 DEF Pointers
<1> QED BY <1>1, <1>2

\* A step that registers nothing.
LEMMA SameMap ==
  ASSUME MapInv, module_map' \subseteq module_map, UNCHANGED of,
         \A m \in module_map' : self_ptr[m] =>
            self_ptr'[m] \/ \E t \in Thread : pc'[t] = "remove" /\ of[t] = m,
         \A t \in Thread : pc[t] = "remove" => pc'[t] = "remove" \/ of[t] \notin module_map'
  PROVE  MapInv'
<1> SUFFICES ASSUME NEW m \in module_map'
             PROVE  self_ptr'[m] \/ \E t \in Thread : pc'[t] = "remove" /\ of'[t] = m
  BY DEF MapInv
<1>1. CASE self_ptr[m]
  BY <1>1
<1>2. CASE ~ self_ptr[m]
  <2>1. PICK t \in Thread : pc[t] = "remove" /\ of[t] = m
    BY <1>2 DEF MapInv
  <2> QED BY <2>1
<1> QED BY <1>1, <1>2

\* A step that starts no thread and changes no call.
LEMMA SameJoiners ==
  ASSUME TypeOK, ThreadInv, UNCHANGED <<is_waiting, todo, module>>,
         \A m \in Module : thread'[m] # None => thread[m] = thread'[m],
         \A m \in Module, t \in Thread : thread'[m] = t /\ thread[m] = t =>
            self_ptr'[m] \/ pc'[t] \in {"remove", "detach"} \/ is_waiting[m]
            \/ (self_ptr'[m] = self_ptr[m] /\ pc'[t] = pc[t])
  PROVE  ThreadInv'
<1> SUFFICES ASSUME NEW m \in Module, thread'[m] # None
             PROVE  /\ self_ptr'[m] \/ pc'[thread'[m]] \in {"remove", "detach"} \/ is_waiting'[m]
                    /\ is_waiting'[m] => \E h \in Handle : At(h, "join")' /\ module'[h] = m
  BY DEF ThreadInv
<1>1. PICK t \in Thread : t = thread[m] /\ thread'[m] = t
  BY DEF TypeOK
<1>2. /\ self_ptr[m] \/ pc[t] \in {"remove", "detach"} \/ is_waiting[m]
      /\ is_waiting[m] => \E h \in Handle : At(h, "join") /\ module[h] = m
  BY <1>1 DEF ThreadInv
<1>3. self_ptr'[m] \/ pc'[t] \in {"remove", "detach"} \/ is_waiting[m]
  BY <1>1, <1>2
<1>4. is_waiting[m] => \E h \in Handle : At(h, "join")' /\ module'[h] = m
  BY <1>2 DEF At
<1> QED BY <1>1, <1>3, <1>4

\* A step of the user.
LEMMA RestUser ==
  ASSUME IndInv, RestInv, NEW h \in Handle, User(h)
  PROVE  RestInv'
<1>1. UNCHANGED <<self_ptr, thread, is_waiting, module_map, pc, of>>
  BY DEF User, Create, GetModule, Copy, Begin, moduleVars, nodeVars, threadVars
<1>2. todo[h] = <<>> /\ OthersSame(h)
  BY ZenonT(60) DEF User, Create, GetModule, Copy, Begin, OthersSame, IndInv, TypeOK
<1>3. \A m \in Module : object'[m] = "deleted" => object[m] = "deleted"
  BY DEF User, Create, GetModule, Copy, Begin, moduleVars, IndInv, TypeOK
<1>4. MapInv'
  BY <1>1 DEF RestInv, MapInv
<1>5. ThreadInv'
  <2> SUFFICES ASSUME NEW m \in Module, thread'[m] # None
               PROVE  /\ self_ptr'[m] \/ pc'[thread'[m]] \in {"remove", "detach"} \/ is_waiting'[m]
                      /\ is_waiting'[m] => \E o \in Handle : At(o, "join")' /\ module'[o] = m
    BY DEF ThreadInv
  <2>1. self_ptr[m] \/ pc[thread[m]] \in {"remove", "detach"} \/ is_waiting[m]
    BY <1>1 DEF RestInv, ThreadInv
  <2>2. ASSUME is_waiting[m] PROVE \E o \in Handle : At(o, "join")' /\ module'[o] = m
    <3>1. PICK o \in Handle : At(o, "join") /\ module[o] = m
      BY <1>1, <2>2 DEF RestInv, ThreadInv
    <3>2. o # h
      BY <1>2, <3>1 DEF At
    <3> QED BY <1>2, <3>1, <3>2 DEF OthersSame, At
  <2> QED BY <1>1, <2>1, <2>2
<1>6. DeletedAtRest'
  BY <1>1, <1>3 DEF RestInv, DeletedAtRest
<1> QED BY <1>4, <1>5, <1>6 DEF RestInv

\* A step of a call.
LEMMA RestCall ==
  ASSUME IndInv, RestInv, StartsUnwaited, NEW h \in Handle, NEW m \in Module, CallStep(h, m)
  PROVE  RestInv'
<1> USE DEF TypeOK
<1>0. TypeOK /\ CallShape /\ StartShape /\ ThreadShape /\ AliveWhileUsed
  BY DEF IndInv
<1>1. \A n \in Module : self_ptr[n] => self_ptr'[n]
  BY <1>0, ZenonT(60) DEF CallStep, Start, StartSetup, StartThrows, Spawn, Detach, Attach, ExitCall, Flag,
     Stop, Wait, Join, Release, Drop, moduleVars
<1>2. \A n \in Module : is_waiting[n] => is_waiting'[n]
  BY <1>0 DEF CallStep, Start, StartSetup, StartThrows, Spawn, Detach, Attach, ExitCall, Flag,
     Stop, Wait, Join, Release, Drop, nodeVars
<1>3. module[h] = m /\ todo[h] # <<>> /\ object[m] = "alive"
  <2>1. module[h] = m /\ todo[h] # <<>>
    BY DEF CallStep, Start, StartSetup, StartThrows, Spawn, Detach, Attach, ExitCall, Flag,
       Stop, Wait, Join, Release, Drop, At
  <2> QED BY <1>0, <2>1, ConstantsAssumption DEF AliveWhileUsed
<1>4. \A t \in Thread : pc[t] # "new" => pc'[t] = pc[t] /\ of'[t] = of[t]
  BY <1>0 DEF CallStep, Start, StartSetup, StartThrows, Spawn, Detach, Attach, ExitCall, Flag,
     Stop, Wait, Join, Release, Drop, threadVars
<1>5. MapInv'
  <2> SUFFICES ASSUME NEW n \in Module, n \in module_map'
               PROVE  self_ptr'[n] \/ \E t \in Thread : pc'[t] = "remove" /\ of'[t] = n
    BY <1>0, NextType DEF MapInv, Next, HandleStep
  <2>1. CASE n \in module_map
    BY <1>1, <1>4, <2>1 DEF RestInv, MapInv
  <2>2. CASE n \notin module_map
    <3>1. StartSetup(h, m) /\ n = m
      BY <2>2 DEF CallStep, Start, StartSetup, StartThrows, Spawn, Detach, Attach, ExitCall, Flag,
         Stop, Wait, Join, Release, Drop, nodeVars
    <3>2. self_ptr[m]
      BY <1>0, <3>1 DEF StartSetup, StartShape
    <3> QED BY <1>1, <3>1, <3>2
  <2> QED BY <2>1, <2>2
<1>6. \A o \in Handle \ {h} : todo'[o] = todo[o] /\ module'[o] = module[o]
  <2>1. \A o \in Handle \ {h} : module'[o] = module[o]
    BY <1>0 DEF CallStep, Start, StartSetup, StartThrows, Spawn, Detach, Attach, ExitCall, Flag,
       Stop, Wait, Join, Release, Drop
  <2> QED BY <1>0, <2>1, CallPuts
<1>7. ASSUME NEW n \in Module, thread'[n] # None
      PROVE  /\ self_ptr'[n] \/ pc'[thread'[n]] \in {"remove", "detach"} \/ is_waiting'[n]
             /\ is_waiting'[n] => \E o \in Handle : At(o, "join")' /\ module'[o] = n
  <2>1. CASE thread'[n] = thread[n]
    <3>1. self_ptr'[n] \/ pc'[thread'[n]] \in {"remove", "detach"} \/ is_waiting'[n]
      <4>1. PICK t \in Thread : t = thread[n] /\ pc[t] # "new"
        BY <1>0, <1>7, <2>1 DEF ThreadShape
      <4>2. pc'[t] = pc[t]
        BY <1>4, <4>1
      <4>3. self_ptr[n] \/ pc[t] \in {"remove", "detach"} \/ is_waiting[n]
        BY <1>7, <2>1, <4>1 DEF RestInv, ThreadInv
      <4> QED BY <1>1, <1>2, <2>1, <4>1, <4>2, <4>3
    <3>2. CASE is_waiting[n]
      <4>1. PICK o \in Handle : At(o, "join") /\ module[o] = n
        BY <1>7, <2>1, <3>2 DEF RestInv, ThreadInv
      <4>2. o # h
        <5> SUFFICES ASSUME o = h PROVE FALSE
          OBVIOUS
        <5>1. Join(h, m) /\ n = m
          BY <1>3, <4>1, AtOnly
        <5> QED BY <1>0, <1>7, <5>1 DEF Join
      <4> QED BY <1>6, <3>1, <4>1, <4>2 DEF At
    <3>3. CASE ~ is_waiting[n] /\ is_waiting'[n]
      <4>1. Wait(h, m) /\ n = m
        BY <1>0, <3>3 DEF CallStep, Start, StartSetup, StartThrows, Spawn, Detach, Attach,
           ExitCall, Flag, Stop, Wait, Join, Release, Drop, nodeVars
      <4>2. Then(h, <<"join">>) /\ module' = module /\ <<"join">> \in Seq(Step)
        BY <1>7, <2>1, <4>1, Fronts DEF Wait
      <4>3. At(h, "join")'
        <5>1. /\ Len(todo'[h]) = Len(<<"join">>) + Len(todo[h]) - 1
              /\ \A i \in 1..Len(<<"join">>) : todo'[h][i] = <<"join">>[i]
              /\ todo' \in [Handle -> Seq(Step)]
          BY <1>0, <1>3, <4>2, TodoThen
        <5>2. todo[h] \in Seq(Step) /\ Len(todo[h]) \in Nat /\ Len(todo[h]) > 0
          BY <1>0, <1>3
        <5>3. todo'[h] \in Seq(Step) /\ Len(todo'[h]) > 0 /\ todo'[h][1] = "join"
          BY <5>1, <5>2
        <5> QED BY <5>3 DEF At
      <4> QED BY <1>3, <3>1, <4>1, <4>2, <4>3
    <3> QED BY <3>1, <3>2, <3>3
  <2>2. CASE thread'[n] # thread[n]
    <3>1. PICK t \in Thread : Spawn(h, m, t)
      BY <1>0, <1>7, <2>2 DEF CallStep, Start, StartSetup, StartThrows, Spawn, Detach, Attach,
         ExitCall, Flag, Stop, Wait, Join, Release, Drop, moduleVars
    <3>2. n = m /\ is_waiting' = is_waiting
      BY <1>0, <2>2, <3>1 DEF Spawn, nodeVars
    <3>3. self_ptr[m] /\ thread[m] = None
      BY <1>0, <3>1 DEF Spawn, StartShape
    <3>4. ~ is_waiting[m]
      BY <1>7, <3>2, <3>3 DEF StartsUnwaited
    <3> QED BY <1>1, <3>2, <3>3, <3>4
  <2> QED BY <2>1, <2>2
<1>8. ThreadInv'
  BY <1>7 DEF ThreadInv
<1>9. ASSUME NEW n \in Module, object'[n] = "deleted"
      PROVE  thread'[n] = None /\ n \notin module_map'
  <2>1. CASE object[n] = "deleted"
    <3>1. thread[n] = None /\ n \notin module_map /\ n # m
      BY <1>3, <2>1 DEF RestInv, DeletedAtRest
    <3> QED BY <1>0, <3>1 DEF CallStep, Start, StartSetup, StartThrows, Spawn, Detach, Attach,
         ExitCall, Flag, Stop, Wait, Join, Release, Drop, nodeVars, moduleVars
  <2>2. CASE object[n] # "deleted"
    <3>1. Drop(h, m) /\ n = m /\ ~ self_ptr[m] /\ Holders(m) = {} /\ Pointers(m) = {h}
      BY <1>0, <1>9, <2>2 DEF CallStep, Start, StartSetup, StartThrows, Spawn, Detach, Attach,
         ExitCall, Flag, Stop, Wait, Join, Release, Drop, moduleVars
    <3>2. ~ At(h, "join")
      BY <3>1 DEF Drop, At
    <3>3. thread[m] = None /\ m \notin module_map
      BY <3>1, <3>2, LastPointer
    <3> QED BY <3>1, <3>3 DEF Drop, nodeVars
  <2> QED BY <2>1, <2>2
<1>10. DeletedAtRest'
  BY <1>9 DEF DeletedAtRest
<1> QED BY <1>5, <1>8, <1>10 DEF RestInv

\* A step of vnx_entry().
LEMMA RestEntry ==
  ASSUME IndInv, RestInv, NEW t \in Thread, NEW m \in Module, EntryStep(t, m) \/ EndsItself(t, m)
  PROVE  RestInv'
<1> USE DEF TypeOK
<1>0. TypeOK /\ StartShape /\ ThreadShape /\ ThreadKnown /\ AliveWhileUsed
  BY DEF IndInv
<1>1. UNCHANGED <<is_waiting, of, module, todo>>
  BY DEF EntryStep, EndsItself, EntryBegin, EntryLoop, RunTask, MainEnds, EntryClose, EntryCheck,
     EntryAgain, EntryUnref, EntryRemove, EntryDetach, EntryDrop, handleVars, threadVars, nodeVars
<1>2. of[t] = m /\ \A u \in Thread \ {t} : pc'[u] = pc[u]
  BY <1>0 DEF EntryStep, EndsItself, EntryBegin, EntryLoop, RunTask, MainEnds, EntryClose,
     EntryCheck, EntryAgain, EntryUnref, EntryRemove, EntryDetach, EntryDrop, threadVars
<1>3. /\ ~ EntryUnref(t, m) => self_ptr' = self_ptr
      /\ ~ EntryRemove(t, m) => module_map' = module_map
      /\ ~ EntryDetach(t, m) => thread' = thread
      /\ ~ EntryDrop(t, m) => object' = object
  BY DEF EntryStep, EndsItself, EntryBegin, EntryLoop, RunTask, MainEnds, EntryClose, EntryCheck,
     EntryAgain, EntryUnref, EntryRemove, EntryDetach, EntryDrop, moduleVars, nodeVars
<1>4. CASE EntryUnref(t, m)
  <2>1. /\ self_ptr' = [self_ptr EXCEPT ![m] = FALSE] /\ pc'[t] = "remove" /\ pc[t] = "unref"
        /\ UNCHANGED <<object, thread, module_map>>
    BY <1>0, <1>4 DEF EntryUnref, nodeVars
  <2>2. thread[m] = t
    BY <1>0, <1>2, <2>1 DEF ThreadKnown, Running
  <2>3. MapInv'
    <3>1. \A n \in Module : self_ptr[n] => self_ptr'[n] \/ (pc'[t] = "remove" /\ of[t] = n)
      BY <1>0, <1>2, <2>1
    <3>2. \A u \in Thread : pc[u] = "remove" => pc'[u] = "remove"
      BY <1>2, <2>1
    <3> QED BY <1>0, <1>1, <2>1, <3>1, <3>2, SameMap DEF RestInv
  <2>4. ThreadInv'
    <3>1. ASSUME NEW n \in Module, NEW u \in Thread, thread[n] = u
          PROVE  pc'[u] = "remove" \/ (self_ptr'[n] = self_ptr[n] /\ pc'[u] = pc[u])
      <4>1. CASE u = t
        BY <2>1, <4>1
      <4>2. CASE u # t
        <5>1. n # m
          BY <2>2, <3>1, <4>2
        <5> QED BY <1>0, <1>2, <2>1, <4>2, <5>1
      <4> QED BY <4>1, <4>2
    <3> QED BY <1>0, <1>1, <2>1, <3>1, SameJoiners DEF RestInv
  <2> QED BY <2>1, <2>3, <2>4 DEF RestInv, DeletedAtRest
<1>5. CASE EntryRemove(t, m)
  <2>1. /\ module_map' = module_map \ {m} /\ pc'[t] = "detach" /\ pc[t] = "remove"
        /\ UNCHANGED <<object, thread, self_ptr>>
    BY <1>0, <1>5 DEF EntryRemove, moduleVars
  <2>3. MapInv'
    <3>1. \A u \in Thread : pc[u] = "remove" => pc'[u] = "remove" \/ of[u] \notin module_map'
      BY <1>2, <2>1
    <3> QED BY <1>0, <1>1, <2>1, <3>1, SameMap DEF RestInv
  <2>4. ThreadInv'
    <3>1. \A u \in Thread : pc'[u] = "detach" \/ pc'[u] = pc[u]
      BY <1>2, <2>1
    <3> QED BY <1>0, <1>1, <2>1, <3>1, SameJoiners DEF RestInv
  <2> QED BY <2>1, <2>3, <2>4 DEF RestInv, DeletedAtRest
<1>6. CASE EntryDetach(t, m)
  <2>1. /\ thread' = IF is_waiting[m] THEN thread ELSE [thread EXCEPT ![m] = None]
        /\ pc'[t] = "drop" /\ pc[t] = "detach"
        /\ UNCHANGED <<object, module_map, self_ptr>>
    BY <1>0, <1>6 DEF EntryDetach, nodeVars
  <2>2. thread[m] = t
    BY <1>0, <1>2, <2>1 DEF ThreadKnown
  <2>3. MapInv'
    <3>1. \A u \in Thread : pc[u] = "remove" => pc'[u] = "remove"
      BY <1>2, <2>1
    <3> QED BY <1>0, <1>1, <2>1, <3>1, SameMap DEF RestInv
  <2>4. ThreadInv'
    <3>1. \A n \in Module : thread'[n] # None => thread[n] = thread'[n]
      BY <1>0, <2>1
    <3>2. ASSUME NEW n \in Module, NEW u \in Thread, thread'[n] = u, thread[n] = u
          PROVE  is_waiting[n] \/ (self_ptr'[n] = self_ptr[n] /\ pc'[u] = pc[u])
      <4>1. CASE u = t
        <5>1. n = m
          BY <1>0, <1>2, <3>2, <4>1, ConstantsAssumption DEF ThreadShape
        <5> QED BY <1>0, <2>1, <3>2, <5>1, ConstantsAssumption
      <4>2. CASE u # t
        BY <1>2, <2>1, <4>2
      <4> QED BY <4>1, <4>2
    <3> QED BY <1>0, <1>1, <3>1, <3>2, SameJoiners DEF RestInv
  <2>5. DeletedAtRest'
    BY <1>0, <2>1 DEF RestInv, DeletedAtRest
  <2> QED BY <2>3, <2>4, <2>5 DEF RestInv
<1>7. CASE EntryDrop(t, m)
  <2>1. /\ pc[t] = "drop" /\ pc'[t] = "count"
        /\ UNCHANGED <<thread, module_map, self_ptr>>
    BY <1>0, <1>7 DEF EntryDrop, nodeVars
  <2>3. MapInv'
    <3>1. \A u \in Thread : pc[u] = "remove" => pc'[u] = "remove"
      BY <1>2, <2>1
    <3> QED BY <1>0, <1>1, <2>1, <3>1, SameMap DEF RestInv
  <2>4. ThreadInv'
    <3>1. ASSUME NEW n \in Module, NEW u \in Thread, thread[n] = u
          PROVE  self_ptr'[n] \/ is_waiting[n] \/ (self_ptr'[n] = self_ptr[n] /\ pc'[u] = pc[u])
      <4>1. CASE u = t
        <5>1. self_ptr[n] \/ pc[t] \in {"remove", "detach"} \/ is_waiting[n]
          BY <3>1, <4>1, ConstantsAssumption DEF RestInv, ThreadInv
        <5> QED BY <2>1, <5>1
      <4>2. CASE u # t
        BY <1>2, <2>1, <4>2
      <4> QED BY <4>1, <4>2
    <3> QED BY <1>0, <1>1, <2>1, <3>1, SameJoiners DEF RestInv
  <2>5. ASSUME NEW n \in Module, object'[n] = "deleted"
        PROVE  thread[n] = None /\ n \notin module_map
    <3>1. CASE object[n] = "deleted"
      BY <3>1 DEF RestInv, DeletedAtRest
    <3>2. CASE object[n] # "deleted"
      <4>1. n = m /\ ~ self_ptr[m] /\ Holders(m) = {t} /\ Pointers(m) = {}
        BY <1>0, <1>7, <2>5, <3>2 DEF EntryDrop
      <4> QED BY <2>1, <4>1, LastPointer
    <3> QED BY <3>1, <3>2
  <2> QED BY <2>1, <2>3, <2>4, <2>5 DEF RestInv, DeletedAtRest
<1>8. CASE ~ (EntryUnref(t, m) \/ EntryRemove(t, m) \/ EntryDetach(t, m) \/ EntryDrop(t, m))
  <2>1. UNCHANGED <<self_ptr, module_map, thread, object>>
    BY <1>3, <1>8
  <2>2. pc[t] \in Running \/ pc' = pc
    BY <1>8 DEF EntryStep, EndsItself, EntryBegin, EntryLoop, RunTask, MainEnds, EntryClose,
       EntryCheck, EntryAgain, Running, threadVars
  <2>3. MapInv'
    <3>1. \A u \in Thread : pc[u] = "remove" => pc'[u] = "remove"
      <4>1. pc[t] # "remove" \/ pc' = pc
        BY <2>2 DEF Running
      <4> QED BY <1>2, <4>1
    <3>2. \A n \in Module : self_ptr[n] => self_ptr'[n]
      BY <2>1
    <3> QED BY <1>0, <1>1, <2>1, <3>1, <3>2, SameMap DEF RestInv
  <2>4. ThreadInv'
    <3>1. ASSUME NEW n \in Module, NEW u \in Thread, thread[n] = u
          PROVE  self_ptr'[n] \/ (self_ptr'[n] = self_ptr[n] /\ pc'[u] = pc[u])
      <4>1. CASE u = t /\ pc[t] \in Running
        <5>1. self_ptr[m] /\ n = m
          BY <1>0, <1>2, <3>1, <4>1, ConstantsAssumption DEF ThreadShape
        <5> QED BY <2>1, <5>1
      <4>2. CASE ~ (u = t /\ pc[t] \in Running)
        BY <1>2, <2>1, <2>2, <4>2
      <4> QED BY <4>1, <4>2
    <3> QED BY <1>0, <1>1, <2>1, <3>1, SameJoiners DEF RestInv
  <2> QED BY <2>1, <2>3, <2>4 DEF RestInv, DeletedAtRest
<1> QED BY <1>4, <1>5, <1>6, <1>7, <1>8

\* A module that is deleted has no thread and is not registered, whatever handles
\* there were, as long as none that was waited for is started again
\* (Module.cpp:200, 205).
THEOREM RestsDeleted == Spec /\ [][StartsUnwaited]_vars => []DeletedAtRest
<1>1. Init => RestInv
  BY DEF Init, RestInv, MapInv, ThreadInv, DeletedAtRest
<1>2. IndInv /\ RestInv /\ [Next]_vars /\ [StartsUnwaited]_vars => RestInv'
  <2> SUFFICES ASSUME IndInv, RestInv, [Next]_vars, [StartsUnwaited]_vars PROVE RestInv'
    OBVIOUS
  <2>1. CASE UNCHANGED vars
    BY <2>1 DEF vars, moduleVars, nodeVars, threadVars, handleVars, RestInv, MapInv, ThreadInv,
       DeletedAtRest, At
  <2>2. CASE StartsUnwaited
    <3>1. ASSUME NEW h \in Handle, User(h) PROVE RestInv'
      BY <3>1, RestUser
    <3>2. ASSUME NEW h \in Handle, HandleStep(h) PROVE RestInv'
      BY <2>2, <3>2, RestCall DEF HandleStep
    <3>3. ASSUME NEW t \in Thread, NEW m \in Module, EntryStep(t, m) \/ EndsItself(t, m)
          PROVE  RestInv'
      BY <3>3, RestEntry
    <3>4. ASSUME NEW t \in Thread, EntryCount(t) PROVE RestInv'
      <4>1. /\ \A u \in Thread : pc'[u] = pc[u] \/ (pc[u] = "count" /\ pc'[u] = "done")
            /\ UNCHANGED <<self_ptr, thread, object, is_waiting, module_map, of, module, todo>>
        BY <3>4 DEF EntryCount, moduleVars, nodeVars, handleVars, IndInv, TypeOK
      <4>2. MapInv'
        BY <4>1 DEF RestInv, MapInv
      <4>3. ThreadInv'
        <5>1. TypeOK
          BY DEF IndInv
        <5>2. ASSUME NEW n \in Module, NEW u \in Thread, thread[n] = u
              PROVE  self_ptr'[n] \/ is_waiting[n] \/ (self_ptr'[n] = self_ptr[n] /\ pc'[u] = pc[u])
          <6>1. self_ptr[n] \/ pc[u] \in {"remove", "detach"} \/ is_waiting[n]
            BY <5>2, ConstantsAssumption DEF RestInv, ThreadInv
          <6> QED BY <4>1, <6>1
        <5> QED BY <4>1, <5>1, <5>2, SameJoiners DEF RestInv
      <4> QED BY <4>1, <4>2, <4>3 DEF RestInv, DeletedAtRest
    <3> QED BY <2>1, <3>1, <3>2, <3>3, <3>4 DEF Next, Entry
  <2> QED BY <2>1, <2>2
<1>3. RestInv => DeletedAtRest
  BY DEF RestInv
<1> QED BY <1>1, <1>2, <1>3, Invariance, PTL DEF Spec
=============================================================================
