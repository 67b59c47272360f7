------------------------- MODULE TaskRunnerProofs -------------------------
(***************************************************************************)
(* Proofs about the task runner, for every makefile and command line.      *)
(***************************************************************************)
EXTENDS TaskRunner, SequenceTheorems, FunctionTheorems, FiniteSetTheorems,
        TLAPS

-----------------------------------------------------------------------------
(* Lemmas about what a task pulls in.                                      *)

LEMMA PullsAreTasks ==
  ASSUME NEW ts, NEW i \in DOMAIN ts
  PROVE  Pulls(ts, i) \subseteq DOMAIN ts
BY DEF Pulls, FindByName

LEMMA ClosureContains ==
  ASSUME NEW ts, NEW S \in SUBSET DOMAIN ts
  PROVE  S \subseteq Closure(ts, S)
BY DEF Closure

LEMMA ClosureClosed ==
  ASSUME NEW ts, NEW S, NEW i \in Closure(ts, S), NEW j \in Pulls(ts, i)
  PROVE  j \in Closure(ts, S)
<1>1. j \in DOMAIN ts
  BY PullsAreTasks DEF Closure
<1>2. \A C \in ClosedSets(ts) : S \subseteq C => i \in C
  BY DEF Closure
<1>3. \A C \in ClosedSets(ts) : i \in C => j \in C
  <2>1. i \in DOMAIN ts
    BY DEF Closure
  <2>2. <<i, j>> \in {i} \X Pulls(ts, i) /\ <<i, j>>[1] = i /\ <<i, j>>[2] = j
    OBVIOUS
  <2>3. QED
    BY <2>2 DEF ClosedSets
<1>4. QED
  BY <1>1, <1>2, <1>3 DEF Closure

LEMMA ClosureLeast ==
  ASSUME NEW ts, NEW S, NEW C \in ClosedSets(ts), S \subseteq C
  PROVE  Closure(ts, S) \subseteq C
BY DEF Closure

LEMMA ReachStep ==
  ASSUME NEW ts, NEW i \in DOMAIN ts, NEW j \in Pulls(ts, i)
  PROVE  j \in Reach(ts, i)
BY PullsAreTasks, ClosureContains DEF Reach

LEMMA ReachFurther ==
  ASSUME NEW ts, NEW i, NEW j \in Reach(ts, i), NEW k \in Pulls(ts, j)
  PROVE  k \in Reach(ts, i)
BY ClosureClosed DEF Reach

LEMMA PulledByName ==
  ASSUME NEW ts, NEW i, NEW n \in Wants(ts, i), NEW j \in FindByName(ts, n)
  PROVE  j \in Pulls(ts, i)
BY DEF Pulls

-----------------------------------------------------------------------------
(* Lemmas about the call stack.                                            *)

LEMMA SetTopFacts ==
  ASSUME stack \in Seq(Frame), stack # <<>>, NEW f \in Frame
  PROVE  /\ SetTop(f) \in Seq(Frame)
         /\ Len(SetTop(f)) = Depth
         /\ SetTop(f)[Depth] = f
         /\ \A k \in DOMAIN stack : k # Depth => SetTop(f)[k] = stack[k]
         /\ SetTop(f) # <<>>
         /\ DOMAIN SetTop(f) = DOMAIN stack
         /\ Depth \in DOMAIN stack /\ Depth \in Nat /\ Depth > 0
         /\ DOMAIN stack = 1..Depth
BY DEF SetTop, Depth

LEMMA PushFacts ==
  ASSUME NEW s \in Seq(Frame), NEW f \in Frame
  PROVE  /\ Append(s, f) \in Seq(Frame)
         /\ Len(Append(s, f)) = Len(s) + 1
         /\ Append(s, f)[Len(s) + 1] = f
         /\ \A k \in DOMAIN s : Append(s, f)[k] = s[k]
         /\ DOMAIN Append(s, f) = 1..(Len(s) + 1)
         /\ DOMAIN s = 1..Len(s) /\ Len(s) \in Nat
OBVIOUS

LEMMA PopFacts ==
  ASSUME stack \in Seq(Frame), stack # <<>>
  PROVE  /\ SubSeq(stack, 1, Depth - 1) \in Seq(Frame)
         /\ Len(SubSeq(stack, 1, Depth - 1)) = Depth - 1
         /\ \A k \in 1..(Depth - 1) : SubSeq(stack, 1, Depth - 1)[k] = stack[k]
         /\ DOMAIN SubSeq(stack, 1, Depth - 1) = 1..(Depth - 1)
         /\ DOMAIN stack = 1..Depth
         /\ Depth \in Nat /\ Depth > 0
<1>1. Depth \in Nat /\ Depth > 0 /\ DOMAIN stack = 1..Depth
  BY DEF Depth
<1>2. \A k \in 1..(Depth - 1) : stack[k] \in Frame
  BY <1>1
<1>3. QED
  BY <1>1, <1>2, SubSeqProperties, LenProperties

LEMMA TopFrame ==
  ASSUME stack \in Seq(Frame), stack # <<>>
  PROVE  /\ Top \in Frame
         /\ Depth \in DOMAIN stack
         /\ Depth \in Nat /\ Depth > 0
         /\ DOMAIN stack = 1..Depth
BY DEF Top, Depth

LEMMA RunTaskFacts ==
  ASSUME TypeOK, NEW n \in Name, NEW s \in Seq(Frame), RunTask(n, s)
  PROVE  /\ stack' \in Seq(Frame)
         /\ \/ /\ FindByName(tasks, n) = {}
               /\ status' = "panicking"
               /\ stack' = s
            \/ /\ FindByName(tasks, n) # {}
               /\ status' = status
               /\ Len(stack') = Len(s) + 1
               /\ DOMAIN stack' = 1..(Len(s) + 1)
               /\ \A k \in DOMAIN s : stack'[k] = s[k]
               /\ stack'[Len(s) + 1] = NewFrame(n)
<1>1. NewFrame(n) \in Frame
  BY DEF TypeOK, Frame, Phase, NewFrame
<1>2. QED
  BY <1>1, PushFacts DEF RunTask

LEMMA TaskFacts ==
  ASSUME TypeOK, NEW i \in DOMAIN tasks
  PROVE  /\ tasks[i].name \in Name
         /\ tasks[i].deps \in Seq(Name)
         /\ i \in Nat /\ i > 0
BY DefAssumption DEF TypeOK, Task

-----------------------------------------------------------------------------
(* Type correctness.                                                       *)

\* What keeps the types: a busy frame's position is a task, callers are busy,
\* and nothing has run while tasks are added.
Shape ==
  /\ TypeOK
  /\ Untouched
  /\ CallersWait
  /\ \A k \in Busy : stack[k].at \in DOMAIN tasks

LEMMA ShapeInit == Init => Shape
BY ProgramsAssumption DEF Init, Shape, TypeOK, Untouched, CallersWait, Busy, Prefix

\* Steps that only replace the innermost frame.
LEMMA ShapeSetTop ==
  ASSUME Shape, stack # <<>>, NEW f \in Frame, stack' = SetTop(f), tasks' = tasks,
         f.phase # "match" => f.at \in DOMAIN tasks
  PROVE  /\ stack' \in Seq(Frame)
         /\ CallersWait'
         /\ \A k \in Busy' : stack'[k].at \in DOMAIN tasks
         /\ stack' # <<>>
<1>1. stack \in Seq(Frame)
  BY DEF Shape, TypeOK
<1>2. QED
  BY <1>1, SetTopFacts DEF Shape, CallersWait, Busy, Depth

\* Steps that call runTask from the innermost frame.
LEMMA ShapeCall ==
  ASSUME Shape, stack # <<>>, NEW f \in Frame, NEW n \in Name, RunTask(n, SetTop(f)),
         tasks' = tasks, f.phase \in {"hooks", "deps"}, f.at \in DOMAIN tasks
  PROVE  /\ stack' \in Seq(Frame)
         /\ CallersWait'
         /\ \A k \in Busy' : stack'[k].at \in DOMAIN tasks
         /\ status' \in {status, "panicking"}
<1> DEFINE s == SetTop(f)
<1>1. stack \in Seq(Frame)
  BY DEF Shape, TypeOK
<1>2. /\ s \in Seq(Frame)
      /\ Len(s) = Depth
      /\ s[Depth] = f
      /\ \A k \in DOMAIN stack : k # Depth => s[k] = stack[k]
      /\ DOMAIN s = 1..Depth
      /\ DOMAIN stack = 1..Depth
      /\ Depth \in Nat /\ Depth > 0
  BY <1>1, SetTopFacts
<1> HIDE DEF s
<1>3. RunTask(n, s)
  BY DEF s
<1>4. \A k \in 1..Depth : k < Depth => stack[k].phase \in {"hooks", "deps"} /\ stack[k].at \in DOMAIN tasks
  BY <1>2 DEF Shape, CallersWait, Busy
<1>5. \A k \in 1..Depth : s[k].phase \in {"hooks", "deps"} /\ s[k].at \in DOMAIN tasks
  BY <1>2, <1>4
<1>6. CASE FindByName(tasks, n) = {}
  BY <1>2, <1>3, <1>5, <1>6, RunTaskFacts DEF Shape, CallersWait, Busy, Depth
<1>7. CASE FindByName(tasks, n) # {}
  <2>1. /\ stack' \in Seq(Frame)
        /\ status' = status
        /\ DOMAIN stack' = 1..(Depth + 1)
        /\ Len(stack') = Depth + 1
        /\ \A k \in 1..Depth : stack'[k] = s[k]
        /\ stack'[Depth + 1].phase = "match"
    <3>1. TypeOK
      BY DEF Shape
    <3>2. NewFrame(n).phase = "match"
      BY DEF NewFrame
    <3>3. QED
      BY <1>2, <1>3, <1>7, <3>1, <3>2, RunTaskFacts
  <2>2. QED
    BY <2>1, <1>2, <1>5 DEF CallersWait, Busy, Depth
<1>8. QED
  BY <1>6, <1>7

\* Steps that leave the innermost call.
LEMMA ShapePop ==
  ASSUME Shape, stack # <<>>, stack' = SubSeq(stack, 1, Depth - 1), tasks' = tasks
  PROVE  /\ stack' \in Seq(Frame)
         /\ CallersWait'
         /\ \A k \in Busy' : stack'[k].at \in DOMAIN tasks
         /\ Top.saved \in Prefix
<1>1. stack \in Seq(Frame)
  BY DEF Shape, TypeOK
<1>2. Top.saved \in Prefix
  BY <1>1, TopFrame DEF Frame
<1>3. QED
  BY <1>1, <1>2, PopFacts DEF Shape, CallersWait, Busy, Depth

LEMMA ShapeStep == Shape /\ [Next]_vars => Shape'
<1> SUFFICES ASSUME Shape, [Next]_vars PROVE Shape'
  OBVIOUS
<1> USE DEF Shape
<1>0. stack \in Seq(Frame) /\ TypeOK
  BY DEF TypeOK
<1>t. stack # <<>> => Depth \in DOMAIN stack /\ Top = stack[Depth] /\ Top \in Frame
  BY <1>0, TopFrame DEF Top
<1>b. stack # <<>> /\ Top.phase # "match" => Cur \in DOMAIN tasks
  BY <1>t DEF Busy, Cur
<1>1. CASE AddTask
  <2>1. Head(pending) \in Def /\ Head(pending).tasks \in Seq(Def)
    BY <1>1, DefAssumption DEF AddTask, Task, TypeOK
  <2>2. pending' \in Seq(Def) /\ tasks' \in Seq(Def)
    BY <2>1, <1>1 DEF AddTask, TypeOK
  <2>3. started' = <<>> /\ stack' = <<>> /\ ran' = {} /\ done' = {} /\ argAt' = 0
    BY <1>1 DEF AddTask, Untouched
  <2>4. QED
    BY <2>2, <2>3, <1>1 DEF AddTask, TypeOK, Untouched, CallersWait, Busy
<1>2. CASE Run
  <2>1. tasks' \in Seq(Def)
    BY <1>2, ProgramsAssumption DEF Run, TypeOK
  <2>2. args' \in Seq(Name)
    <3>1. Given \in Seq(Name)
      BY ProgramsAssumption DEF TypeOK, Given
    <3>2. CASE tasks' = <<>>
      BY <1>2, <3>1, <3>2 DEF Run
    <3>3. CASE tasks' # <<>>
      <4>1. tasks'[1] \in Def
        BY <2>1, <3>3
      <4>2. <<tasks'[1].name>> \in Seq(Name)
        BY <4>1, DefAssumption DEF Task
      <4>3. args' = IF Given = <<>> THEN <<tasks'[1].name>> ELSE Given
        BY <1>2, <3>3 DEF Run
      <4>4. QED
        BY <3>1, <4>2, <4>3
    <3>4. QED
      BY <3>2, <3>3
  <2>3. started' = <<>> /\ stack' = <<>> /\ ran' = {} /\ done' = {} /\ argAt' = 0
    BY <1>2 DEF Run, Untouched
  <2>4. QED
    BY <2>1, <2>2, <2>3, <1>2 DEF Run, TypeOK, Untouched, CallersWait, Busy
<1>3. CASE NextArg
  <2>1. args[argAt + 1] \in Name
    BY <1>3 DEF NextArg, TypeOK
  <2>2. <<>> \in Seq(Frame) /\ Len(<<>>) = 0
    OBVIOUS
  <2>3. /\ stack' \in Seq(Frame)
        /\ status' \in {status, "panicking"}
        /\ stack' = <<>> \/ (DOMAIN stack' = 1..1 /\ Len(stack') = 1 /\ stack'[1].phase = "match")
    <3>1. NewFrame(args[argAt + 1]).phase = "match"
      BY DEF NewFrame
    <3>2. RunTask(args[argAt + 1], <<>>)
      BY <1>3 DEF NextArg
    <3> DEFINE n == args[argAt + 1]
               s == <<>>
    <3>3. n \in Name /\ s \in Seq(Frame) /\ RunTask(n, s) /\ Len(s) = 0 /\ NewFrame(n).phase = "match"
      BY <2>1, <2>2, <3>1, <3>2
    <3> HIDE DEF n, s
    <3>4. CASE FindByName(tasks, n) = {}
      <4>1. stack' = s /\ status' = "panicking" /\ s = <<>>
        BY <1>0, <3>3, <3>4, RunTaskFacts DEF s
      <4>2. QED
        BY <4>1, <3>3
    <3>5. CASE FindByName(tasks, n) # {}
      <4>1. /\ stack' \in Seq(Frame)
            /\ status' = status
            /\ Len(stack') = Len(s) + 1
            /\ stack'[Len(s) + 1] = NewFrame(n)
        BY <1>0, <3>3, <3>5, RunTaskFacts
      <4>2. QED
        BY <4>1, <3>3
    <3>6. QED
      BY <3>4, <3>5
  <2>4. CallersWait' /\ Busy' = {}
    BY <2>3 DEF CallersWait, Busy, Depth
  <2>5. QED
    BY <2>3, <2>4, <1>3 DEF NextArg, TypeOK, Untouched
<1>4. CASE Finish
  BY <1>4 DEF Finish, TypeOK, Untouched, CallersWait, Busy, Depth
<1>5. CASE Skip
  <2> PICK i \in ran : stack' = SetTop([Top EXCEPT !.at = i])
    BY <1>5 DEF Skip
  <2>0. i \in DOMAIN tasks /\ i \in Nat
    BY TaskFacts DEF TypeOK
  <2>1. [Top EXCEPT !.at = i] \in Frame /\ [Top EXCEPT !.at = i].phase = "match"
    BY <1>5, <1>t, <2>0 DEF Skip, Active, Frame
  <2>2. QED
    BY <1>5, <2>1, ShapeSetTop DEF Skip, Active, TypeOK, Untouched
<1>6. CASE Pick
  <2> DEFINE f(i) == [Top EXCEPT !.at = i, !.phase = "hooks", !.hook = 0, !.dep = 0]
  <2> PICK i \in DOMAIN tasks : ran' = ran \cup {i} /\ stack' = SetTop(f(i))
    BY <1>6 DEF Pick
  <2>1. f(i) \in Frame /\ f(i).at = i
    BY <1>6, <1>t, TaskFacts DEF Pick, Active, Frame, Phase
  <2> HIDE DEF f
  <2>2. QED
    BY <1>6, <2>1, ShapeSetTop DEF Pick, Active, TypeOK, Untouched
<1>7. CASE Return
  BY <1>7, ShapePop DEF Return, Active, TypeOK, Untouched
<1>8. CASE CallHook
  <2> DEFINE f(h) == [Top EXCEPT !.hook = h]
  <2> PICK h \in DOMAIN tasks : RunTask(tasks[h].name, SetTop(f(h)))
    BY <1>8 DEF CallHook
  <2>1. f(h) \in Frame /\ f(h).phase = "hooks" /\ f(h).at \in DOMAIN tasks
    BY <1>8, <1>t, <1>b, TaskFacts DEF CallHook, Active, Frame, Cur
  <2>2. tasks[h].name \in Name
    BY TaskFacts
  <2> HIDE DEF f
  <2>3. QED
    BY <1>8, <2>1, <2>2, ShapeCall DEF CallHook, Active, TypeOK, Untouched
<1>9. CASE HooksDone
  <2>1. LET f == [Top EXCEPT !.phase = "deps"] IN f \in Frame /\ f.at \in DOMAIN tasks
    BY <1>9, <1>t, <1>b DEF HooksDone, Active, Frame, Phase, Cur
  <2>2. QED
    BY <1>9, <2>1, ShapeSetTop DEF HooksDone, Active, TypeOK, Untouched
<1>10. CASE CallDep
  <2> DEFINE f == [Top EXCEPT !.dep = @ + 1]
  <2>1. f \in Frame /\ f.phase = "deps" /\ f.at \in DOMAIN tasks
    BY <1>10, <1>t, <1>b DEF CallDep, Active, Frame, Cur
  <2>2. DepsOf(Top)[Top.dep + 1] \in Name
    BY <1>10, <1>t, <1>b, TaskFacts DEF CallDep, Active, DepsOf, Cur, Frame
  <2>3. RunTask(DepsOf(Top)[Top.dep + 1], SetTop(f))
    BY <1>10 DEF CallDep
  <2> HIDE DEF f
  <2>4. QED
    BY <1>10, <2>1, <2>2, <2>3, ShapeCall DEF CallDep, Active, TypeOK, Untouched
<1>11. CASE Begin
  <2>1. Cur \in DOMAIN tasks /\ stack # <<>> /\ tasks[Cur].name \in Name
    BY <1>11, <1>b, TaskFacts DEF Begin, Active
  <2>2. CASE tasks[Cur].hasRun
    <3> DEFINE f == [Top EXCEPT !.phase = "body"]
    <3>1. f \in Frame /\ f.at \in DOMAIN tasks
      BY <2>1, <1>t DEF Frame, Phase, Cur
    <3>2. stack' = SetTop(f) /\ started' = Append(started, Cur) /\ tasks' = tasks
      BY <1>11, <2>2 DEF Begin
    <3>3. started' \in Seq(DOMAIN tasks)
      BY <3>2, <2>1 DEF TypeOK
    <3> HIDE DEF f
    <3>4. QED
      BY <1>11, <2>1, <2>2, <3>1, <3>2, <3>3, ShapeSetTop DEF Begin, Active, TypeOK, Untouched, Prefix
  <2>3. CASE ~tasks[Cur].hasRun
    <3> DEFINE f == [Top EXCEPT !.phase = "match"]
    <3>1. f \in Frame /\ f.phase = "match"
      BY <2>1, <1>t DEF Frame, Phase
    <3>2. stack' = SetTop(f) /\ done' = done \cup {Cur} /\ tasks' = tasks
      BY <1>11, <2>3 DEF Begin
    <3> HIDE DEF f
    <3>4. QED
      BY <1>11, <2>1, <2>3, <3>1, <3>2, ShapeSetTop DEF Begin, Active, TypeOK, Untouched, Prefix
  <2>4. QED
    BY <2>2, <2>3
<1>12. CASE BodyReturns
  <2> DEFINE f == [Top EXCEPT !.phase = "match"]
  <2>1. f \in Frame /\ f.phase = "match" /\ Cur \in DOMAIN tasks
    BY <1>12, <1>t, <1>b DEF BodyReturns, Active, Frame, Phase
  <2>2. stack' = SetTop(f)
    BY <1>12 DEF BodyReturns
  <2> HIDE DEF f
  <2>3. QED
    BY <1>12, <2>1, <2>2, ShapeSetTop DEF BodyReturns, Active, TypeOK, Untouched
<1>13. CASE BodyPanics
  BY <1>13 DEF BodyPanics, Active, TypeOK, Untouched, CallersWait, Busy, Depth
<1>14. CASE Unwind
  <2>1. CASE stack # <<>>
    BY <1>14, <2>1, ShapePop DEF Unwind, TypeOK, Untouched
  <2>2. CASE stack = <<>>
    BY <1>14, <2>2 DEF Unwind, TypeOK, Untouched, CallersWait, Busy, Depth
  <2>3. QED
    BY <2>1, <2>2
<1>15. CASE UNCHANGED vars
  BY <1>15 DEF vars, TypeOK, Untouched, CallersWait, Busy, Depth
<1>16. QED
  BY <1>1, <1>2, <1>3, <1>4, <1>5, <1>6, <1>7, <1>8, <1>9, <1>10, <1>11, <1>12,
     <1>13, <1>14, <1>15 DEF Next, Step, Terminated

\* The values of every variable of the task runner stay within their types;
\* in particular the loops of runTask never leave the list of tasks.
THEOREM TypeCorrect == Spec => []TypeOK
<1>1. Spec => []Shape
  BY ShapeInit, ShapeStep, PTL DEF Spec
<1>2. Shape => TypeOK
  BY DEF Shape
<1>3. QED
  BY <1>1, <1>2, PTL
-----------------------------------------------------------------------------
(* The inductive invariant.  First, how steps change the stack, frame by   *)
(* frame: the innermost frame becomes f (Sets), or does and calls runTask  *)
(* for n (Calls), or returns (Pops).                                       *)

Sets(f) ==
  /\ Depth \in Nat /\ Depth > 0 /\ DOMAIN stack = 1..Depth
  /\ Depth' = Depth /\ DOMAIN stack' = 1..Depth
  /\ stack'[Depth] = f
  /\ \A k \in 1..Depth : k # Depth => stack'[k] = stack[k]

Calls(f, n) ==
  /\ Depth \in Nat /\ Depth > 0 /\ DOMAIN stack = 1..Depth
  /\ Depth' = Depth + 1 /\ DOMAIN stack' = 1..(Depth + 1)
  /\ stack'[Depth] = f
  /\ stack'[Depth + 1] = NewFrame(n)
  /\ \A k \in 1..Depth : k # Depth => stack'[k] = stack[k]

Pops ==
  /\ Depth \in Nat /\ Depth > 0 /\ DOMAIN stack = 1..Depth
  /\ Depth' = Depth - 1 /\ DOMAIN stack' = 1..(Depth - 1)
  /\ \A k \in 1..(Depth - 1) : stack'[k] = stack[k]

LEMMA SetTopSets ==
  ASSUME Shape, stack # <<>>, NEW f \in Frame, stack' = SetTop(f)
  PROVE  Sets(f)
<1>1. stack \in Seq(Frame)
  BY DEF Shape, TypeOK
<1>2. QED
  BY <1>1, SetTopFacts DEF Sets, Depth

LEMMA RunTaskCalls ==
  ASSUME Shape, stack # <<>>, NEW f \in Frame, NEW n \in Name, RunTask(n, SetTop(f))
  PROVE  \/ FindByName(tasks, n) = {} /\ status' = "panicking" /\ Sets(f)
         \/ FindByName(tasks, n) # {} /\ status' = status /\ Calls(f, n)
<1> DEFINE s == SetTop(f)
<1>1. stack \in Seq(Frame) /\ TypeOK
  BY DEF Shape, TypeOK
<1>2. /\ s \in Seq(Frame)
      /\ Len(s) = Depth
      /\ s[Depth] = f
      /\ \A k \in DOMAIN stack : k # Depth => s[k] = stack[k]
      /\ DOMAIN s = 1..Depth
      /\ DOMAIN stack = 1..Depth
      /\ Depth \in Nat /\ Depth > 0
  BY <1>1, SetTopFacts
<1>3. CASE FindByName(tasks, n) = {}
  <2>1. stack' = SetTop(f) /\ status' = "panicking"
    BY <1>3 DEF RunTask
  <2>2. QED
    BY <1>3, <2>1, SetTopSets
<1>4. CASE FindByName(tasks, n) # {}
  <2>1. RunTask(n, s)
    OBVIOUS
  <2> HIDE DEF s
  <2>2. /\ status' = status
        /\ DOMAIN stack' = 1..(Depth + 1)
        /\ Len(stack') = Depth + 1
        /\ \A k \in 1..Depth : stack'[k] = s[k]
        /\ stack'[Depth + 1] = NewFrame(n)
    BY <1>1, <1>2, <1>4, <2>1, RunTaskFacts
  <2>3. Depth' = Depth + 1
    BY <2>2 DEF Depth
  <2>4. Calls(f, n)
    BY <1>2, <2>2, <2>3 DEF Calls
  <2>5. QED
    BY <1>4, <2>2, <2>4
<1>5. QED
  BY <1>3, <1>4

LEMMA PopPops ==
  ASSUME Shape, stack # <<>>, stack' = SubSeq(stack, 1, Depth - 1)
  PROVE  Pops
<1>1. stack \in Seq(Frame)
  BY DEF Shape, TypeOK
<1>2. QED
  BY <1>1, PopFacts DEF Pops, Depth

LEMMA HandledKept ==
  ASSUME tasks' = tasks, ran \subseteq ran', NEW k, NEW n, Handled(k, n),
         k < Depth => \/ FindByName(tasks, stack[k + 1].name) \subseteq ran'
                      \/ k < Depth' /\ stack'[k + 1].name = stack[k + 1].name
  PROVE  Handled(k, n)'
BY DEF Handled

\* A frame that stays as it is keeps its loops' invariant, unless its call is
\* abandoned.
LEMMA PassedKept ==
  ASSUME tasks' = tasks, ran \subseteq ran', NEW k \in DOMAIN stack, Passed(k),
         k \in DOMAIN stack', stack'[k] = stack[k],
         k < Depth => \/ FindByName(tasks, stack[k + 1].name) \subseteq ran'
                      \/ k < Depth' /\ stack'[k + 1].name = stack[k + 1].name
  PROVE  Passed(k)'
<1>1. \A n : Handled(k, n) => Handled(k, n)'
  BY HandledKept
<1>2. k \in Busy' <=> k \in Busy
  BY DEF Busy
<1>3. HooksOf(stack[k])' = HooksOf(stack[k]) /\ DepsOf(stack[k])' = DepsOf(stack[k])
  BY DEF HooksOf, DepsOf
<1>4. QED
  BY <1>1, <1>2, <1>3 DEF Passed

\* The innermost frame's step keeps its callers' loop invariants.
LEMMA CallersKept ==
  ASSUME Shape, NEW f, NEW n, Sets(f) \/ Calls(f, n), f.name = Top.name,
         tasks' = tasks, ran \subseteq ran', LoopsPassed
  PROVE  \A k \in 1..(Depth - 1) : Passed(k)'
<1> SUFFICES ASSUME NEW k \in 1..(Depth - 1) PROVE Passed(k)'
  OBVIOUS
<1>1. /\ Depth \in Nat /\ Depth > 0 /\ DOMAIN stack = 1..Depth
      /\ stack'[Depth] = f
      /\ 1..Depth \subseteq DOMAIN stack' /\ Depth' \in {Depth, Depth + 1}
      /\ \A j \in 1..Depth : j # Depth => stack'[j] = stack[j]
  BY DEF Sets, Calls
<1>2. k \in DOMAIN stack /\ k \in DOMAIN stack' /\ stack'[k] = stack[k] /\ k < Depth'
  BY <1>1
<1>3. stack'[k + 1].name = stack[k + 1].name
  BY <1>1 DEF Top
<1>4. Passed(k)
  BY <1>2 DEF LoopsPassed
<1>5. QED
  BY <1>2, <1>3, <1>4, PassedKept

LEMMA ArgsKept ==
  ASSUME Shape, NEW f, NEW n, Sets(f) \/ Calls(f, n), f.name = Top.name,
         tasks' = tasks, args' = args, argAt' = argAt, ran \subseteq ran', ArgsPassed
  PROVE  ArgsPassed'
<1>1. /\ Depth \in Nat /\ Depth > 0 /\ DOMAIN stack = 1..Depth
      /\ stack'[Depth] = f /\ Depth' >= Depth /\ Depth' \in Nat
      /\ \A j \in 1..Depth : j # Depth => stack'[j] = stack[j]
  BY DEF Sets, Calls
<1>2. 0 < Depth' /\ stack'[0 + 1].name = stack[0 + 1].name
  BY <1>1 DEF Top
<1>3. \A a : Handled(0, a) => Handled(0, a)'
  BY <1>2, HandledKept
<1>4. QED
  BY <1>3 DEF ArgsPassed

\* What the invariant says of the frames by themselves.
Frames ==
  /\ BusyFrames
  /\ Chained
  /\ Descends
  /\ stack # <<>> => stack[1].saved = NoPrefix

\* Steps of the innermost frame that do not pick a new task keep it.
LEMMA FramesKept ==
  ASSUME Shape, stack # <<>>, Frames, NEW f, NEW n,
         Sets(f) \/ (Calls(f, n) /\ n \in Wants(tasks, f.at)),
         f.name = Top.name, f.saved = Top.saved,
         f.phase # "match" => Top.phase # "match" /\ f.at = Top.at,
         tasks' = tasks, args' = args, argAt' = argAt, ran \subseteq ran',
         \/ done' = done
         \/ Top.phase # "match" /\ f.phase = "match" /\ done' = done \cup {Top.at}
  PROVE  Frames'
<1>1. /\ Depth \in Nat /\ Depth > 0 /\ DOMAIN stack = 1..Depth
      /\ stack'[Depth] = f
      /\ \A j \in 1..Depth : j # Depth => stack'[j] = stack[j]
      /\ \/ DOMAIN stack' = 1..Depth
         \/ DOMAIN stack' = 1..(Depth + 1) /\ stack'[Depth + 1] = NewFrame(n)
                                           /\ n \in Wants(tasks, f.at)
  BY DEF Sets, Calls
<1>2. NewFrame(n).phase = "match" /\ NewFrame(n).name = n
  BY DEF NewFrame
<1>3. \A k \in Busy' : /\ k \in Busy
                       /\ stack'[k].at = stack[k].at
                       /\ stack'[k].name = stack[k].name
                       /\ done' # done => k # Depth
  BY <1>1, <1>2 DEF Busy, Top
<1>4. BusyFrames'
  <2>1. \A k \in Busy' : stack'[k].at \notin done'
    BY <1>1, <1>3 DEF Frames, BusyFrames, Busy, Top
  <2>2. QED
    BY <2>1, <1>3 DEF Frames, BusyFrames
<1>5. Chained'
  <2>1. stack'[1].name = stack[1].name
    BY <1>1 DEF Top
  <2>2. ASSUME NEW k \in DOMAIN stack', k # 1
        PROVE  stack'[k].name \in Wants(tasks, stack'[k - 1].at)
    <3>1. CASE k = Depth + 1
      BY <1>1, <1>2, <3>1
    <3>2. CASE k # Depth + 1
      <4>1. k \in 1..Depth /\ k - 1 \in 1..Depth /\ k - 1 # Depth
        BY <1>1, <2>2, <3>2
      <4>2. stack'[k].name = stack[k].name /\ stack'[k - 1] = stack[k - 1]
        BY <1>1, <4>1 DEF Top
      <4>3. QED
        BY <1>1, <2>2, <4>1, <4>2 DEF Frames, Chained
    <3>3. QED
      BY <3>1, <3>2
  <2>3. argAt # 0 /\ stack[1].name = args[argAt]
    BY <1>1 DEF Frames, Chained
  <2>4. QED
    BY <2>1, <2>2, <2>3 DEF Chained
<1>6. Descends'
  BY <1>3 DEF Frames, Descends
<1>7. stack'[1].saved = NoPrefix
  BY <1>1 DEF Frames, Top
<1>8. QED
  BY <1>4, <1>5, <1>6, <1>7 DEF Frames

LEMMA FramesPopped ==
  ASSUME Shape, stack # <<>>, Frames, Pops,
         tasks' = tasks, args' = args, argAt' = argAt, ran \subseteq ran', done' = done
  PROVE  Frames' /\ Busy' \subseteq Busy /\ \A k \in Busy' : stack'[k] = stack[k]
<1>1. /\ Depth \in Nat /\ Depth > 0 /\ DOMAIN stack = 1..Depth
      /\ DOMAIN stack' = 1..(Depth - 1)
      /\ \A j \in 1..(Depth - 1) : stack'[j] = stack[j] /\ j \in DOMAIN stack
  BY DEF Pops
<1>2. \A k \in Busy' : k \in Busy /\ stack'[k] = stack[k]
  BY <1>1 DEF Busy
<1>3. BusyFrames' /\ Descends'
  BY <1>2 DEF Frames, BusyFrames, Descends
<1>4. Chained'
  <2>1. ASSUME NEW k \in DOMAIN stack'
        PROVE  IF k = 1 THEN argAt # 0 /\ stack'[1].name = args[argAt]
               ELSE stack'[k].name \in Wants(tasks, stack'[k - 1].at)
    <3>1. k \in DOMAIN stack /\ stack'[k] = stack[k] /\ (k # 1 => stack'[k - 1] = stack[k - 1])
      BY <1>1
    <3>2. QED
      BY <3>1 DEF Frames, Chained
  <2>2. QED
    BY <2>1 DEF Chained
<1>5. stack' # <<>> => stack'[1].saved = NoPrefix
  BY <1>1 DEF Frames
<1>6. QED
  BY <1>2, <1>3, <1>4, <1>5 DEF Frames

LEMMA InvParts ==
  ASSUME IInv
  PROVE  /\ Shape /\ TypeOK /\ Frames /\ done \subseteq ran
         /\ ran \subseteq DOMAIN tasks
         /\ stack \in Seq(Frame)
         /\ (stack # <<>> => Top \in Frame /\ Depth \in DOMAIN stack /\ Depth \in Nat /\ Depth > 0)
<1>1. TypeOK /\ stack \in Seq(Frame) /\ ran \subseteq DOMAIN tasks
  BY DEF IInv, TypeOK
<1>2. QED
  BY <1>1, TopFrame DEF IInv, Shape, Frames, BusyFrames

\* A step of the innermost frame that picks no new task, once its own loops
\* are known to be passed.
LEMMA InnerStep ==
  ASSUME IInv, stack # <<>>, status = "running", NEW f, NEW n,
         Sets(f) \/ (Calls(f, n) /\ n \in Wants(tasks, f.at)),
         f.name = Top.name, f.saved = Top.saved,
         f.phase # "match" => Top.phase # "match" /\ f.at = Top.at,
         tasks' = tasks, args' = args, argAt' = argAt, ran' = ran,
         done' = IF Top.phase # "match" /\ f.phase = "match" THEN done \cup {Top.at} ELSE done,
         NEW d, d = Depth, Passed(d)'
  PROVE  Frames' /\ LoopsPassed' /\ ArgsPassed' /\ Accounted'
<1>1. Shape /\ Frames /\ LoopsPassed /\ ArgsPassed /\ Accounted
  BY InvParts DEF IInv
<1>2. Frames'
  BY <1>1, FramesKept
<1>3. ArgsPassed'
  BY <1>1, ArgsKept
<1>4. \A k \in 1..(Depth - 1) : Passed(k)'
  BY <1>1, CallersKept
<1>5. /\ Depth \in Nat /\ Depth > 0 /\ DOMAIN stack = 1..Depth
      /\ stack'[Depth] = f
      /\ \A j \in 1..Depth : j # Depth => stack'[j] = stack[j]
      /\ \/ DOMAIN stack' = 1..Depth
         \/ DOMAIN stack' = 1..(Depth + 1) /\ stack'[Depth + 1] = NewFrame(n)
  BY DEF Sets, Calls
<1>6. ASSUME NEW k, k = Depth + 1, stack'[k] = NewFrame(n) PROVE Passed(k)'
  <2>1. stack'[k].phase = "match" /\ stack'[k].at = 0
    BY <1>6 DEF NewFrame
  <2>2. \A m \in FindByName(tasks', stack'[k].name) : ~(m <= 0)
    <3>1. \A m \in DOMAIN tasks : ~(m <= 0)
      BY InvParts, TaskFacts
    <3>2. QED
      BY <3>1 DEF FindByName
  <2>3. ~(k \in Busy')
    BY <2>1 DEF Busy
  <2>4. QED
    BY <2>1, <2>2, <2>3 DEF Passed
<1>7. LoopsPassed'
  <2> SUFFICES ASSUME NEW k \in DOMAIN stack' PROVE Passed(k)'
    BY DEF LoopsPassed
  <2>1. k \in 1..(Depth - 1) \/ k = Depth \/ (k = Depth + 1 /\ stack'[Depth + 1] = NewFrame(n))
    BY <1>5
  <2>2. QED
    BY <2>1, <1>4, <1>6
<1>8. Accounted'
  <2> SUFFICES ASSUME NEW i \in ran, i \notin done'
               PROVE  \E k \in Busy' : stack'[k].at = i
    BY DEF Accounted
  <2>1. PICK k \in Busy : stack[k].at = i
    BY <1>1 DEF Accounted
  <2>2. CASE k = Depth
    BY <1>5, <2>1, <2>2 DEF Busy, Top
  <2>3. CASE k # Depth
    BY <1>5, <2>1, <2>3 DEF Busy
  <2>4. QED
    BY <2>2, <2>3
<1>9. QED
  BY <1>2, <1>3, <1>7, <1>8

LEMMA Assemble ==
  ASSUME Shape', Frames', done' \subseteq ran',
         status' = "running" => LoopsPassed' /\ ArgsPassed' /\ Accounted',
         DoneClosed', StartedOnce', ExactlyTheRequired', PrefixScoped'
  PROVE  IInv'
BY DEF IInv, Shape, Frames

\* A step of the innermost frame that neither completes nor starts a task.
LEMMA QuietStep ==
  ASSUME IInv, Shape', stack # <<>>, status = "running", NEW f, NEW n,
         \/ Sets(f) /\ status' = "running"
         \/ Calls(f, n) /\ n \in Wants(tasks, f.at) /\ status' = "running"
         \/ Sets(f) /\ status' = "panicking",
         f.name = Top.name, f.saved = Top.saved,
         f.phase # "body" /\ Top.phase # "body",
         f.phase # "match" <=> Top.phase # "match",
         f.phase # "match" => f.at = Top.at,
         tasks' = tasks, args' = args, argAt' = argAt, ran' = ran, prefix' = prefix,
         done' = done, started' = started,
         NEW d, d = Depth, status' = "running" => Passed(d)'
  PROVE  IInv'
<1>1. Shape /\ Frames /\ DoneClosed /\ StartedOnce /\ ExactlyTheRequired /\ PrefixScoped
      /\ done \subseteq ran
  BY InvParts DEF IInv
<1>2. Frames'
  BY <1>1, FramesKept
<1>3. status' = "running" => LoopsPassed' /\ ArgsPassed' /\ Accounted'
  BY InnerStep
<1>4. /\ Depth \in Nat /\ Depth > 0 /\ DOMAIN stack = 1..Depth
      /\ stack'[Depth] = f
      /\ \A j \in 1..Depth : j # Depth => stack'[j] = stack[j]
      /\ \/ DOMAIN stack' = 1..Depth /\ Depth' = Depth
         \/ DOMAIN stack' = 1..(Depth + 1) /\ stack'[Depth + 1] = NewFrame(n) /\ Depth' = Depth + 1
  BY DEF Sets, Calls
<1>5. NewFrame(n).phase = "match"
  BY DEF NewFrame
<1>6. \A k \in Busy' : k \in Busy /\ stack'[k].at = stack[k].at
                       /\ (stack'[k].phase # "body" => stack[k].phase # "body")
  BY <1>4, <1>5 DEF Busy, Top
<1>7. DoneClosed'
  BY <1>1 DEF DoneClosed
<1>8. StartedOnce'
  BY <1>1, <1>6 DEF StartedOnce, AtMostOnce
<1>9. ExactlyTheRequired'
  BY <1>1 DEF ExactlyTheRequired
<1>10. PrefixScoped'
  <2>1. stack' # <<>>
    BY <1>4
  <2>2. Top'.phase # "body"
    BY <1>4, <1>5 DEF Top
  <2>3. QED
    BY <2>1, <2>2 DEF PrefixScoped, Active
<1>11. QED
  BY <1>1, <1>2, <1>3, <1>7, <1>8, <1>9, <1>10, Assemble

-----------------------------------------------------------------------------
(* Each action preserves the invariant.                                    *)

LEMMA SkipStep ==
  ASSUME IInv, Shape', Skip
  PROVE  IInv'
<1>1. Shape /\ stack # <<>> /\ status = "running" /\ Top.phase = "match" /\ Top \in Frame
      /\ Depth \in DOMAIN stack /\ ran \subseteq DOMAIN tasks
  BY InvParts DEF Skip, Active
<1>2. PICK i \in ran : IsNext(Matches(Top), Cur, i) /\ stack' = SetTop([Top EXCEPT !.at = i])
  BY DEF Skip
<1>3. PICK f : f = [Top EXCEPT !.at = i]
  OBVIOUS
<1>4. i \in Nat
  BY <1>1, InvParts, TaskFacts
<1>5. f \in Frame /\ f.phase = "match" /\ f.name = Top.name /\ f.saved = Top.saved /\ f.at = i
  BY <1>1, <1>3, <1>4 DEF Frame
<1>6. Sets(f)
  BY <1>1, <1>2, <1>3, <1>5, SetTopSets
<1>7. PICK d : d = Depth
  OBVIOUS
<1>8. Passed(d)'
  <2>1. stack'[d] = f /\ ~(d \in Busy')
    BY <1>5, <1>6, <1>7 DEF Sets, Busy
  <2>2. ASSUME NEW m \in FindByName(tasks, Top.name), m <= i PROVE m \in ran
    <3>1. m \in Nat /\ Cur \in Nat
      BY <1>1, InvParts, TaskFacts DEF FindByName, Frame, Cur
    <3>2. CASE m <= Cur
      <4>1. Passed(Depth)
        BY <1>1 DEF IInv, LoopsPassed
      <4>2. QED
        BY <4>1, <3>2 DEF Passed, Top, Cur
    <3>3. CASE Cur < m
      BY <1>2, <1>4, <2>2, <3>1, <3>3 DEF IsNext, Matches
    <3>4. QED
      BY <3>1, <3>2, <3>3
  <2>3. tasks' = tasks /\ ran' = ran
    BY DEF Skip
  <2>4. QED
    BY <1>5, <2>1, <2>2, <2>3 DEF Passed
<1>9. QED
  BY <1>1, <1>5, <1>6, <1>7, <1>8, QuietStep DEF Skip

LEMMA HooksDoneStep ==
  ASSUME IInv, Shape', HooksDone
  PROVE  IInv'
<1>1. Shape /\ stack # <<>> /\ status = "running" /\ Top.phase = "hooks" /\ Top \in Frame
      /\ Depth \in DOMAIN stack
  BY InvParts DEF HooksDone, Active
<1>2. PICK f : f = [Top EXCEPT !.phase = "deps"]
  OBVIOUS
<1>3. f \in Frame /\ f.phase = "deps" /\ f.name = Top.name /\ f.saved = Top.saved
      /\ f.at = Top.at /\ f.dep = Top.dep /\ f.hook = Top.hook
  BY <1>1, <1>2 DEF Frame, Phase
<1>4. Sets(f)
  BY <1>1, <1>2, <1>3, SetTopSets DEF HooksDone
<1>5. PICK d : d = Depth
  OBVIOUS
<1>6. Passed(d)'
  <2>1. stack'[d] = f /\ d \in Busy /\ stack[d] = Top
    BY <1>1, <1>3, <1>4, <1>5 DEF Sets, Busy, Top
  <2>2. tasks' = tasks /\ ran' = ran /\ Depth' = Depth /\ Depth \in Nat
    BY <1>4 DEF HooksDone, Sets
  <2>3. Passed(d)
    BY <1>1, <1>5 DEF IInv, LoopsPassed
  <2>4. \A n : Handled(d, n) => Handled(d, n)'
    BY <1>5, <2>2 DEF Handled
  <2>5. HooksOf(stack[d])' = HooksOf(Top) /\ DepsOf(stack[d])' = DepsOf(Top)
    BY <1>3, <2>1, <2>2 DEF HooksOf, DepsOf
  <2>6. \A h \in HooksOf(Top) : h <= Top.hook
    BY DEF HooksDone, Exhausted
  <2>7. QED
    BY <1>3, <2>1, <2>2, <2>3, <2>4, <2>5, <2>6 DEF Passed
<1>7. QED
  BY <1>1, <1>3, <1>4, <1>5, <1>6, QuietStep DEF HooksDone

LEMMA CallHookStep ==
  ASSUME IInv, Shape', CallHook
  PROVE  IInv'
<1>1. Shape /\ stack # <<>> /\ status = "running" /\ Top.phase = "hooks" /\ Top \in Frame
      /\ Depth \in DOMAIN stack
  BY InvParts DEF CallHook, Active
<1>2. PICK h \in DOMAIN tasks :
        /\ IsNext(HooksOf(Top), Top.hook, h)
        /\ RunTask(tasks[h].name, SetTop([Top EXCEPT !.hook = h]))
  BY DEF CallHook
<1>3. PICK f : f = [Top EXCEPT !.hook = h]
  OBVIOUS
<1>4. PICK n : n = tasks[h].name
  OBVIOUS
<1>5. h \in Nat /\ n \in Name
  BY <1>1, <1>4, InvParts, TaskFacts
<1>6. f \in Frame /\ f.phase = "hooks" /\ f.name = Top.name /\ f.saved = Top.saved
      /\ f.at = Top.at /\ f.dep = Top.dep /\ f.hook = h
  BY <1>1, <1>3, <1>5 DEF Frame
<1>7. \/ FindByName(tasks, n) = {} /\ status' = "panicking" /\ Sets(f)
      \/ FindByName(tasks, n) # {} /\ status' = status /\ Calls(f, n)
  BY <1>1, <1>2, <1>3, <1>4, <1>5, <1>6, RunTaskCalls
<1>8. n \in Wants(tasks, f.at)
  BY <1>2, <1>4, <1>6 DEF IsNext, HooksOf, Wants
<1>9. PICK d : d = Depth
  OBVIOUS
<1>10. ASSUME status' = "running" PROVE Passed(d)'
  <2>1. FindByName(tasks, n) # {} /\ Calls(f, n)
    BY <1>7, <1>10
  <2>2. stack'[d] = f /\ d \in Busy /\ stack[d] = Top /\ Depth' = d + 1 /\ stack'[d + 1] = NewFrame(n)
    BY <1>1, <1>9, <2>1 DEF Calls, Busy, Top
  <2>3. tasks' = tasks /\ ran' = ran /\ Depth \in Nat
    BY <2>1 DEF CallHook, Calls
  <2>4. Passed(d)
    BY <1>1, <1>9 DEF IInv, LoopsPassed
  <2>5. \A nn : Handled(d, nn) => Handled(d, nn)'
    BY <1>9, <2>3 DEF Handled
  <2>6. HooksOf(stack[d])' = HooksOf(Top) /\ DepsOf(stack[d])' = DepsOf(Top)
    BY <1>6, <2>2, <2>3 DEF HooksOf, DepsOf
  <2>7. Handled(d, n)'
    BY <1>9, <2>1, <2>2, <2>3 DEF Handled, NewFrame
  <2>8. ASSUME NEW m \in HooksOf(Top), m <= h, NEW nn, nn = tasks[m].name
        PROVE  Handled(d, nn)'
    <3>1. m \in Nat /\ Top.hook \in Nat
      BY <1>1, InvParts, TaskFacts DEF HooksOf, FindByLabel, Frame
    <3>2. CASE m <= Top.hook
      BY <2>2, <2>4, <2>5, <2>8, <3>2 DEF Passed
    <3>3. CASE Top.hook < m
      <4>1. m = h
        BY <1>2, <1>5, <2>8, <3>1, <3>3 DEF IsNext
      <4>2. QED
        BY <4>1, <1>4, <2>7, <2>8
    <3>4. QED
      BY <3>1, <3>2, <3>3
  <2>9. QED
    BY <1>6, <2>2, <2>3, <2>4, <2>5, <2>6, <2>8 DEF Passed
<1>11. QED
  BY <1>1, <1>6, <1>7, <1>8, <1>9, <1>10, QuietStep DEF CallHook

LEMMA CallDepStep ==
  ASSUME IInv, Shape', CallDep
  PROVE  IInv'
<1>1. Shape /\ stack # <<>> /\ status = "running" /\ Top.phase = "deps" /\ Top \in Frame
      /\ Depth \in DOMAIN stack
  BY InvParts DEF CallDep, Active
<1>2. PICK f : f = [Top EXCEPT !.dep = @ + 1]
  OBVIOUS
<1>3. PICK n : n = DepsOf(Top)[Top.dep + 1]
  OBVIOUS
<1>4. f \in Frame /\ f.phase = "deps" /\ f.name = Top.name /\ f.saved = Top.saved
      /\ f.at = Top.at /\ f.dep = Top.dep + 1 /\ f.hook = Top.hook /\ Top.dep \in Nat
  BY <1>1, <1>2 DEF Frame
<1>5. Top.at \in DOMAIN tasks /\ DepsOf(Top) \in Seq(Name) /\ Top.dep < Len(DepsOf(Top))
  <2>1. Top.at \in DOMAIN tasks
    BY <1>1 DEF Shape, Busy, Top
  <2>2. QED
    BY <2>1, InvParts, TaskFacts DEF DepsOf, CallDep
<1>6. n \in Name /\ Top.dep + 1 \in DOMAIN DepsOf(Top)
  BY <1>3, <1>4, <1>5
<1>7. \/ FindByName(tasks, n) = {} /\ status' = "panicking" /\ Sets(f)
      \/ FindByName(tasks, n) # {} /\ status' = status /\ Calls(f, n)
  BY <1>1, <1>2, <1>3, <1>4, <1>6, RunTaskCalls DEF CallDep
<1>8. n \in Wants(tasks, f.at)
  BY <1>3, <1>4, <1>6 DEF DepsOf, Wants
<1>9. PICK d : d = Depth
  OBVIOUS
<1>10. ASSUME status' = "running" PROVE Passed(d)'
  <2>1. FindByName(tasks, n) # {} /\ Calls(f, n)
    BY <1>7, <1>10
  <2>2. stack'[d] = f /\ d \in Busy /\ stack[d] = Top /\ Depth' = d + 1 /\ stack'[d + 1] = NewFrame(n)
    BY <1>1, <1>9, <2>1 DEF Calls, Busy, Top
  <2>3. tasks' = tasks /\ ran' = ran /\ Depth \in Nat
    BY <2>1 DEF CallDep, Calls
  <2>4. Passed(d)
    BY <1>1, <1>9 DEF IInv, LoopsPassed
  <2>5. \A nn : Handled(d, nn) => Handled(d, nn)'
    BY <1>9, <2>3 DEF Handled
  <2>6. HooksOf(stack[d])' = HooksOf(Top) /\ DepsOf(stack[d])' = DepsOf(Top)
    BY <1>4, <2>2, <2>3 DEF HooksOf, DepsOf
  <2>7. Handled(d, n)'
    BY <1>9, <2>1, <2>2, <2>3 DEF Handled, NewFrame
  <2>8. ASSUME NEW m \in 1..(Top.dep + 1), NEW nn, nn = DepsOf(Top)[m]
        PROVE  Handled(d, nn)'
    <3>1. CASE m \in 1..Top.dep
      BY <2>2, <2>4, <2>5, <2>8, <3>1 DEF Passed
    <3>2. CASE m = Top.dep + 1
      BY <1>3, <2>7, <2>8, <3>2
    <3>3. QED
      BY <1>4, <3>1, <3>2
  <2>9. f.dep <= Len(DepsOf(Top))
    BY <1>4, <1>5
  <2>10. QED
    BY <1>1, <1>4, <2>2, <2>3, <2>4, <2>5, <2>6, <2>8, <2>9 DEF Passed
<1>11. QED
  BY <1>1, <1>4, <1>7, <1>8, <1>9, <1>10, QuietStep DEF CallDep

\* Past both loops, everything the current task wants has been run.
LEMMA WantsRan ==
  ASSUME IInv, stack # <<>>, status = "running", Top.phase \in {"deps", "body"},
         Top.dep = Len(DepsOf(Top))
  PROVE  \A n \in Wants(tasks, Top.at) : /\ FindByName(tasks, n) # {}
                                         /\ FindByName(tasks, n) \subseteq ran
<1>1. Depth \in DOMAIN stack /\ Depth \in Nat /\ Top = stack[Depth]
  BY InvParts DEF Top
<1>2. Passed(Depth) /\ Depth \in Busy
  BY <1>1 DEF IInv, LoopsPassed, Busy
<1>3. \A n : Handled(Depth, n) => /\ FindByName(tasks, n) # {}
                                  /\ FindByName(tasks, n) \subseteq ran
  BY <1>1 DEF Handled
<1>4. \A h \in HooksOf(Top) : Handled(Depth, tasks[h].name)
  BY <1>1, <1>2 DEF Passed
<1>5. \A m \in 1..Len(DepsOf(Top)) : Handled(Depth, DepsOf(Top)[m])
  BY <1>1, <1>2 DEF Passed
<1>6. Top.at \in DOMAIN tasks
  BY <1>1, <1>2, InvParts DEF Shape
<1>7. DOMAIN tasks[Top.at].deps = 1..Len(DepsOf(Top))
  BY <1>6, InvParts, TaskFacts DEF DepsOf
<1>8. QED
  BY <1>3, <1>4, <1>5, <1>7 DEF Wants, HooksOf, DepsOf

\* The current task completes: a label in Begin, a task whose Run returned.
LEMMA CompleteStep ==
  ASSUME IInv, Shape', stack # <<>>, status = "running", status' = "running",
         Top.phase \in {"deps", "body"}, Top.dep = Len(DepsOf(Top)),
         stack' = SetTop([Top EXCEPT !.phase = "match"]), done' = done \cup {Cur},
         tasks' = tasks, args' = args, argAt' = argAt, ran' = ran, started' = started
  PROVE  IInv'
<1>1. Shape /\ Top \in Frame /\ Depth \in DOMAIN stack /\ Depth \in Nat /\ Top = stack[Depth]
      /\ Frames /\ done \subseteq ran /\ DoneClosed /\ StartedOnce /\ ExactlyTheRequired
  BY InvParts DEF IInv, Top
<1>2. PICK f : f = [Top EXCEPT !.phase = "match"]
  OBVIOUS
<1>3. f \in Frame /\ f.phase = "match" /\ f.name = Top.name /\ f.saved = Top.saved /\ f.at = Cur
      /\ Top.phase # "match" /\ Cur = Top.at
  BY <1>1, <1>2 DEF Frame, Phase, Cur
<1>4. Sets(f)
  BY <1>1, <1>2, <1>3, SetTopSets
<1>5. PICK d : d = Depth
  OBVIOUS
<1>6. Passed(d)'
  <2>1. stack'[d] = f /\ ~(d \in Busy')
    BY <1>3, <1>4, <1>5 DEF Sets, Busy
  <2>2. Passed(d)
    BY <1>1, <1>5 DEF IInv, LoopsPassed
  <2>3. QED
    BY <1>1, <1>3, <1>5, <2>1, <2>2 DEF Passed
<1>7. Frames' /\ LoopsPassed' /\ ArgsPassed' /\ Accounted'
  BY <1>3, <1>4, <1>5, <1>6, InnerStep
<1>8. Depth \in Busy /\ Cur \in ran
  BY <1>1, <1>3 DEF Busy, Frames, BusyFrames
<1>9. DoneClosed'
  BY <1>1, <1>3, WantsRan DEF DoneClosed
<1>10. \A k \in Busy' : k \in Busy /\ stack'[k] = stack[k]
  BY <1>3, <1>4 DEF Sets, Busy
<1>11. StartedOnce'
  BY <1>1, <1>10 DEF StartedOnce, AtMostOnce
<1>12. ExactlyTheRequired'
  BY <1>1 DEF ExactlyTheRequired
<1>13. PrefixScoped'
  <2>1. stack' # <<>> /\ Top'.phase # "body"
    BY <1>3, <1>4 DEF Sets, Top
  <2>2. QED
    BY <2>1 DEF PrefixScoped, Active
<1>14. QED
  BY <1>1, <1>7, <1>8, <1>9, <1>11, <1>12, <1>13, Assemble

LEMMA BeginStep ==
  ASSUME IInv, Shape', Begin
  PROVE  IInv'
<1>1. Shape /\ stack # <<>> /\ status = "running" /\ Top.phase = "deps" /\ Top \in Frame
      /\ Top.dep = Len(DepsOf(Top)) /\ Depth \in DOMAIN stack /\ Top = stack[Depth]
  BY InvParts DEF Begin, Active, Top
<1>2. CASE ~tasks[Cur].hasRun
  BY <1>1, <1>2, CompleteStep DEF Begin
<1>3. CASE tasks[Cur].hasRun
  <2>1. PICK f : f = [Top EXCEPT !.phase = "body"]
    OBVIOUS
  <2>2. f \in Frame /\ f.phase = "body" /\ f.name = Top.name /\ f.saved = Top.saved
        /\ f.at = Top.at /\ f.dep = Top.dep /\ Cur = Top.at
    BY <1>1, <2>1 DEF Frame, Phase, Cur
  <2>3. Sets(f) /\ started' = Append(started, Cur) /\ done' = done
    BY <1>1, <1>3, <2>1, <2>2, SetTopSets DEF Begin
  <2>4. tasks' = tasks /\ ran' = ran /\ args' = args /\ argAt' = argAt /\ status' = "running"
        /\ prefix' = tasks[Cur].name
    BY <1>1 DEF Begin
  <2>5. Frames /\ done \subseteq ran /\ DoneClosed /\ StartedOnce /\ ExactlyTheRequired
    BY InvParts DEF IInv
  <2>6. PICK d : d = Depth
    OBVIOUS
  <2>7. Passed(d)'
    <3>1. stack'[d] = f /\ d \in Busy /\ stack[d] = Top
      BY <1>1, <2>2, <2>3, <2>6 DEF Sets, Busy
    <3>2. Depth' = Depth /\ Depth \in Nat
      BY <2>3 DEF Sets
    <3>3. Passed(d)
      BY <1>1, <2>6 DEF IInv, LoopsPassed
    <3>4. \A n : Handled(d, n) => Handled(d, n)'
      BY <2>4, <2>6, <3>2 DEF Handled
    <3>5. HooksOf(stack[d])' = HooksOf(Top) /\ DepsOf(stack[d])' = DepsOf(Top)
      BY <2>2, <2>4, <3>1 DEF HooksOf, DepsOf
    <3>6. QED
      BY <1>1, <1>3, <2>2, <2>4, <3>1, <3>3, <3>4, <3>5 DEF Passed
  <2>8. Frames' /\ LoopsPassed' /\ ArgsPassed' /\ Accounted'
    BY <1>1, <2>2, <2>3, <2>4, <2>6, <2>7, InnerStep
  <2>9. \A k \in Busy' : stack'[k].phase # "body" => k \in Busy /\ stack'[k] = stack[k] /\ k # Depth
    BY <2>2, <2>3 DEF Sets, Busy
  <2>10. Depth \in Busy /\ Cur \in ran /\ Cur = stack[Depth].at
    BY <1>1, <2>2, <2>5 DEF Busy, Frames, BusyFrames
  <2>11. StartedOnce'
    <3>1. \A i \in DOMAIN started : started[i] # Cur
      BY <1>1, <2>5, <2>10 DEF StartedOnce
    <3>2. started \in Seq(DOMAIN tasks) /\ Cur \in DOMAIN tasks
      BY <2>10, InvParts DEF TypeOK
    <3>3. /\ DOMAIN started = 1..Len(started) /\ Len(started) \in Nat
          /\ DOMAIN started' = 1..(Len(started) + 1)
          /\ started'[Len(started) + 1] = Cur
          /\ \A i \in DOMAIN started : started'[i] = started[i]
      BY <2>3, <3>2
    <3>4. \A i \in DOMAIN started' : i \in DOMAIN started \/ i = Len(started) + 1
      BY <3>3
    <3>5. AtMostOnce'
      BY <2>5, <3>1, <3>3, <3>4 DEF StartedOnce, AtMostOnce
    <3>6. \A i \in DOMAIN started' : started'[i] \in ran
      BY <2>5, <2>10, <3>3, <3>4 DEF StartedOnce
    <3>7. \A k \in Busy' : stack'[k].phase # "body" =>
            \A i \in DOMAIN started' : started'[i] # stack'[k].at
      BY <2>5, <2>9, <2>10, <3>3, <3>4 DEF StartedOnce, Frames, BusyFrames
    <3>8. QED
      BY <2>4, <3>5, <3>6, <3>7 DEF StartedOnce
  <2>12. DoneClosed' /\ ExactlyTheRequired'
    BY <1>1, <2>3, <2>4, <2>5 DEF DoneClosed, ExactlyTheRequired
  <2>13. PrefixScoped'
    <3>1. stack' # <<>> /\ Top' = f
      BY <2>3 DEF Sets, Top
    <3>2. QED
      BY <2>2, <2>4, <3>1 DEF PrefixScoped, Cur
  <2>14. QED
    BY <2>3, <2>4, <2>5, <2>8, <2>11, <2>12, <2>13, Assemble
<1>4. QED
  BY <1>2, <1>3

LEMMA BodyReturnsStep ==
  ASSUME IInv, Shape', BodyReturns
  PROVE  IInv'
<1>1. stack # <<>> /\ status = "running" /\ Top.phase = "body" /\ Depth \in DOMAIN stack
  BY InvParts DEF BodyReturns, Active
<1>2. Passed(Depth) /\ Depth \in Busy /\ Top = stack[Depth]
  BY <1>1 DEF IInv, LoopsPassed, Busy, Top
<1>3. Top.dep = Len(DepsOf(Top))
  BY <1>1, <1>2 DEF Passed
<1>4. QED
  BY <1>1, <1>3, CompleteStep DEF BodyReturns

LEMMA BodyPanicsStep ==
  ASSUME IInv, Shape', BodyPanics
  PROVE  IInv'
<1>1. status' = "panicking" /\ UNCHANGED <<program, pending, tasks, args, argAt, ran, stack, prefix, started, done>>
      /\ status = "running" /\ stack # <<>>
  BY DEF BodyPanics, Active
<1>2. Frames /\ done \subseteq ran /\ DoneClosed /\ StartedOnce /\ ExactlyTheRequired /\ PrefixScoped
  BY InvParts DEF IInv
<1>3. Frames' /\ DoneClosed' /\ StartedOnce'
  BY <1>1, <1>2 DEF Frames, BusyFrames, Busy, Chained, Descends, DoneClosed, StartedOnce, AtMostOnce
<1>4. ExactlyTheRequired' /\ PrefixScoped'
  BY <1>1, <1>2 DEF ExactlyTheRequired, PrefixScoped, Active
<1>5. QED
  BY <1>1, <1>2, <1>3, <1>4, Assemble

\* Leaving a call, by return or by panic, but for what the loops have passed.
LEMMA LeaveStep ==
  ASSUME IInv, Shape', stack # <<>>, stack' = SubSeq(stack, 1, Depth - 1), prefix' = Top.saved,
         status # "adding", status # "ok", status' = status,
         UNCHANGED <<program, pending, tasks, args, argAt, ran, started, done>>,
         status = "running" => LoopsPassed' /\ ArgsPassed' /\ Accounted'
  PROVE  IInv'
<1>1. Shape /\ Frames /\ done \subseteq ran /\ DoneClosed /\ StartedOnce /\ ExactlyTheRequired
      /\ CallersWait /\ Top = stack[Depth]
  BY InvParts DEF IInv, Top
<1>2. Pops
  BY <1>1, PopPops
<1>3. Frames' /\ Busy' \subseteq Busy /\ \A k \in Busy' : stack'[k] = stack[k]
  BY <1>1, <1>2, FramesPopped
<1>4. DoneClosed' /\ ExactlyTheRequired'
  BY <1>1 DEF DoneClosed, ExactlyTheRequired
<1>5. StartedOnce'
  BY <1>1, <1>3 DEF StartedOnce, AtMostOnce
<1>6. PrefixScoped'
  <2>1. CASE Depth = 1
    <3>1. prefix' = NoPrefix
      BY <1>1, <2>1 DEF Frames
    <3>2. stack' = <<>>
      BY <2>1, InvParts
    <3>3. QED
      BY <3>1, <3>2 DEF PrefixScoped, Active
  <2>2. CASE Depth # 1
    <3>1. stack' # <<>> /\ Top' = stack[Depth - 1] /\ Depth - 1 \in DOMAIN stack /\ Depth - 1 < Depth
      BY <1>2, <2>2 DEF Pops, Top
    <3>2. Top'.phase # "body"
      BY <1>1, <3>1 DEF CallersWait
    <3>3. QED
      BY <3>1, <3>2 DEF PrefixScoped, Active
  <2>3. QED
    BY <2>1, <2>2
<1>7. QED
  BY <1>1, <1>3, <1>4, <1>5, <1>6, Assemble

LEMMA ReturnStep ==
  ASSUME IInv, Shape', Return
  PROVE  IInv'
<1>1. Shape /\ stack # <<>> /\ status = "running" /\ Top.phase = "match" /\ Top = stack[Depth]
      /\ Depth \in DOMAIN stack
  BY InvParts DEF Return, Active, Top
<1>2. Pops /\ tasks' = tasks /\ ran' = ran /\ args' = args /\ argAt' = argAt /\ done' = done
  BY <1>1, PopPops DEF Return
<1>3. LoopsPassed /\ ArgsPassed /\ Accounted
  BY <1>1 DEF IInv
<1>4. FindByName(tasks, stack[Depth].name) \subseteq ran
  <2>1. Passed(Depth)
    BY <1>1, <1>3 DEF LoopsPassed
  <2>2. QED
    BY <1>1, <2>1 DEF Passed, Return, Exhausted, Matches, Cur
<1>5. LoopsPassed'
  <2> SUFFICES ASSUME NEW k \in DOMAIN stack' PROVE Passed(k)'
    BY DEF LoopsPassed
  <2>1. k \in DOMAIN stack /\ stack'[k] = stack[k] /\ k \in Nat
    BY <1>2 DEF Pops
  <2>2. CASE k + 1 = Depth
    BY <1>2, <1>3, <1>4, <2>1, <2>2, PassedKept DEF LoopsPassed
  <2>3. CASE k + 1 # Depth
    <3>1. k < Depth' /\ stack'[k + 1].name = stack[k + 1].name
      BY <1>2, <2>1, <2>3 DEF Pops
    <3>2. QED
      BY <1>2, <1>3, <2>1, <3>1, PassedKept DEF LoopsPassed
  <2>4. QED
    BY <2>2, <2>3
<1>6. ArgsPassed'
  <2>1. CASE Depth = 1
    <3>1. \A a : Handled(0, a) => Handled(0, a)'
      BY <1>2, <1>4, <2>1, HandledKept
    <3>2. QED
      BY <1>2, <1>3, <3>1 DEF ArgsPassed
  <2>2. CASE Depth # 1
    <3>1. 0 < Depth' /\ stack'[0 + 1].name = stack[0 + 1].name
      BY <1>2, <2>2 DEF Pops
    <3>2. \A a : Handled(0, a) => Handled(0, a)'
      BY <1>2, <3>1, HandledKept
    <3>3. QED
      BY <1>2, <1>3, <3>2 DEF ArgsPassed
  <2>3. QED
    BY <2>1, <2>2
<1>7. Accounted'
  <2>1. \A k \in Busy : k \in Busy' /\ stack'[k] = stack[k]
    BY <1>1, <1>2 DEF Busy, Pops
  <2>2. QED
    BY <1>2, <1>3, <2>1 DEF Accounted
<1>8. QED
  BY <1>1, <1>5, <1>6, <1>7, LeaveStep DEF Return

LEMMA UnwindStep ==
  ASSUME IInv, Shape', Unwind
  PROVE  IInv'
<1>1. CASE stack # <<>>
  BY <1>1, LeaveStep DEF Unwind
<1>2. CASE stack = <<>>
  <2>1. status' = "failed" /\ UNCHANGED <<program, pending, tasks, args, argAt, ran, stack, prefix, started, done>>
        /\ status = "panicking"
    BY <1>2 DEF Unwind
  <2>2. Frames /\ done \subseteq ran /\ DoneClosed /\ StartedOnce /\ ExactlyTheRequired /\ PrefixScoped
    BY InvParts DEF IInv
  <2>3. Frames' /\ DoneClosed' /\ StartedOnce'
    BY <2>1, <2>2 DEF Frames, BusyFrames, Busy, Chained, Descends, DoneClosed, StartedOnce, AtMostOnce
  <2>4. ExactlyTheRequired' /\ PrefixScoped'
    BY <2>1, <2>2 DEF ExactlyTheRequired, PrefixScoped, Active
  <2>5. QED
    BY <2>1, <2>2, <2>3, <2>4, Assemble
<1>3. QED
  BY <1>1, <1>2

LEMMA AskedRequired ==
  ASSUME TypeOK, NEW k \in DOMAIN args, NEW i \in FindByName(tasks, args[k])
  PROVE  i \in Required(tasks, args)
<1>1. i \in Asked(tasks, args) /\ Asked(tasks, args) \subseteq DOMAIN tasks
  BY DEF Asked, FindByName
<1>2. QED
  BY <1>1, ClosureContains DEF Required

\* A task picked is one the command line requires, and is within reach of the
\* tasks of all callers.
LEMMA PickedWanted ==
  ASSUME IInv, stack # <<>>, status = "running", NEW i \in Matches(Top)
  PROVE  /\ i \in Required(tasks, args)
         /\ \A j \in Busy : j < Depth => i \in Reach(tasks, stack[j].at)
<1>1. /\ Frames /\ CallersWait /\ ArgsPassed /\ TypeOK /\ Top = stack[Depth]
      /\ Depth \in DOMAIN stack /\ Depth \in Nat /\ Depth > 0 /\ ran \subseteq DOMAIN tasks
      /\ ran \subseteq Required(tasks, args) /\ DOMAIN stack = 1..Depth
  BY InvParts, TopFrame DEF IInv, ExactlyTheRequired, Top
<1>2. CASE Depth = 1
  <2>1. Top.name = args[argAt] /\ argAt # 0
    BY <1>1, <1>2 DEF Frames, Chained
  <2>2. argAt \in DOMAIN args
    BY <1>1, <2>1 DEF ArgsPassed, TypeOK
  <2>3. i \in Required(tasks, args)
    BY <1>1, <2>1, <2>2, AskedRequired DEF Matches
  <2>4. \A j \in Busy : ~(j < Depth)
    BY <1>1, <1>2 DEF Busy
  <2>5. QED
    BY <2>3, <2>4
<1>3. CASE Depth # 1
  <2>1. Depth - 1 \in DOMAIN stack /\ Depth - 1 < Depth
    BY <1>1, <1>3
  <2>2. PICK p : p = stack[Depth - 1].at
    OBVIOUS
  <2>3. Depth - 1 \in Busy
    BY <1>1, <2>1 DEF CallersWait, Busy
  <2>4. p \in ran
    BY <1>1, <2>2, <2>3 DEF Frames, BusyFrames
  <2>5. Top.name \in Wants(tasks, p)
    BY <1>1, <1>3, <2>2 DEF Frames, Chained
  <2>6. i \in Pulls(tasks, p)
    BY <2>5, PulledByName DEF Matches
  <2>7. i \in Required(tasks, args)
    BY <1>1, <2>4, <2>6, ClosureClosed DEF Required
  <2>8. ASSUME NEW j \in Busy, j < Depth PROVE i \in Reach(tasks, stack[j].at)
    <3>1. CASE j = Depth - 1
      BY <1>1, <2>2, <2>4, <2>6, <3>1, ReachStep
    <3>2. CASE j # Depth - 1
      <4>1. j < Depth - 1
        BY <1>1, <2>8, <3>2 DEF Busy
      <4>2. p \in Reach(tasks, stack[j].at)
        BY <1>1, <2>2, <2>3, <2>8, <4>1 DEF Frames, Descends
      <4>3. QED
        BY <4>2, <2>6, ReachFurther
    <3>3. QED
      BY <3>1, <3>2
  <2>9. QED
    BY <2>7, <2>8
<1>4. QED
  BY <1>2, <1>3

LEMMA PickStep ==
  ASSUME IInv, Shape', Pick
  PROVE  IInv'
<1>1. /\ Shape /\ stack # <<>> /\ status = "running" /\ Top.phase = "match" /\ Top \in Frame
      /\ Depth \in DOMAIN stack /\ Top = stack[Depth] /\ ran \subseteq DOMAIN tasks
      /\ Frames /\ done \subseteq ran /\ DoneClosed /\ StartedOnce /\ ExactlyTheRequired
      /\ LoopsPassed /\ ArgsPassed /\ Accounted
  BY InvParts DEF Pick, Active, Top, IInv
<1>2. PICK i \in DOMAIN tasks \ ran :
        /\ IsNext(Matches(Top), Cur, i)
        /\ ran' = ran \cup {i}
        /\ stack' = SetTop([Top EXCEPT !.at = i, !.phase = "hooks", !.hook = 0, !.dep = 0])
  BY DEF Pick
<1>3. PICK f : f = [Top EXCEPT !.at = i, !.phase = "hooks", !.hook = 0, !.dep = 0]
  OBVIOUS
<1>4. i \in Nat
  BY InvParts, TaskFacts
<1>5. f \in Frame /\ f.phase = "hooks" /\ f.name = Top.name /\ f.saved = Top.saved
      /\ f.at = i /\ f.hook = 0 /\ f.dep = 0
  BY <1>1, <1>3, <1>4 DEF Frame, Phase
<1>6. Sets(f)
  BY <1>1, <1>2, <1>3, <1>5, SetTopSets
<1>7. /\ tasks' = tasks /\ args' = args /\ argAt' = argAt /\ done' = done
      /\ started' = started /\ status' = "running" /\ ran \subseteq ran'
  BY <1>1, <1>2 DEF Pick
<1>8. /\ Depth \in Nat /\ Depth > 0 /\ DOMAIN stack = 1..Depth /\ DOMAIN stack' = 1..Depth
      /\ Depth' = Depth /\ stack'[Depth] = f
      /\ \A k \in 1..Depth : k # Depth => stack'[k] = stack[k]
  BY <1>6 DEF Sets
<1>9. i \in Matches(Top)
  BY <1>2 DEF IsNext
<1>10. i \in Required(tasks, args) /\ \A j \in Busy : j < Depth => i \in Reach(tasks, stack[j].at)
  BY <1>1, <1>9, PickedWanted
<1>11. /\ Depth \notin Busy /\ Depth \in Busy'
       /\ \A k \in Busy' : k = Depth \/ (k \in Busy /\ stack'[k] = stack[k])
       /\ \A k \in Busy : k \in Busy' /\ stack'[k] = stack[k] /\ k < Depth
  BY <1>1, <1>5, <1>8 DEF Busy
<1>12. \A k \in Busy : stack[k].at \in ran /\ stack[k].at # i
  BY <1>1, <1>2 DEF Frames, BusyFrames
<1>13. Frames'
  <2>1. BusyFrames'
    <3> SUFFICES ASSUME NEW k \in Busy'
                 PROVE  /\ stack'[k].at \in ran' \ done
                        /\ stack'[k].at \in FindByName(tasks, stack'[k].name)
                        /\ \A l \in Busy' : stack'[l].at = stack'[k].at => l = k
      BY <1>7 DEF BusyFrames
    <3>1. CASE k = Depth
      <4>1. stack'[k].at = i /\ stack'[k].name = Top.name
        BY <1>5, <1>8, <3>1
      <4>2. QED
        BY <1>1, <1>2, <1>9, <1>11, <1>12, <3>1, <4>1 DEF Matches
    <3>2. CASE k # Depth
      <4>1. k \in Busy /\ stack'[k] = stack[k]
        BY <1>11, <3>2
      <4>2. \A l \in Busy' : stack'[l].at = stack'[k].at => l \in Busy /\ stack'[l] = stack[l]
        BY <1>5, <1>8, <1>11, <1>12, <4>1
      <4>3. QED
        BY <1>1, <1>7, <4>1, <4>2 DEF Frames, BusyFrames
    <3>3. QED
      BY <3>1, <3>2
  <2>2. Chained'
    <3>1. \A k \in DOMAIN stack : stack'[k].name = stack[k].name
      BY <1>1, <1>5, <1>8
    <3>2. \A k \in DOMAIN stack : k # 1 => stack'[k - 1] = stack[k - 1]
      BY <1>8
    <3>3. QED
      BY <1>1, <1>7, <1>8, <3>1, <3>2 DEF Frames, Chained
  <2>3. Descends'
    <3> SUFFICES ASSUME NEW j \in Busy', NEW k \in Busy', j < k
                 PROVE  stack'[k].at \in Reach(tasks, stack'[j].at)
      BY <1>7 DEF Descends
    <3>1. j \in Busy /\ stack'[j] = stack[j]
      BY <1>8, <1>11 DEF Busy
    <3>2. CASE k = Depth
      BY <1>5, <1>8, <1>10, <3>1, <3>2
    <3>3. CASE k # Depth
      BY <1>1, <1>11, <3>1, <3>3 DEF Frames, Descends
    <3>4. QED
      BY <3>2, <3>3
  <2>4. stack'[1].saved = NoPrefix
    BY <1>1, <1>5, <1>8 DEF Frames
  <2>5. QED
    BY <2>1, <2>2, <2>3, <2>4 DEF Frames
<1>14. LoopsPassed'
  <2>1. \A k \in 1..(Depth - 1) : Passed(k)'
    BY <1>1, <1>5, <1>6, <1>7, CallersKept
  <2>2. ASSUME NEW d, d = Depth PROVE Passed(d)'
    <3>1. ASSUME NEW m \in FindByName(tasks, Top.name), m <= i PROVE m \in ran'
      <4>1. m \in Nat /\ Cur \in Nat
        BY <1>1, InvParts, TaskFacts DEF FindByName, Frame, Cur
      <4>2. CASE m <= Cur
        <5>1. Passed(Depth)
          BY <1>1 DEF LoopsPassed
        <5>2. QED
          BY <1>1, <1>7, <5>1, <4>2 DEF Passed, Cur
      <4>3. CASE Cur < m
        <5>1. m = i
          BY <1>2, <1>4, <3>1, <4>1, <4>3 DEF IsNext, Matches
        <5>2. QED
          BY <5>1, <1>2
      <4>4. QED
        BY <4>1, <4>2, <4>3
    <3>2. \A h \in HooksOf(stack[d])' : ~(h <= 0)
      <4>1. \A h \in DOMAIN tasks : ~(h <= 0)
        BY InvParts, TaskFacts
      <4>2. QED
        BY <1>7, <4>1 DEF HooksOf, FindByLabel
    <3>3. \A x \in 1..0 : FALSE
      OBVIOUS
    <3>4. Len(tasks[i].deps) \in Nat
      BY InvParts, TaskFacts
    <3>5. DepsOf(stack[d])' = tasks[i].deps
      BY <1>5, <1>7, <1>8, <2>2 DEF DepsOf
    <3>6. stack'[d] = f
      BY <1>8, <2>2
    <3>7. QED
      BY <1>5, <1>7, <3>1, <3>2, <3>3, <3>4, <3>5, <3>6 DEF Passed
  <2>3. QED
    BY <1>8, <2>1, <2>2 DEF LoopsPassed
<1>15. ArgsPassed'
  BY <1>1, <1>5, <1>6, <1>7, ArgsKept
<1>16. Accounted'
  BY <1>1, <1>2, <1>5, <1>7, <1>8, <1>11 DEF Accounted
<1>17. DoneClosed' /\ ExactlyTheRequired'
  BY <1>1, <1>2, <1>7, <1>10 DEF DoneClosed, ExactlyTheRequired
<1>18. StartedOnce'
  <2>1. \A n \in DOMAIN started : started[n] \in ran /\ started[n] # i
    BY <1>1, <1>2 DEF StartedOnce
  <2>2. ASSUME NEW k \in Busy', stack'[k].phase # "body", NEW n \in DOMAIN started
        PROVE  started[n] # stack'[k].at
    <3>1. CASE k = Depth
      BY <1>5, <1>8, <2>1, <3>1
    <3>2. CASE k # Depth
      BY <1>1, <1>11, <2>2, <3>2 DEF StartedOnce
    <3>3. QED
      BY <3>1, <3>2
  <2>3. QED
    BY <1>1, <1>7, <2>1, <2>2 DEF StartedOnce, AtMostOnce
<1>19. PrefixScoped'
  BY <1>5, <1>8 DEF PrefixScoped, Active, Top
<1>20. QED
  BY <1>1, <1>7, <1>13, <1>14, <1>15, <1>16, <1>17, <1>18, <1>19, Assemble

\* While tasks are added, and until the first argument, nothing has happened.
Idle ==
  /\ Shape
  /\ stack = <<>> /\ ran = {} /\ done = {} /\ started = <<>> /\ argAt = 0
  /\ prefix = NoPrefix
  /\ status # "ok"

LEMMA IdleInv == Idle => IInv
<1> SUFFICES ASSUME Idle PROVE IInv
  OBVIOUS
<1>1. DOMAIN stack = {} /\ Busy = {} /\ DOMAIN started = {} /\ args \in Seq(Name)
  BY DEF Idle, Busy, Shape, TypeOK
<1>2. ArgsPassed
  BY <1>1 DEF Idle, ArgsPassed
<1>3. BusyFrames /\ Chained /\ Descends /\ LoopsPassed /\ Accounted /\ DoneClosed /\ StartedOnce
  BY <1>1 DEF Idle, BusyFrames, Chained, Descends, LoopsPassed, Accounted, DoneClosed,
              StartedOnce, AtMostOnce
<1>4. ExactlyTheRequired /\ PrefixScoped
  BY DEF Idle, ExactlyTheRequired, PrefixScoped, Active
<1>5. QED
  BY <1>2, <1>3, <1>4 DEF Idle, IInv, Shape

LEMMA IdleStep ==
  ASSUME IInv, Shape', AddTask \/ Run
  PROVE  IInv'
<1>1. status = "adding" /\ UNCHANGED <<argAt, ran, stack, prefix, started, done>> /\ status' # "ok"
  BY DEF AddTask, Run
<1>2. Idle'
  BY <1>1 DEF IInv, Untouched, PrefixScoped, Idle
<1>3. Idle' => IInv'
  BY IdleInv, PTL
<1>4. QED
  BY <1>2, <1>3

LEMMA NextArgStep ==
  ASSUME IInv, Shape', NextArg
  PROVE  IInv'
<1>1. /\ TypeOK /\ status = "running" /\ stack = <<>> /\ argAt < Len(args) /\ argAt' = argAt + 1
      /\ UNCHANGED <<program, pending, tasks, args, ran, prefix, started, done>>
      /\ RunTask(args[argAt + 1], <<>>)
      /\ done \subseteq ran /\ DoneClosed /\ StartedOnce /\ ExactlyTheRequired /\ PrefixScoped
      /\ ArgsPassed /\ Accounted
  BY InvParts DEF IInv, NextArg
<1>2. PICK n : n = args[argAt + 1]
  OBVIOUS
<1>3. PICK s : s = <<>>
  OBVIOUS
<1>4. n \in Name /\ s \in Seq(Frame) /\ Len(s) = 0 /\ RunTask(n, s) /\ argAt \in Nat /\ Len(args) \in Nat
  BY <1>1, <1>2, <1>3 DEF TypeOK
<1>5. DOMAIN stack = {} /\ Busy = {} /\ Depth = 0
  BY <1>1 DEF Busy, Depth
<1>6. CASE FindByName(tasks, n) = {}
  <2>1. stack' = <<>> /\ status' = "panicking"
    BY <1>3, <1>4, <1>6 DEF RunTask
  <2>2. DOMAIN stack' = {} /\ Busy' = {}
    BY <2>1 DEF Busy
  <2>3. Frames'
    BY <2>1, <2>2 DEF Frames, BusyFrames, Chained, Descends
  <2>4. DoneClosed' /\ StartedOnce' /\ ExactlyTheRequired' /\ PrefixScoped'
    BY <1>1, <2>1, <2>2 DEF DoneClosed, StartedOnce, AtMostOnce, ExactlyTheRequired, PrefixScoped, Active
  <2>5. QED
    BY <1>1, <2>1, <2>3, <2>4, Assemble
<1>7. CASE FindByName(tasks, n) # {}
  <2>1. /\ status' = "running" /\ DOMAIN stack' = 1..1 /\ Depth' = 1
        /\ stack'[1] = NewFrame(n)
    <3>1. status' = status /\ Len(stack') = Len(s) + 1 /\ DOMAIN stack' = 1..(Len(s) + 1)
          /\ stack'[Len(s) + 1] = NewFrame(n)
      BY <1>1, <1>4, <1>7, RunTaskFacts
    <3>2. QED
      BY <1>1, <1>4, <3>1 DEF Depth
  <2>2. stack'[1].phase = "match" /\ stack'[1].name = n /\ stack'[1].at = 0
        /\ stack'[1].saved = NoPrefix
    BY <1>1, <2>1 DEF NewFrame, PrefixScoped
  <2>3. Busy' = {} /\ Active("body")' = FALSE
    BY <2>1, <2>2 DEF Busy, Active, Top
  <2>4. Frames'
    <3>1. Chained'
      BY <1>1, <1>2, <1>4, <2>1, <2>2 DEF Chained
    <3>2. QED
      BY <2>2, <2>3, <3>1 DEF Frames, BusyFrames, Descends
  <2>5. LoopsPassed'
    <3>1. \A m \in FindByName(tasks, n) : ~(m <= 0)
      <4>1. \A m \in DOMAIN tasks : ~(m <= 0)
        BY <1>1, TaskFacts
      <4>2. QED
        BY <4>1 DEF FindByName
    <3>2. ASSUME NEW d, d = 1 PROVE Passed(d)'
      BY <1>1, <2>2, <2>3, <3>1, <3>2 DEF Passed
    <3>3. QED
      BY <2>1, <3>2 DEF LoopsPassed
  <2>6. ArgsPassed'
    <3>1. ASSUME NEW a \in 1..(argAt + 1), NEW nn, nn = args[a] PROVE Handled(0, nn)'
      <4>1. CASE a = argAt + 1
        BY <1>1, <1>2, <1>7, <2>1, <2>2, <3>1, <4>1 DEF Handled
      <4>2. CASE a # argAt + 1
        <5>1. a \in 1..argAt
          BY <1>4, <4>2
        <5>2. Handled(0, nn)
          BY <1>1, <3>1, <5>1 DEF ArgsPassed
        <5>3. QED
          BY <1>1, <1>5, <5>2 DEF Handled
      <4>3. QED
        BY <4>1, <4>2
    <3>2. QED
      BY <1>1, <1>4, <3>1 DEF ArgsPassed
  <2>7. Accounted'
    BY <1>1, <1>5 DEF Accounted
  <2>8. DoneClosed' /\ StartedOnce' /\ ExactlyTheRequired'
    BY <1>1, <2>1, <2>3 DEF DoneClosed, StartedOnce, AtMostOnce, ExactlyTheRequired
  <2>9. PrefixScoped'
    BY <2>1, <2>3 DEF PrefixScoped
  <2>10. QED
    BY <1>1, <2>1, <2>4, <2>5, <2>6, <2>7, <2>8, <2>9, Assemble
<1>8. QED
  BY <1>6, <1>7

\* When every argument was run, what is done is all that is required.
LEMMA AllRun ==
  ASSUME IInv, status = "running", stack = <<>>, argAt = Len(args)
  PROVE  done = Required(tasks, args) /\ AllNamed(tasks, args)
<1>1. TypeOK /\ ran \subseteq DOMAIN tasks /\ done \subseteq ran /\ ran \subseteq Required(tasks, args)
      /\ DoneClosed /\ ArgsPassed /\ Accounted
  BY InvParts DEF IInv, ExactlyTheRequired
<1>2. Busy = {} /\ Depth = 0
  BY DEF Busy, Depth
<1>3. ran = done
  BY <1>1, <1>2 DEF Accounted
<1>4. \A k \in DOMAIN args : FindByName(tasks, args[k]) # {} /\ FindByName(tasks, args[k]) \subseteq done
  <2>1. DOMAIN args = 1..argAt
    BY <1>1 DEF TypeOK
  <2>2. QED
    BY <1>1, <1>2, <1>3, <2>1 DEF ArgsPassed, Handled
<1>5. Asked(tasks, args) \subseteq done
  BY <1>4 DEF Asked
<1>6. done \in ClosedSets(tasks)
  BY <1>1, <1>3 DEF ClosedSets, Pulls, DoneClosed
<1>7. Required(tasks, args) \subseteq done
  BY <1>5, <1>6, ClosureLeast DEF Required
<1>8. QED
  BY <1>1, <1>3, <1>4, <1>7 DEF AllNamed, DoneClosed

LEMMA FinishStep ==
  ASSUME IInv, Shape', Finish
  PROVE  IInv'
<1>1. /\ status = "running" /\ stack = <<>> /\ argAt = Len(args) /\ status' = "ok"
      /\ UNCHANGED <<program, pending, tasks, args, argAt, ran, stack, prefix, started, done>>
      /\ Frames /\ done \subseteq ran /\ DoneClosed /\ StartedOnce /\ ExactlyTheRequired /\ PrefixScoped
  BY InvParts DEF Finish, IInv
<1>2. Frames' /\ DoneClosed' /\ StartedOnce'
  BY <1>1 DEF Frames, BusyFrames, Busy, Chained, Descends, DoneClosed, StartedOnce, AtMostOnce
<1>3. ExactlyTheRequired'
  BY <1>1, AllRun DEF ExactlyTheRequired
<1>4. PrefixScoped'
  BY <1>1 DEF PrefixScoped, Active
<1>5. QED
  BY <1>1, <1>2, <1>3, <1>4, Assemble

LEMMA StutterStep ==
  ASSUME IInv, Shape', UNCHANGED vars
  PROVE  IInv'
<1>1. Frames /\ done \subseteq ran /\ DoneClosed /\ StartedOnce /\ ExactlyTheRequired /\ PrefixScoped
  BY InvParts DEF IInv
<1>2. Frames' /\ DoneClosed' /\ StartedOnce' /\ ExactlyTheRequired' /\ PrefixScoped'
  BY <1>1 DEF vars, Frames, BusyFrames, Busy, Chained, Descends, DoneClosed, StartedOnce, AtMostOnce,
       ExactlyTheRequired, PrefixScoped, Active, Top, Depth, Cur
<1>3. ASSUME status = "running" PROVE LoopsPassed' /\ ArgsPassed' /\ Accounted'
  <2>1. \A k, n : Handled(k, n) => Handled(k, n)'
    BY DEF vars, Handled, Depth
  <2>2. ArgsPassed'
    BY <1>3, <2>1 DEF IInv, vars, ArgsPassed
  <2>3. LoopsPassed'
    <3> SUFFICES ASSUME NEW k \in DOMAIN stack PROVE Passed(k)'
      BY DEF LoopsPassed, vars
    <3>1. k < Depth => k < Depth' /\ stack'[k + 1].name = stack[k + 1].name
      BY DEF vars, Depth
    <3>2. QED
      BY <1>3, <3>1, PassedKept DEF IInv, LoopsPassed, vars
  <2>4. Accounted'
    BY <1>3 DEF IInv, vars, Accounted, Busy
  <2>5. QED
    BY <2>2, <2>3, <2>4
<1>4. QED
  BY <1>1, <1>2, <1>3, Assemble DEF vars

LEMMA InvInit == Init => IInv
<1>1. Init => Idle
  BY ShapeInit DEF Init, Idle
<1>2. QED
  BY <1>1, IdleInv

LEMMA InvStep == IInv /\ [Next]_vars => IInv'
<1> SUFFICES ASSUME IInv, [Next]_vars PROVE IInv'
  OBVIOUS
<1>1. Shape'
  BY InvParts, ShapeStep
<1>2. QED
  BY <1>1, IdleStep, NextArgStep, FinishStep, SkipStep, PickStep, ReturnStep, CallHookStep,
     HooksDoneStep, CallDepStep, BeginStep, BodyReturnsStep, BodyPanicsStep, UnwindStep, StutterStep
     DEF Next, Step, Terminated

LEMMA Invariance == Spec => []IInv
BY InvInit, InvStep, PTL DEF Spec

-----------------------------------------------------------------------------
(* What the task runner promises.                                          *)

\* "Don't re-run the same task": in no makefile, with no command line, is the
\* Run function of a task called twice (the t.run check of runTask).
THEOREM RunsAtMostOnce == Spec => []AtMostOnce
<1>1. IInv => AtMostOnce
  BY DEF IInv, StartedOnce
<1>2. QED
  BY <1>1, Invariance, PTL

\* The runner runs nothing but what the command line requires; when Run
\* returns, all of it is done and every name it needed was known.
THEOREM RunsWhatIsRequired == Spec => []ExactlyTheRequired
<1>1. IInv => ExactlyTheRequired
  BY DEF IInv
<1>2. QED
  BY <1>1, Invariance, PTL

\* log.Prefix is the running task's own, and is restored when no task is
\* active, whether runTask returned or panicked.
THEOREM PrefixIsScoped == Spec => []PrefixScoped
<1>1. IInv => PrefixScoped
  BY DEF IInv
<1>2. QED
  BY <1>1, Invariance, PTL

\* Past both loops, all the current task pulls in is completed, except what
\* pulls it in itself.
LEMMA PrereqsDone ==
  ASSUME IInv, stack # <<>>, status = "running", Top.phase \in {"deps", "body"},
         Top.dep = Len(DepsOf(Top)), NEW p \in Pulls(tasks, Cur), p \notin done
  PROVE  Cur \in Reach(tasks, p)
<1>1. Depth \in DOMAIN stack /\ Depth \in Nat /\ Top = stack[Depth] /\ Depth \in Busy
  BY InvParts DEF Top, Busy
<1>2. p \in ran
  BY WantsRan DEF Pulls, Cur
<1>3. PICK k \in Busy : stack[k].at = p
  BY <1>2 DEF IInv, Accounted
<1>4. CASE k = Depth
  <2>1. p = Cur /\ Cur \in DOMAIN tasks
    BY <1>1, <1>2, <1>3, <1>4, InvParts DEF Cur
  <2>2. QED
    BY <2>1, ReachStep
<1>5. CASE k # Depth
  <2>1. k < Depth
    BY <1>1, <1>5, InvParts, TopFrame DEF Busy
  <2>2. QED
    BY <1>1, <1>3, <2>1 DEF IInv, Descends, Cur
<1>6. QED
  BY <1>4, <1>5

\* In a task's Run both loops are over.
LEMMA BodyFacts ==
  ASSUME IInv, Active("body")
  PROVE  /\ stack # <<>> /\ status = "running" /\ Top.phase = "body"
         /\ Top.dep = Len(DepsOf(Top))
         /\ tasks[Cur].hasRun
<1>1. stack # <<>> /\ status = "running" /\ Top.phase = "body" /\ Depth \in DOMAIN stack
      /\ Top = stack[Depth] /\ Depth \in Busy
  BY InvParts DEF Active, Top, Busy
<1>2. Passed(Depth)
  BY <1>1 DEF IInv, LoopsPassed
<1>3. QED
  BY <1>1, <1>2 DEF Passed, Cur

\* A task's Run is called only when all it pulls in is completed, except what
\* pulls it in itself (the hook and dependency loops of runTask).
THEOREM PrerequisitesComeFirst == Spec => []PrereqsFirst
<1>1. IInv => PrereqsFirst
  BY BodyFacts, PrereqsDone DEF PrereqsFirst
<1>2. QED
  BY <1>1, Invariance, PTL

\* runTask never nests deeper than one call per task and one more: each caller
\* is busy with a task of its own, whatever cycles there are.
THEOREM RecursionIsBounded == Spec => []RecursionBounded
<1>1. ASSUME IInv PROVE RecursionBounded
  <2>1. /\ CallersWait /\ BusyFrames /\ ran \subseteq DOMAIN tasks
        /\ DOMAIN stack = 1..Depth /\ Depth \in Nat
        /\ DOMAIN tasks = 1..Len(tasks) /\ Len(tasks) \in Nat
    BY <1>1, InvParts DEF IInv, TypeOK, Depth
  <2> DEFINE callers == 1..(Depth - 1)
             current == [k \in callers |-> stack[k].at]
  <2>2. \A k \in callers : k \in Busy
    BY <2>1 DEF CallersWait, Busy
  <2>3. \A k \in callers : stack[k].at \in DOMAIN tasks
    BY <2>1, <2>2 DEF BusyFrames
  <2>4. \A j, k \in callers : stack[j].at = stack[k].at => j = k
    BY <2>1, <2>2 DEF BusyFrames
  <2>5. current \in Injection(callers, DOMAIN tasks)
    BY <2>3, <2>4, Fun_IsInj
  <2> HIDE DEF current
  <2>i. \A n \in Int : /\ IsFiniteSet(1..n)
                       /\ Cardinality(1..n) = IF 1 > n THEN 0 ELSE n - 1 + 1
    <3>1. 1 \in Int
      OBVIOUS
    <3>2. QED
      BY ONLY <3>1, FS_Interval, Zenon
  <2>6. IsFiniteSet(DOMAIN tasks) /\ Cardinality(DOMAIN tasks) = Len(tasks)
    BY <2>1, <2>i
  <2>7. Cardinality(callers) = IF Depth = 0 THEN 0 ELSE Depth - 1
    BY <2>1, <2>i
  <2> HIDE DEF callers, current
  <2>8. Cardinality(callers) <= Len(tasks)
    BY <2>5, <2>6, FS_Injection
  <2>9. QED
    BY <2>1, <2>7, <2>8 DEF RecursionBounded
<1>2. QED
  BY <1>1, Invariance, PTL

-----------------------------------------------------------------------------
(* The task runner implements the schedule.                                *)

\* The schedule's vocabulary is the makefile's.
LEMMA SameWords ==
  /\ \A ts, n : Schedule!FindByName(ts, n) = FindByName(ts, n)
  /\ \A ts, i : Schedule!Wants(ts, i) = Wants(ts, i)
  /\ \A ts, i : Schedule!Pulls(ts, i) = Pulls(ts, i)
  /\ \A ts, i : Schedule!Reach(ts, i) = Reach(ts, i)
  /\ \A ts, as : Schedule!Required(ts, as) = Required(ts, as)
  /\ \A ts, as : Schedule!AllNamed(ts, as) = AllNamed(ts, as)
<1>1. \A ts, n : Schedule!FindByName(ts, n) = FindByName(ts, n)
  BY DEF Schedule!FindByName, FindByName
<1>2. \A ts, i : Schedule!Wants(ts, i) = Wants(ts, i)
  BY DEF Schedule!Wants, Schedule!FindByLabel, Wants, FindByLabel
<1>3. \A ts, i : Schedule!Pulls(ts, i) = Pulls(ts, i)
  BY <1>1, <1>2 DEF Schedule!Pulls, Pulls
<1>4. \A ts, S : Schedule!Closure(ts, S) = Closure(ts, S)
  BY <1>3 DEF Schedule!Closure, Closure, Schedule!ClosedSets, ClosedSets
<1>5. \A ts, i : Schedule!Reach(ts, i) = Reach(ts, i)
  BY <1>3, <1>4 DEF Schedule!Reach, Reach
<1>6. \A ts, as : Schedule!Asked(ts, as) = Asked(ts, as)
  BY <1>1 DEF Schedule!Asked, Asked
<1>7. \A ts, as : Schedule!Required(ts, as) = Required(ts, as)
  BY <1>4, <1>6 DEF Schedule!Required, Required
<1>8. \A ts, as : Schedule!AllNamed(ts, as) = AllNamed(ts, as)
  BY <1>1, <1>2, <1>7 DEF Schedule!AllNamed, AllNamed
<1>9. QED
  BY <1>1, <1>2, <1>3, <1>5, <1>7, <1>8

\* What the schedule sees of the runner does not change.
Unseen == UNCHANGED <<Loaded(tasks), Loaded(args), done, Outcome>>

LEMMA UnseenStutters == Unseen => [Schedule!Next]_Schedule!vars
BY DEF Unseen, Schedule!vars

\* A current task that completes is one the schedule may complete.
LEMMA CompleteRefines ==
  ASSUME IInv, stack # <<>>, status = "running", status' = "running",
         Top.phase \in {"deps", "body"}, Top.dep = Len(DepsOf(Top)),
         tasks' = tasks, args' = args, done' = done \cup {Cur}
  PROVE  Schedule!Next
<1>1. Depth \in Busy /\ Cur = stack[Depth].at
  BY InvParts DEF Top, Busy, Cur
<1>2. Cur \in ran \ done /\ Cur \in DOMAIN tasks /\ Cur \in Required(tasks, args)
  BY <1>1, InvParts DEF Frames, BusyFrames, IInv, ExactlyTheRequired
<1>3. \A p \in Pulls(tasks, Cur) : p \in done \/ Cur \in Reach(tasks, p)
  BY PrereqsDone
<1>4. Loaded(tasks) = tasks /\ Loaded(args) = args /\ Outcome = "running"
      /\ Loaded(tasks)' = tasks /\ Loaded(args)' = args /\ Outcome' = "running"
  BY DEF Loaded, Outcome
<1>5. Schedule!Complete(Cur)
  BY <1>2, <1>3, <1>4, SameWords DEF Schedule!Complete
<1>6. QED
  BY <1>2, <1>4, <1>5 DEF Schedule!Next

\* A call for a name nobody has is a failure the schedule allows.
LEMMA UnknownRefines ==
  ASSUME status = "running", status' = "panicking", ~AllNamed(tasks, args),
         tasks' = tasks, args' = args, done' = done
  PROVE  Schedule!Next
<1>1. Loaded(tasks) = tasks /\ Loaded(args) = args /\ Outcome = "running"
      /\ Loaded(tasks)' = tasks /\ Loaded(args)' = args /\ Outcome' = "failed"
  BY DEF Loaded, Outcome
<1>2. QED
  BY <1>1, SameWords DEF Schedule!Next, Schedule!Fail

LEMMA WantedNamed ==
  ASSUME IInv, stack # <<>>, Top.phase # "match", NEW n \in Wants(tasks, Cur),
         FindByName(tasks, n) = {}, status = "running"
  PROVE  ~AllNamed(tasks, args)
<1>1. Depth \in Busy /\ Cur = stack[Depth].at
  BY InvParts DEF Top, Busy, Cur
<1>2. Cur \in Required(tasks, args)
  BY <1>1 DEF IInv, BusyFrames, ExactlyTheRequired
<1>3. QED
  BY <1>2 DEF AllNamed

LEMMA ScheduleInit == Init => Schedule!Init
BY DEF Init, Schedule!Init, Loaded, Outcome

LEMMA ScheduleStep == IInv /\ IInv' /\ [Next]_vars => [Schedule!Next]_Schedule!vars
<1> SUFFICES ASSUME IInv, IInv', [Next]_vars PROVE [Schedule!Next]_Schedule!vars
  OBVIOUS
<1> USE DEF Loaded, Outcome
<1>1. CASE AddTask
  <2>1. Unseen
    BY <1>1 DEF AddTask, Unseen
  <2>2. QED
    BY <2>1, UnseenStutters
<1>2. CASE Run
  <2>1. status = "adding" /\ done' = done /\ tasks' \in Seq(Def) /\ args' \in Seq(Name)
        /\ (status' = "running" \/ (status' = "panicking" /\ tasks' = <<>>))
    BY <1>2 DEF Run, IInv, TypeOK
  <2>2. Schedule!Load
    BY <2>1 DEF Schedule!Load
  <2>3. QED
    BY <2>2 DEF Schedule!Next
<1>3. CASE NextArg
  <2>1. status = "running" /\ UNCHANGED <<tasks, args, done>> /\ argAt < Len(args)
        /\ RunTask(args[argAt + 1], <<>>) /\ argAt \in Nat /\ args \in Seq(Name)
    BY <1>3 DEF NextArg, IInv, TypeOK
  <2>2. CASE FindByName(tasks, args[argAt + 1]) = {}
    <3>1. argAt + 1 \in DOMAIN args
      BY <2>1
    <3>2. ~AllNamed(tasks, args)
      BY <2>2, <3>1 DEF AllNamed
    <3>3. status' = "panicking"
      BY <2>1, <2>2 DEF RunTask
    <3>4. QED
      BY <2>1, <3>2, <3>3, UnknownRefines
  <2>3. CASE FindByName(tasks, args[argAt + 1]) # {}
    <3>1. Unseen
      BY <2>1, <2>3 DEF RunTask, Unseen
    <3>2. QED
      BY <3>1, UnseenStutters
  <2>4. QED
    BY <2>2, <2>3
<1>4. CASE Finish
  <2>1. status = "running" /\ status' = "ok" /\ UNCHANGED <<tasks, args, done>>
        /\ done = Required(tasks, args) /\ AllNamed(tasks, args)
    BY <1>4, AllRun DEF Finish
  <2>2. Schedule!Succeed
    BY <2>1, SameWords DEF Schedule!Succeed
  <2>3. QED
    BY <2>2 DEF Schedule!Next
<1>5. CASE CallHook
  <2>1. status = "running" /\ stack # <<>> /\ Top.phase = "hooks" /\ UNCHANGED <<tasks, args, done>>
    BY <1>5 DEF CallHook, Active
  <2>2. PICK h \in HooksOf(Top) : RunTask(tasks[h].name, SetTop([Top EXCEPT !.hook = h]))
    BY <1>5 DEF CallHook, IsNext
  <2>3. tasks[h].name \in Wants(tasks, Cur)
    BY <2>2 DEF Wants, HooksOf, Cur
  <2>4. CASE FindByName(tasks, tasks[h].name) = {}
    <3>1. status' = "panicking"
      BY <2>2, <2>4 DEF RunTask
    <3>2. QED
      BY <2>1, <2>3, <2>4, <3>1, WantedNamed, UnknownRefines
  <2>5. CASE FindByName(tasks, tasks[h].name) # {}
    <3>1. Unseen
      BY <2>1, <2>2, <2>5 DEF RunTask, Unseen
    <3>2. QED
      BY <3>1, UnseenStutters
  <2>6. QED
    BY <2>4, <2>5
<1>6. CASE CallDep
  <2>1. status = "running" /\ stack # <<>> /\ Top.phase = "deps" /\ UNCHANGED <<tasks, args, done>>
        /\ Top.dep < Len(DepsOf(Top))
    BY <1>6 DEF CallDep, Active
  <2>2. PICK n : n = DepsOf(Top)[Top.dep + 1]
    OBVIOUS
  <2>3. n \in Wants(tasks, Cur)
    <3>1. Cur \in DOMAIN tasks /\ Top.dep \in Nat
      BY <2>1, InvParts DEF Shape, Busy, Top, Cur, Frame
    <3>2. Top.dep + 1 \in DOMAIN DepsOf(Top)
      BY <2>1, <3>1, InvParts, TaskFacts DEF DepsOf, Cur
    <3>3. QED
      BY <2>2, <3>2 DEF Wants, DepsOf, Cur
  <2>4. RunTask(n, SetTop([Top EXCEPT !.dep = @ + 1]))
    BY <1>6, <2>2 DEF CallDep
  <2>5. CASE FindByName(tasks, n) = {}
    <3>1. status' = "panicking"
      BY <2>4, <2>5 DEF RunTask
    <3>2. QED
      BY <2>1, <2>3, <2>5, <3>1, WantedNamed, UnknownRefines
  <2>6. CASE FindByName(tasks, n) # {}
    <3>1. Unseen
      BY <2>1, <2>4, <2>6 DEF RunTask, Unseen
    <3>2. QED
      BY <3>1, UnseenStutters
  <2>7. QED
    BY <2>5, <2>6
<1>7. CASE Begin
  <2>1. stack # <<>> /\ status = "running" /\ status' = "running" /\ Top.phase = "deps"
        /\ Top.dep = Len(DepsOf(Top)) /\ tasks' = tasks /\ args' = args
        /\ (done' = done \/ done' = done \cup {Cur})
    BY <1>7 DEF Begin, Active
  <2>2. CASE done' = done
    <3>1. Unseen
      BY <2>1, <2>2 DEF Unseen
    <3>2. QED
      BY <3>1, UnseenStutters
  <2>3. CASE done' = done \cup {Cur}
    BY <2>1, <2>3, CompleteRefines
  <2>4. QED
    BY <2>1, <2>2, <2>3
<1>8. CASE BodyReturns
  BY <1>8, BodyFacts, CompleteRefines DEF BodyReturns
<1>9. CASE BodyPanics
  <2>1. status = "running" /\ status' = "panicking" /\ UNCHANGED <<tasks, args, done>>
        /\ stack # <<>> /\ Top.phase = "body" /\ tasks[Cur].hasRun
    BY <1>9, BodyFacts DEF BodyPanics
  <2>2. Cur \in Required(tasks, args) \ done
    <3>1. Depth \in Busy /\ Cur = stack[Depth].at
      BY <2>1, InvParts DEF Top, Busy, Cur
    <3>2. QED
      BY <2>1, <3>1 DEF IInv, BusyFrames, ExactlyTheRequired
  <2>3. Schedule!Fail
    BY <2>1, <2>2, SameWords DEF Schedule!Fail
  <2>4. QED
    BY <2>3 DEF Schedule!Next
<1>10. CASE Skip \/ Pick \/ Return \/ HooksDone
  <2>1. Unseen
    BY <1>10 DEF Skip, Pick, Return, HooksDone, Unseen
  <2>2. QED
    BY <2>1, UnseenStutters
<1>11. CASE Unwind
  <2>1. status = "panicking" /\ status' \in {"panicking", "failed"} /\ UNCHANGED <<tasks, args, done>>
    BY <1>11 DEF Unwind
  <2>2. Unseen
    BY <2>1 DEF Unseen
  <2>3. QED
    BY <2>2, UnseenStutters
<1>12. CASE UNCHANGED vars
  <2>1. Unseen
    BY <1>12 DEF vars, Unseen
  <2>2. QED
    BY <2>1, UnseenStutters
<1>13. QED
  BY <1>1, <1>2, <1>3, <1>4, <1>5, <1>6, <1>7, <1>8, <1>9, <1>10, <1>11, <1>12
     DEF Next, Step, Terminated

\* Every run of the task runner is a run of the schedule: each task required is
\* completed once, after what it pulls in, and the outcome is as promised.
THEOREM RunnerImplementsSchedule == Spec => ImplementsSchedule
BY ScheduleInit, ScheduleStep, Invariance, PTL DEF Spec, ImplementsSchedule, Schedule!Spec
=============================================================================
