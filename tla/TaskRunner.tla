---------------------------- MODULE TaskRunner ----------------------------
(***************************************************************************)
(* The task runner of tasks.go: it flattens the makefile into one list,    *)
(* adds the built-in tasks, and runs each task named on the command line   *)
(* after the tasks hooked onto it and after its dependencies, recursively, *)
(* each task at most once.                                                 *)
(*                                                                         *)
(* runTask calls itself, so the model keeps its call stack: one frame per  *)
(* active call, with the call's loop positions.  findByName and            *)
(* findByLabel return sub-lists of the task list in its order and the list *)
(* does not change while tasks run, so a frame keeps positions in the list *)
(* itself.                                                                 *)
(***************************************************************************)
EXTENDS Makefiles

CONSTANTS
  Programs,     \* the task lists main() may pass to Makefile
  Builtins,     \* the tasks runTaskFile adds after them
  CommandLines, \* the arguments the program may be started with
  DefaultArgs,  \* what runTaskFile runs when there are none
  NoPrefix      \* the value of log.Prefix before any task runs

ASSUME ProgramsAssumption ==
  /\ Programs \subseteq Seq(Def)
  /\ Builtins \in Seq(Def)
  /\ CommandLines \subseteq Seq(Name)
  /\ DefaultArgs \in Seq(Name)

VARIABLES
  program,  \* the tasks passed to Makefile (never changes)
  pending,  \* addTasks: what is left to add
  tasks,    \* taskRunner.tasks
  args,     \* the names to run
  argAt,    \* how many of them runTask has been called with
  ran,      \* taskRunner.run
  stack,    \* the active calls of runTask, outermost first
  prefix,   \* log.Prefix
  status,   \* where the runner is
  started,  \* history: tasks whose Run was called, in order
  done      \* history: tasks that completed, Run included

lists == <<program, pending, tasks, args>>
vars == <<program, pending, tasks, args, argAt, ran, stack, prefix, status, started, done>>

Depth == Len(stack)
Top == stack[Depth]
Cur == Top.at

Prefix == Name \cup {NoPrefix}

Phase == {"match", "hooks", "deps", "body"}

(***************************************************************************)
(* A call runTask(name): `saved' is origLogPrefix, `at' the position of    *)
(* the loop over findByName(name), `hook' that of the loop over            *)
(* findByLabel(tsk.Name), `dep' that of the loop over tsk.Dependencies.    *)
(***************************************************************************)
Frame == [name : Name, saved : Prefix, at : Nat, phase : Phase, hook : Nat, dep : Nat]

\* The next element of S after position k is j.
IsNext(S, k, j) == j \in S /\ k < j /\ \A m \in S : k < m => j <= m

Exhausted(S, k) == \A m \in S : m <= k

Matches(f) == FindByName(tasks, f.name)
\* Fault: hooks are looked up by the name runTask was called with.
HooksOfCalledName(f) == FindByLabel(tasks, f.name)

HooksOf(f) == FindByLabel(tasks, tasks[f.at].name)
DepsOf(f) == tasks[f.at].deps

SetTop(f) == [stack EXCEPT ![Depth] = f]

NewFrame(name) ==
  [name |-> name, saved |-> prefix, at |-> 0, phase |-> "match", hook |-> 0, dep |-> 0]

\* Fault: a name without tasks is passed over.
RunTaskLenient(name, callers) ==
  /\ stack' = IF FindByName(tasks, name) = {} THEN callers
              ELSE Append(callers, NewFrame(name))
  /\ UNCHANGED status

(***************************************************************************)
(* Entering runTask(name) from `callers': no task of that name is a panic, *)
(* with nothing changed since log.Prefix is restored as it was.            *)
(***************************************************************************)
RunTask(name, callers) ==
  \/ /\ FindByName(tasks, name) = {}
     /\ status' = "panicking"
     /\ stack' = callers
  \/ /\ FindByName(tasks, name) # {}
     /\ stack' = Append(callers, NewFrame(name))
     /\ UNCHANGED status

-----------------------------------------------------------------------------
Init ==
  /\ program \in Programs
  /\ pending = program
  /\ tasks = <<>>
  /\ args \in CommandLines
  /\ argAt = 0
  /\ ran = {}
  /\ stack = <<>>
  /\ prefix = NoPrefix
  /\ status = "adding"
  /\ started = <<>>
  /\ done = {}

\* addTasks appends a task, then its subtasks, then the rest.
AddTask ==
  /\ status = "adding"
  /\ pending # <<>>
  /\ tasks' = Append(tasks, Head(pending))
  /\ pending' = Head(pending).tasks \o Tail(pending)
  /\ UNCHANGED <<program, args, argAt, ran, stack, prefix, status, started, done>>

\* The names runTaskFile passes to Run.
Given == IF args = <<>> THEN DefaultArgs ELSE args

\* runTaskFile once the makefile's tasks are added, up to the loop of Run.
Run ==
  /\ status = "adding"
  /\ pending = <<>>
  /\ tasks' = tasks \o Builtins
  /\ \/ /\ tasks' = <<>>
        /\ args' = Given
        /\ status' = "panicking"
     \/ /\ tasks' # <<>>
        /\ args' = IF Given = <<>> THEN <<tasks'[1].name>> ELSE Given
        /\ status' = "running"
  /\ UNCHANGED <<program, pending, argAt, ran, stack, prefix, started, done>>

\* Fault: t.run is emptied for each argument.
NextArgForgets ==
  /\ status = "running"
  /\ stack = <<>>
  /\ argAt < Len(args)
  /\ argAt' = argAt + 1
  /\ ran' = {}
  /\ RunTask(args[argAt + 1], <<>>)
  /\ UNCHANGED <<program, pending, tasks, args, prefix, started, done>>

\* The loop of Run calls runTask with the next argument.
NextArg ==
  /\ status = "running"
  /\ stack = <<>>
  /\ argAt < Len(args)
  /\ argAt' = argAt + 1
  /\ RunTask(args[argAt + 1], <<>>)
  /\ UNCHANGED <<program, pending, tasks, args, ran, prefix, started, done>>

\* Every argument was run: runTaskFile returns.
Finish ==
  /\ status = "running"
  /\ stack = <<>>
  /\ argAt = Len(args)
  /\ status' = "ok"
  /\ UNCHANGED <<program, pending, tasks, args, argAt, ran, stack, prefix, started, done>>

Active(phase) == status = "running" /\ stack # <<>> /\ Top.phase = phase

\* Fault: the loop does not advance past a task that was run.
SkipInPlace ==
  /\ Active("match")
  /\ \E i \in ran : IsNext(Matches(Top), Cur, i)
  /\ UNCHANGED vars

\* The next task of the name has been run already: continue.
Skip ==
  /\ Active("match")
  /\ \E i \in ran : /\ IsNext(Matches(Top), Cur, i)
                    /\ stack' = SetTop([Top EXCEPT !.at = i])
  /\ UNCHANGED <<program, pending, tasks, args, argAt, ran, prefix, status, started, done>>

\* Fault: the task marked as run is the one before.
PickOffByOne ==
  /\ Active("match")
  /\ \E i \in DOMAIN tasks \ ran :
       /\ IsNext(Matches(Top), Cur, i)
       /\ ran' = ran \cup {i - 1}
       /\ stack' = SetTop([Top EXCEPT !.at = i, !.phase = "hooks", !.hook = 0, !.dep = 0])
  /\ UNCHANGED <<program, pending, tasks, args, argAt, prefix, status, started, done>>

\* The next task of the name is marked as run, before its hooks are.
Pick ==
  /\ Active("match")
  /\ \E i \in DOMAIN tasks \ ran :
       /\ IsNext(Matches(Top), Cur, i)
       /\ ran' = ran \cup {i}
       /\ stack' = SetTop([Top EXCEPT !.at = i, !.phase = "hooks", !.hook = 0, !.dep = 0])
  /\ UNCHANGED <<program, pending, tasks, args, argAt, prefix, status, started, done>>

\* No task of the name is left: runTask returns and restores log.Prefix.
Return ==
  /\ Active("match")
  /\ Exhausted(Matches(Top), Cur)
  /\ stack' = SubSeq(stack, 1, Depth - 1)
  /\ prefix' = Top.saved
  /\ UNCHANGED <<program, pending, tasks, args, argAt, ran, status, started, done>>

\* A task hooked onto this one is run, by its name.
CallHook ==
  /\ Active("hooks")
  /\ \E h \in DOMAIN tasks :
       /\ IsNext(HooksOf(Top), Top.hook, h)
       /\ RunTask(tasks[h].name, SetTop([Top EXCEPT !.hook = h]))
  /\ UNCHANGED <<program, pending, tasks, args, argAt, ran, prefix, started, done>>

HooksDone ==
  /\ Active("hooks")
  /\ Exhausted(HooksOf(Top), Top.hook)
  /\ stack' = SetTop([Top EXCEPT !.phase = "deps"])
  /\ UNCHANGED <<program, pending, tasks, args, argAt, ran, prefix, status, started, done>>

\* A dependency of the task is run.
CallDep ==
  /\ Active("deps")
  /\ Top.dep < Len(DepsOf(Top))
  /\ RunTask(DepsOf(Top)[Top.dep + 1], SetTop([Top EXCEPT !.dep = @ + 1]))
  /\ UNCHANGED <<program, pending, tasks, args, argAt, ran, prefix, started, done>>

\* Fault: the task begins once its hooks have run.
BeginBeforeDeps ==
  /\ Active("deps")
  /\ prefix' = tasks[Cur].name
  /\ \/ /\ tasks[Cur].hasRun
        /\ stack' = SetTop([Top EXCEPT !.phase = "body"])
        /\ started' = Append(started, Cur)
        /\ UNCHANGED done
     \/ /\ ~tasks[Cur].hasRun
        /\ stack' = SetTop([Top EXCEPT !.phase = "match"])
        /\ done' = done \cup {Cur}
        /\ UNCHANGED started
  /\ UNCHANGED <<program, pending, tasks, args, argAt, ran, status>>

\* Hooks and dependencies are done: log.Prefix is set and Run, if any, called.
Begin ==
  /\ Active("deps")
  /\ Top.dep = Len(DepsOf(Top))
  /\ prefix' = tasks[Cur].name
  /\ \/ /\ tasks[Cur].hasRun
        /\ stack' = SetTop([Top EXCEPT !.phase = "body"])
        /\ started' = Append(started, Cur)
        /\ UNCHANGED done
     \/ /\ ~tasks[Cur].hasRun
        /\ stack' = SetTop([Top EXCEPT !.phase = "match"])
        /\ done' = done \cup {Cur}
        /\ UNCHANGED started
  /\ UNCHANGED <<program, pending, tasks, args, argAt, ran, status>>

BodyReturns ==
  /\ Active("body")
  /\ stack' = SetTop([Top EXCEPT !.phase = "match"])
  /\ done' = done \cup {Cur}
  /\ UNCHANGED <<program, pending, tasks, args, argAt, ran, prefix, status, started>>

BodyPanics ==
  /\ Active("body")
  /\ status' = "panicking"
  /\ UNCHANGED <<program, pending, tasks, args, argAt, ran, stack, prefix, started, done>>

\* Fault: log.Prefix is restored on return, not by a deferred call.
UnwindKeepsPrefix ==
  /\ status = "panicking"
  /\ IF stack # <<>> THEN stack' = SubSeq(stack, 1, Depth - 1) /\ UNCHANGED status
     ELSE status' = "failed" /\ UNCHANGED stack
  /\ UNCHANGED <<program, pending, tasks, args, argAt, ran, prefix, started, done>>

\* A panic leaves the active calls one by one, each restoring log.Prefix.
Unwind ==
  /\ status = "panicking"
  /\ \/ /\ stack # <<>>
        /\ prefix' = Top.saved
        /\ stack' = SubSeq(stack, 1, Depth - 1)
        /\ UNCHANGED status
     \/ /\ stack = <<>>
        /\ status' = "failed"
        /\ UNCHANGED <<prefix, stack>>
  /\ UNCHANGED <<program, pending, tasks, args, argAt, ran, started, done>>

Terminated == status \in {"ok", "failed"} /\ UNCHANGED vars

Step ==
  \/ AddTask \/ Run \/ NextArg \/ Finish
  \/ Skip \/ Pick \/ Return
  \/ CallHook \/ HooksDone \/ CallDep
  \/ Begin \/ BodyReturns \/ BodyPanics \/ Unwind

Next == Step \/ Terminated

Spec == Init /\ [][Next]_vars

\* The runner is one goroutine that nothing blocks; a task's Run is assumed to end.
FairSpec == Spec /\ WF_vars(Step)
-----------------------------------------------------------------------------
TypeOK ==
  /\ pending \in Seq(Def)
  /\ tasks \in Seq(Def)
  /\ args \in Seq(Name)
  /\ argAt \in Nat
  /\ ran \subseteq DOMAIN tasks
  /\ stack \in Seq(Frame)
  /\ prefix \in Prefix
  /\ status \in {"adding", "running", "panicking", "ok", "failed"}
  /\ started \in Seq(DOMAIN tasks)
  /\ done \subseteq DOMAIN tasks

(***************************************************************************)
(* "Don't re-run the same task" (the t.run check of runTask): however many *)
(* arguments, dependencies, hooks, aliases and shared names lead to a      *)
(* task, its Run is called at most once.                                   *)
(***************************************************************************)
AtMostOnce == \A i, j \in DOMAIN started : started[i] = started[j] => i = j

(***************************************************************************)
(* Dependencies and hooks come first (the two loops of runTask before      *)
(* tsk.Run()): when a task's Run is called, every task it pulls in has     *)
(* completed, except the tasks that pull it in themselves.                 *)
(***************************************************************************)
PrereqsFirst ==
  Active("body") =>
    \A p \in Pulls(tasks, Cur) : p \in done \/ Cur \in Reach(tasks, p)

(***************************************************************************)
(* The runner runs what the command line requires and nothing else, and    *)
(* when Run returns normally all of it has completed and no name it needed *)
(* was unknown (runTask panics on a name without tasks).                   *)
(***************************************************************************)
ExactlyTheRequired ==
  /\ status # "adding" => ran \subseteq Required(tasks, args)
  /\ status = "ok" => done = Required(tasks, args) /\ AllNamed(tasks, args)

(***************************************************************************)
(* The recursion of runTask is bounded by the number of tasks, whatever    *)
(* cycles the dependencies and hooks have.                                 *)
(***************************************************************************)
RecursionBounded == Depth <= Len(tasks) + 1

(***************************************************************************)
(* log.Prefix, saved and restored by every runTask, is the task's own while *)
(* its Run executes, hooks and dependencies notwithstanding, and is back   *)
(* to its first value whenever no task is active, after a panic too.       *)
(***************************************************************************)
PrefixScoped ==
  /\ Active("body") => prefix = tasks[Cur].name
  /\ stack = <<>> => prefix = NoPrefix

\* The run ends: in success, or with a panic that has left every call.
Terminates == <>(status \in {"ok", "failed"})

(***************************************************************************)
(* The inductive invariant of the proofs.                                  *)
(***************************************************************************)
\* The frames whose current task is marked as run and not completed.
Busy == {k \in DOMAIN stack : stack[k].phase # "match"}

\* A call for n, made by frame k (by Run when k = 0), is over or under way.
Handled(k, n) ==
  /\ FindByName(tasks, n) # {}
  /\ \/ FindByName(tasks, n) \subseteq ran
     \/ k < Depth /\ stack[k + 1].name = n

\* Before the tasks run nothing has run.
Untouched ==
  status = "adding" =>
    stack = <<>> /\ ran = {} /\ done = {} /\ started = <<>> /\ argAt = 0

\* Only the innermost call can be between tasks or in a task's Run.
CallersWait == \A k \in DOMAIN stack : k < Depth => stack[k].phase \in {"hooks", "deps"}

\* A busy frame's task is one its name stands for, run and not done, its alone.
BusyFrames ==
  \A k \in Busy :
    /\ stack[k].at \in ran \ done
    /\ stack[k].at \in FindByName(tasks, stack[k].name)
    /\ \A l \in Busy : stack[l].at = stack[k].at => l = k

\* Each call is for a name its caller wants, the first for an argument.
Chained ==
  \A k \in DOMAIN stack :
    IF k = 1 THEN argAt # 0 /\ stack[1].name = args[argAt]
    ELSE stack[k].name \in Wants(tasks, stack[k - 1].at)

\* A caller's task pulls in every task further in.
Descends ==
  \A j, k \in Busy : j < k => stack[k].at \in Reach(tasks, stack[j].at)

\* The loops of call k have handled what they have passed.
Passed(k) ==
  /\ \A m \in FindByName(tasks, stack[k].name) : m <= stack[k].at => m \in ran
  /\ k \in Busy =>
       /\ \A h \in HooksOf(stack[k]) :
            h <= stack[k].hook \/ stack[k].phase # "hooks" => Handled(k, tasks[h].name)
       /\ \A d \in 1..stack[k].dep : Handled(k, DepsOf(stack[k])[d])
       /\ stack[k].dep <= Len(DepsOf(stack[k]))
       /\ stack[k].phase = "body" => /\ stack[k].dep = Len(DepsOf(stack[k]))
                                     /\ tasks[stack[k].at].hasRun

LoopsPassed == \A k \in DOMAIN stack : Passed(k)

ArgsPassed == argAt <= Len(args) /\ \A a \in 1..argAt : Handled(0, args[a])

\* What is done has had everything it wants run.
DoneClosed ==
  \A i \in done : \A n \in Wants(tasks, i) :
    FindByName(tasks, n) # {} /\ FindByName(tasks, n) \subseteq ran

\* A task is completed, or a frame is busy with it.
Accounted == \A i \in ran : i \in done \/ \E k \in Busy : stack[k].at = i

StartedOnce ==
  /\ AtMostOnce
  /\ \A i \in DOMAIN started : started[i] \in ran
  /\ \A k \in Busy : stack[k].phase # "body" =>
       \A i \in DOMAIN started : started[i] # stack[k].at

IInv ==
  /\ TypeOK
  /\ Untouched
  /\ CallersWait
  /\ BusyFrames
  /\ Chained
  /\ Descends
  /\ done \subseteq ran
  /\ status = "running" => LoopsPassed /\ ArgsPassed /\ Accounted
  /\ DoneClosed
  /\ StartedOnce
  /\ ExactlyTheRequired
  /\ PrefixScoped
  /\ stack # <<>> => stack[1].saved = NoPrefix

(***************************************************************************)
(* The runner implements the schedule it promises.                         *)
(***************************************************************************)
Loaded(list) == IF status = "adding" THEN <<>> ELSE list

Outcome ==
  CASE status = "adding" -> "new"
    [] status = "running" -> "running"
    [] status = "ok" -> "ok"
    [] OTHER -> "failed"

Schedule == INSTANCE TaskSchedule WITH
  tasks <- Loaded(tasks), args <- Loaded(args), outcome <- Outcome

ImplementsSchedule == Schedule!Spec
=============================================================================
