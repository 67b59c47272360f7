--------------------------- MODULE TaskSchedule ---------------------------
(***************************************************************************)
(* What the task runner promises, without saying how: of the tasks the     *)
(* command line asks for and all they pull in, each is completed once, and *)
(* only when every task it pulls in is completed already, save those that  *)
(* pull it in themselves (on a cycle nobody can be first).  The run is ok  *)
(* only when all of them are completed and every name needed is known; it  *)
(* fails only when a name is unknown or a task of its own accord.          *)
(***************************************************************************)
EXTENDS Makefiles

VARIABLES
  tasks,   \* the registered tasks
  args,    \* the names asked for
  done,    \* the completed tasks
  outcome  \* new, running, ok or failed

vars == <<tasks, args, done, outcome>>

Init ==
  /\ tasks = <<>>
  /\ args = <<>>
  /\ done = {}
  /\ outcome = "new"

\* The makefile and the command line are read.
Load ==
  /\ outcome = "new"
  /\ tasks' \in Seq(Def)
  /\ args' \in Seq(Name)
  /\ \/ outcome' = "running"
     \/ tasks' = <<>> /\ outcome' = "failed"
  /\ UNCHANGED done

Complete(t) ==
  /\ outcome = "running"
  /\ t \notin done
  /\ done' = done \cup {t}
  /\ t \in Required(tasks, args)
  /\ \A p \in Pulls(tasks, t) : p \in done \/ t \in Reach(tasks, p)
  /\ UNCHANGED <<tasks, args, outcome>>

Fail ==
  /\ outcome = "running"
  /\ outcome' = "failed"
  /\ \/ ~AllNamed(tasks, args)
     \/ \E t \in Required(tasks, args) \ done : tasks[t].hasRun
  /\ UNCHANGED <<tasks, args, done>>

Succeed ==
  /\ outcome = "running"
  /\ outcome' = "ok"
  /\ done = Required(tasks, args)
  /\ AllNamed(tasks, args)
  /\ UNCHANGED <<tasks, args, done>>

Next == Load \/ (\E t \in DOMAIN tasks : Complete(t)) \/ Fail \/ Succeed

Spec == Init /\ [][Next]_vars
=============================================================================
