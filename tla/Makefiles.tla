----------------------------- MODULE Makefiles -----------------------------
(***************************************************************************)
(* The data of a go-make makefile: task definitions, the flat list the     *)
(* task runner keeps of them, and the look-ups the runner makes in that    *)
(* list.  A registered task is known by its position in the list, as the   *)
(* code knows it by its pointer.                                           *)
(***************************************************************************)
EXTENDS Naturals, Sequences

CONSTANTS
  Name,  \* task names, aliases and labels
  Def    \* task definitions

(***************************************************************************)
(* type Task.  Its Run function is abstracted to whether there is one, its *)
(* Description to nothing.                                                 *)
(***************************************************************************)
Task(d) ==
  /\ d.name \in Name
  /\ d.aliases \subseteq Name
  /\ d.deps \in Seq(Name)
  /\ d.runsOn \subseteq Name
  /\ d.tasks \in Seq(Def)
  /\ d.hasRun \in BOOLEAN

ASSUME DefAssumption == \A d \in Def : Task(d)

(***************************************************************************)
(* findByName: the tasks a name stands for, by name or by alias.  Several  *)
(* tasks may share a name.                                                 *)
(***************************************************************************)
FindByName(ts, n) ==
  {i \in DOMAIN ts : ts[i].name = n \/ n \in ts[i].aliases}

(***************************************************************************)
(* findByLabel: the tasks hooked onto a label.                             *)
(***************************************************************************)
FindByLabel(ts, n) == {i \in DOMAIN ts : n \in ts[i].runsOn}

(***************************************************************************)
(* The names a task makes the runner run before its own Run: those of the  *)
(* tasks hooked onto its name, and its dependencies.                       *)
(***************************************************************************)
Wants(ts, i) ==
  {ts[h].name : h \in FindByLabel(ts, ts[i].name)} \cup
  {ts[i].deps[k] : k \in DOMAIN ts[i].deps}

\* The tasks those names stand for.
Pulls(ts, i) == UNION {FindByName(ts, n) : n \in Wants(ts, i)}

\* The sets of tasks that hold whatever their members pull in.
ClosedSets(ts) ==
  LET pulls == UNION {{i} \X Pulls(ts, i) : i \in DOMAIN ts}
  IN  {S \in SUBSET DOMAIN ts : \A e \in pulls : e[1] \in S => e[2] \in S}

\* The least closed set around S: its tasks and everything they pull in.
Closure(ts, S) ==
  LET CS == ClosedSets(ts) IN
  {j \in DOMAIN ts : \A C \in CS : S \subseteq C => j \in C}

\* The tasks i pulls in, directly or through others.
Reach(ts, i) == Closure(ts, Pulls(ts, i))

\* The tasks the command line `as' asks for.
Asked(ts, as) == UNION {FindByName(ts, as[k]) : k \in DOMAIN as}

\* The tasks asked for and everything they pull in.
Required(ts, as) == Closure(ts, Asked(ts, as))

\* Every name needed to do what the command line asks for is some task's.
AllNamed(ts, as) ==
  /\ \A k \in DOMAIN as : FindByName(ts, as[k]) # {}
  /\ \A i \in Required(ts, as) : \A n \in Wants(ts, i) : FindByName(ts, n) # {}
=============================================================================
