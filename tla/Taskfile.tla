------------------------------ MODULE Taskfile ------------------------------
(***************************************************************************)
(* Importing the tasks of a Taskfile.yaml (tasks/gotask/taskfile.go): the  *)
(* file is found from the git root upwards, it and what it includes are    *)
(* read, and the tasks found become go-make tasks, sorted by their names.  *)
(*                                                                         *)
(* collectTasks calls itself, so the model keeps its call stack.  Its      *)
(* loops go over Go maps, in an order that differs from run to run.  Names *)
(* and namespaces are sequences of numbers, which stand for the parts that *)
(* colons separate: a name may have several, and two files may come to the *)
(* same name in different ways.                                            *)
(***************************************************************************)
EXTENDS Naturals, Sequences, FiniteSets

CONSTANTS
  Dir,       \* the directories
  Upward,    \* the git root's directory and those above it, in that order
  Projects,  \* the files there may be, and what is in them
  GlobLists, \* what Tasks may be given
  Here,      \* an include without a taskfile
  Remote,    \* an include of something remote
  Malformed, \* a file that cannot be read or parsed, and a glob
  Args,      \* the arguments the program was started with
  None       \* the path "", and no command line

\* The names tried in a directory, in this order.
Candidates == <<"Taskfile.yml", "Taskfile.yaml", "taskfile.yml", "taskfile.yaml">>

Path == Dir \X STRING
Name == Seq(Nat)

\* includeRef, without `optional', which nothing reads.
Include == [taskfile : Dir \cup Path \cup {Here, Remote}, internal : BOOLEAN, flatten : BOOLEAN]

\* rawTaskfile: which tasks there are and whether they are listed, and the includes.
Doc(d) ==
  /\ d.tasks \in [DOMAIN d.tasks -> BOOLEAN] /\ DOMAIN d.tasks \subseteq Name
  /\ d.includes \in [DOMAIN d.includes -> Include] /\ DOMAIN d.includes \subseteq Name

ASSUME TaskfileAssumption ==
  /\ Upward \in Seq(Dir)
  /\ \A p \in Projects : /\ p \in [DOMAIN p -> {p[f] : f \in DOMAIN p}]
                         /\ DOMAIN p \subseteq Path /\ IsFiniteSet(DOMAIN p)
                         /\ \A f \in DOMAIN p : p[f] = Malformed \/ (p[f] # Malformed /\ Doc(p[f]))
  /\ None \notin Path \cup {Malformed}

VARIABLES
  project,   \* the files (they do not change)
  globs,     \* the argument of Tasks
  stack,     \* the active calls of collectTasks, outermost first
  out,       \* discoverTasks: the tasks found
  left,      \* discoverTasks and Tasks: those not yet in order and looked at
  subtasks,  \* Tasks: what it returns
  forwarded, \* what `task' is run with
  status

vars == <<project, globs, stack, out, left, subtasks, forwarded, status>>

Depth == Len(stack)
Top == stack[Depth]

\* An active call: what is left of its two loops.
Frame == [path : Path, prefix : Name, tasks : SUBSET Name, includes : SUBSET Name]

\* taskInfo.  The file stands for the description the task has there.
Entry == [name : Name, desc : Path]

\* The first of some places, if there is one.
First(S) == {n \in S : \A m \in S : n <= m}

\* file.FindParent(git.Root(), "Taskfile.yaml")
Root ==
  LET found == First({i \in DOMAIN Upward : <<Upward[i], "Taskfile.yaml">> \in DOMAIN project})
  IN  IF found = {} THEN None ELSE <<Upward[CHOOSE i \in found : TRUE], "Taskfile.yaml">>

(***************************************************************************)
(* Where an include leads: a file, or the first of the candidates in a     *)
(* directory; without a reference, the directory of the including file.    *)
(***************************************************************************)
resolveIncludePath(dir, ref) ==
  LET p == IF ref = Here THEN dir ELSE ref
      found == First({i \in DOMAIN Candidates : <<p, Candidates[i]>> \in DOMAIN project})
  IN  CASE p \in Dir /\ found # {} -> <<p, Candidates[CHOOSE i \in found : TRUE]>>
        [] p \notin Dir /\ p \in DOMAIN project -> p
        [] OTHER -> None

\* The file an include makes collectTasks look into, if any.
Follows(path, inc) ==
  IF inc.taskfile = Remote \/ inc.internal THEN None
  ELSE resolveIncludePath(path[1], inc.taskfile)

ChildPrefix(prefix, ns, inc) == IF inc.flatten THEN prefix ELSE prefix \o ns

\* The order of names; which one it is makes no difference.
Precedes(a, b) ==
  \/ \E k \in DOMAIN a \cap DOMAIN b :
       a[k] < b[k] /\ \A m \in 1..k - 1 : a[m] = b[m]
  \/ Len(a) < Len(b) /\ \A m \in DOMAIN a : a[m] = b[m]

(***************************************************************************)
(* matchesAny: the globs are tried in their order, each a set of names, up *)
(* to the first that matches; one that is malformed is a panic.            *)
(***************************************************************************)
Decides(name) == {i \in DOMAIN globs : globs[i] = Malformed \/ name \in globs[i]}
GlobPanics(name) == \E i \in First(Decides(name)) : globs[i] = Malformed
Matches(name) == globs = <<>> \/ (Decides(name) # {} /\ ~GlobPanics(name))

\* A call of collectTasks for a file that is not on its way already.
Reads(path, prefix, callers) ==
  \/ project[path] = Malformed /\ stack' = callers /\ status' = "panicked"
  \/ /\ project[path] # Malformed
     /\ stack' = Append(callers, [path |-> path, prefix |-> prefix, tasks |-> DOMAIN project[path].tasks,
                                  includes |-> DOMAIN project[path].includes])
     /\ status' = "collecting"

Ancestors(callers) == {callers[i].path : i \in DOMAIN callers}

\* Fault: a file that was read is not read again.
collectTasksOnce(path, prefix, callers) ==
  LET seen == Ancestors(callers) \cup {out[i].desc : i \in DOMAIN out} IN
  \/ path \in seen /\ stack' = callers /\ status' = "collecting"
  \/ path \notin seen /\ Reads(path, prefix, callers)

\* Fault: cycles are not looked for.
collectTasksAgain(path, prefix, callers) == Reads(path, prefix, callers)

(***************************************************************************)
(* collectTasks(path, prefix, ancestors, out), where ancestors are the     *)
(* files of the active calls: it comes back from a file that is one of     *)
(* them, and reads any other.                                              *)
(***************************************************************************)
collectTasks(path, prefix, callers) ==
  \/ path \in Ancestors(callers) /\ stack' = callers /\ status' = "collecting"
  \/ path \notin Ancestors(callers) /\ Reads(path, prefix, callers)
-----------------------------------------------------------------------------
Init ==
  /\ project \in Projects /\ globs \in GlobLists
  /\ stack = <<>> /\ out = <<>> /\ left = {} /\ subtasks = <<>>
  /\ forwarded = None
  /\ status = "start"

\* A makefile may hand its own arguments to `task' instead, if there is a Taskfile.
RunTaskfile ==
  /\ status = "start"
  /\ status' = "done"
  /\ forwarded' = IF Root = None THEN None ELSE Args
  /\ UNCHANGED <<project, globs, stack, out, left, subtasks>>

Tasks ==
  /\ status = "start"
  /\ \/ Root = None /\ status' = "done" /\ UNCHANGED stack
     \/ Root # None /\ collectTasks(Root, <<>>, <<>>)
  /\ UNCHANGED <<project, globs, out, left, subtasks, forwarded>>

Collecting == status = "collecting" /\ stack # <<>>

\* One task of the file: internal ones are left out.
CollectTask ==
  /\ Collecting
  /\ \E t \in Top.tasks :
       /\ stack' = [stack EXCEPT ![Depth].tasks = @ \ {t}]
       /\ out' = IF project[Top.path].tasks[t]
                 THEN Append(out, [name |-> Top.prefix \o t, desc |-> Top.path]) ELSE out
  /\ UNCHANGED <<project, globs, left, subtasks, forwarded, status>>

\* Fault: an include that closes a cycle is looked at again and again.
CollectIncludeStuck ==
  /\ Collecting /\ Top.tasks = {}
  /\ \E ns \in Top.includes :
       LET inc == project[Top.path].includes[ns]
           path == Follows(Top.path, inc)
           callers == [stack EXCEPT ![Depth].includes = @ \ {ns}]
       IN  \/ path = None /\ stack' = callers /\ UNCHANGED status
           \/ path \in Ancestors(stack) /\ UNCHANGED <<stack, status>>
           \/ path # None /\ path \notin Ancestors(stack)
              /\ collectTasks(path, ChildPrefix(Top.prefix, ns, inc), callers)
  /\ UNCHANGED <<project, globs, out, left, subtasks, forwarded>>

\* One include of the file, after its tasks: into the file it leads to, with the prefix for it.
CollectInclude ==
  /\ Collecting /\ Top.tasks = {}
  /\ \E ns \in Top.includes :
       LET inc == project[Top.path].includes[ns]
           path == Follows(Top.path, inc)
           callers == [stack EXCEPT ![Depth].includes = @ \ {ns}]
       IN  \/ path = None /\ stack' = callers /\ UNCHANGED status
           \/ path # None /\ collectTasks(path, ChildPrefix(Top.prefix, ns, inc), callers)
  /\ UNCHANGED <<project, globs, out, left, subtasks, forwarded>>

\* The end of a call; after that of the first one the tasks are sorted.
Return ==
  /\ Collecting /\ Top.tasks = {} /\ Top.includes = {}
  /\ stack' = SubSeq(stack, 1, Depth - 1)
  /\ IF Depth = 1 THEN status' = "sorted" /\ left' = DOMAIN out ELSE UNCHANGED <<status, left>>
  /\ UNCHANGED <<project, globs, out, subtasks, forwarded>>

(***************************************************************************)
(* The loop of Tasks takes the tasks in the order sort.Slice has brought   *)
(* them into: by name, those of one name in any order.                     *)
(***************************************************************************)
Expose ==
  /\ status = "sorted"
  /\ \E i \in left :
       /\ \A m \in left : ~Precedes(out[m].name, out[i].name)
       /\ left' = left \ {i}
       /\ IF GlobPanics(out[i].name) THEN status' = "panicked" ELSE UNCHANGED status
       /\ subtasks' = IF Matches(out[i].name) THEN Append(subtasks, out[i]) ELSE subtasks
  /\ UNCHANGED <<project, globs, stack, out, forwarded>>

Finish ==
  /\ status = "sorted" /\ left = {}
  /\ status' = "done"
  /\ UNCHANGED <<project, globs, stack, out, left, subtasks, forwarded>>

\* The Run of a subtask.
Forward ==
  /\ status = "done"
  /\ \E i \in DOMAIN subtasks : forwarded' = subtasks[i].name
  /\ UNCHANGED <<project, globs, stack, out, left, subtasks, status>>

Import == Tasks \/ CollectTask \/ CollectInclude \/ Return \/ Expose \/ Finish

Ended == status \in {"done", "panicked"} /\ UNCHANGED vars

Next == RunTaskfile \/ Import \/ Forward \/ Ended

Spec == Init /\ [][Next]_vars

FairSpec == Spec /\ WF_vars(Import)
-----------------------------------------------------------------------------
\* An include of the one call's file leads to the other call.
LeadsTo(caller, call) ==
  \E ns \in DOMAIN project[caller.path].includes :
    LET inc == project[caller.path].includes[ns] IN
    call.path = Follows(caller.path, inc) /\ call.prefix = ChildPrefix(caller.prefix, ns, inc)

\* A chain of includes from the root in which no file occurs twice.
IsChain(calls) ==
  /\ \A i, k \in DOMAIN calls : i # k => calls[i].path # calls[k].path
  /\ calls # <<>> => calls[1].path = Root /\ calls[1].prefix = <<>>
  /\ \A i \in 2..Len(calls) : LeadsTo(calls[i - 1], calls[i])

TypeOK ==
  /\ project \in Projects /\ globs \in GlobLists
  /\ stack \in Seq(Frame) /\ IsChain(stack)
  /\ out \in Seq(Entry) /\ subtasks \in Seq(Entry)
  /\ left \subseteq DOMAIN out
  /\ forwarded \in {None, Args} \cup Name
  /\ status \in {"start", "collecting", "sorted", "done", "panicked"}

(***************************************************************************)
(* The chains of includes from the root, each given by its namespaces:     *)
(* FileAt(c)[k] is the file that the first k of them lead to.              *)
(***************************************************************************)
WellFormed == {f \in DOMAIN project : project[f] # Malformed}
Namespaces == UNION {DOMAIN project[f].includes : f \in WellFormed}

FileAt(c) ==
  LET at[k \in 0..Len(c)] ==
        IF k = 0 THEN Root
        ELSE LET f == at[k - 1] IN
             IF f \in WellFormed /\ c[k] \in DOMAIN project[f].includes
             THEN Follows(f, project[f].includes[c[k]]) ELSE None
  IN  at

PrefixOf(c) ==
  LET at[k \in 0..Len(c)] ==
        IF k = 0 THEN <<>>
        ELSE ChildPrefix(at[k - 1], c[k], project[FileAt(c)[k - 1]].includes[c[k]])
  IN  at[Len(c)]

Chains ==
  {c \in UNION {[1..k -> Namespaces] : k \in 0..Cardinality(DOMAIN project) - 1} :
     LET at == FileAt(c) IN
     /\ \A k \in 0..Len(c) : at[k] # None
     /\ \A k, m \in 0..Len(c) : k # m => at[k] # at[m]}

EndOf(c) == FileAt(c)[Len(c)]

\* What is there to be found: a task once for every chain that leads to its file.
Found ==
  UNION {LET f == EndOf(c)
             prefix == PrefixOf(c)
         IN  {<<c, t, [name |-> prefix \o t, desc |-> f]>> :
                t \in {n \in DOMAIN project[f].tasks : project[f].tasks[n]}} :
         c \in {d \in Chains : EndOf(d) \in WellFormed}}

(***************************************************************************)
(* "Parses the Taskfile at path and all of its local includes, returning   *)
(* the flattened, namespaced task list sorted by name", where "cycles      *)
(* terminate while diamonds are still followed": whatever the order of the *)
(* maps, the tasks exposed are those the globs select of what every chain  *)
(* of includes without a cycle leads to, each as often as chains lead to   *)
(* it; and what is malformed fails if it is reached, and only then.        *)
(***************************************************************************)
ListsEveryChain ==
  LET times(e, s) == Cardinality({i \in DOMAIN s : s[i] = e})
      entries == {f[3] : f \in Found}
  IN  /\ status = "done" /\ forwarded # Args /\ Root # None =>
           /\ \A c \in Chains : EndOf(c) \in WellFormed
           /\ {subtasks[i] : i \in DOMAIN subtasks} = {e \in entries : Matches(e.name)}
           /\ \A e \in entries :
                Matches(e.name) => times(e, subtasks) = Cardinality({f \in Found : f[3] = e})
           /\ \A i, k \in DOMAIN subtasks : i < k => ~Precedes(subtasks[k].name, subtasks[i].name)
      /\ status = "panicked" =>
           \/ \E c \in Chains : EndOf(c) \notin WellFormed
           \/ \E e \in entries : GlobPanics(e.name)

(***************************************************************************)
(* "A cycle in the include graph terminates": the import ends, with a list *)
(* or a panic.                                                             *)
(***************************************************************************)
Terminates == status = "start" ~> status \in {"done", "panicked"}
=============================================================================
