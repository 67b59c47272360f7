----------------------------- MODULE MCTaskfile -----------------------------
(***************************************************************************)
(* Taskfile for TLC: every project of a root file and two directories with *)
(* one file each, where the root has two includes and the others one, to   *)
(* anywhere, flattened or not on half of them; and projects for what       *)
(* these do not have.                                                      *)
(***************************************************************************)
EXTENDS Taskfile, TLC

CONSTANTS top, above, a, b  \* directories: the git root, the one above it, two below

File(d) == <<d, "Taskfile.yaml">>

Inc(ref, flatten) == [taskfile |-> ref, internal |-> FALSE, flatten |-> flatten]

Refs == {File(top), a, b}

\* An include of each kind that leads somewhere, and one that is not followed.
Incs == {Inc(r, f) : r \in Refs, f \in BOOLEAN} \cup {Inc(above, FALSE)}

TasksOf(ns) == [n \in ns |-> n # <<9>>]

Doc2(tasks, x, y) == [tasks |-> TasksOf(tasks), includes |-> (<<1>> :> x @@ <<2>> :> y)]
Doc1(tasks, x) == [tasks |-> TasksOf(tasks), includes |-> (<<1>> :> x)]

\* Task <<1, 3>> of the root has the name that task <<3>> gets in namespace <<1>>.
Graphs ==
  { (File(top) :> Doc2({<<1, 3>>, <<9>>}, x, y)) @@ (File(a) :> Doc1({<<3>>}, z)) @@
    (File(b) :> Doc1({<<3>>, <<4>>}, w)) :
      x, w \in {i \in Incs : ~i.flatten}, y, z \in Incs }

\* Candidates of one directory, references of every kind, files that cannot be parsed, a root
\* file above the git root.
Leaf == [tasks |-> TasksOf({<<3>>}), includes |-> <<>>]

OddIncs ==
  {Inc(r, FALSE) : r \in {Here, Remote, <<a, "other.yml">>, a, above}} \cup
  {[Inc(a, TRUE) EXCEPT !.internal = TRUE]}

FileSets ==
  { {<<a, Candidates[i]>> : i \in is} \cup fs :
      is \in SUBSET {1, 2, 4}, fs \in {{}, {<<a, "other.yml">>, <<above, "Taskfile.yml">>}} }

Others ==
  {<<>>, File(top) :> Malformed} \cup
  { (File(d) :> Doc2({<<5>>}, x, Inc(a, FALSE))) @@ [f \in fs |-> IF f = bad THEN Malformed ELSE Leaf] :
      d \in {top, above}, x \in OddIncs, fs \in FileSets,
      bad \in {None, <<a, "other.yml">>, <<a, "Taskfile.yml">>} }

MCProjects == Graphs \cup Others
MCUpward == <<top, above>>
MCDir == {top, above, a, b}

\* No glob; one that selects a namespace; one that is malformed after one that is not.
MCGlobs == {<<>>, <<{<<3>>, <<1, 3>>, <<1, 1, 3>>}>>, <<{<<3>>, <<5>>}, Malformed>>}
=============================================================================
