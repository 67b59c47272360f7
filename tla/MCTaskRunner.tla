--------------------------- MODULE MCTaskRunner ---------------------------
(***************************************************************************)
(* Small makefiles for TLC to run.                                         *)
(***************************************************************************)
EXTENDS TaskRunner

CONSTANT MaxDeps  \* bound on a task's dependencies

MCName == {"a", "b", "c", "help", "clean", "binny:clean"}

Leaf(n, as, ds, rs, run) ==
  [name |-> n, aliases |-> as, deps |-> ds, runsOn |-> rs, tasks |-> <<>>, hasRun |-> run]

\* The built-in tasks that matter to scheduling: a default, a label, a hook on it.
MCBuiltins ==
  << Leaf("help", {}, <<>>, {}, TRUE),
     Leaf("clean", {}, <<>>, {}, FALSE),
     Leaf("binny:clean", {}, <<>>, {"clean"}, TRUE) >>

HelpArgs == <<"help">>

DepLists(S) == UNION {[1..k -> S] : k \in 0..MaxDeps}

BuiltinDefs == {MCBuiltins[i] : i \in DOMAIN MCBuiltins}

(***************************************************************************)
(* Every makefile of two tasks that share names, aliases, dependencies and *)
(* hooks in every way, with a third name nobody but an alias answers to.   *)
(***************************************************************************)
PairLeaf ==
  { Leaf(n, as, ds, rs, TRUE) : n \in {"a", "b"}, as \in {{}, {"c"}},
      ds \in DepLists({"a", "b", "c"}), rs \in {{}, {"a"}, {"b"}} }

PairDef == PairLeaf \cup BuiltinDefs
PairPrograms == PairLeaf \X PairLeaf

(***************************************************************************)
(* Every makefile of tasks a, b and c with dependencies between them, on   *)
(* each other and on the label clean, and hooks on each other.             *)
(***************************************************************************)
TripleLeaf(n) ==
  { Leaf(n, {}, ds, rs, n # "c") :
      ds \in DepLists({"a", "b", "c", "clean"} \ {n}), rs \in SUBSET ({"a", "c"} \ {n}) }

TripleDef == TripleLeaf("a") \cup TripleLeaf("b") \cup TripleLeaf("c") \cup BuiltinDefs
TriplePrograms == TripleLeaf("a") \X TripleLeaf("b") \X TripleLeaf("c")

(***************************************************************************)
(* Makefiles with subtasks, two levels deep, that share names with and     *)
(* depend on tasks of other levels.                                        *)
(***************************************************************************)
NestLeaf == {Leaf(n, {}, ds, {}, TRUE) : n \in {"a", "b"}, ds \in DepLists({"b"})}
NestMid == {[d EXCEPT !.tasks = ts] : d \in NestLeaf, ts \in NestLeaf \X NestLeaf}
NestTop == {[d EXCEPT !.tasks = <<m>>, !.name = "c", !.deps = <<"a">>] : d \in NestLeaf, m \in NestMid}
NestDef == NestLeaf \cup NestMid \cup NestTop
NestPrograms == {<<>>} \cup {<<t, l>> : t \in NestTop, l \in NestLeaf}

MCDef == PairDef \cup TripleDef \cup NestDef
MCPrograms == PairPrograms \cup TriplePrograms \cup NestPrograms
MCArgs == {<<>>, <<"c", "clean", "a">>}
=============================================================================
