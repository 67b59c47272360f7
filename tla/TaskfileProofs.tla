--------------------------- MODULE TaskfileProofs ---------------------------
(***************************************************************************)
(* For any files and globs: the calls of collectTasks form a chain of      *)
(* includes without a cycle; every task that Tasks exposes matches the     *)
(* globs and is one that such a chain leads to, in the order of names; and *)
(* none that a chain leads to is left out, or exposed more often than      *)
(* chains lead to it.                                                      *)
(*                                                                         *)
(* For the last, CInv says which chain the active calls are for, and that  *)
(* what was found is what there is to be found less what these calls still *)
(* await, one for one.                                                     *)
(***************************************************************************)
EXTENDS Taskfile, SequenceTheorems, FunctionTheorems, FiniteSetTheorems, TLAPS

\* A task that is not internal, in a file at the end of a chain of includes.
Listed(e) ==
  \E calls \in Seq(Frame) :
    /\ calls # <<>> /\ IsChain(calls)
    /\ LET last == calls[Len(calls)] IN
       /\ project[last.path] # Malformed
       /\ \E t \in DOMAIN project[last.path].tasks :
            /\ project[last.path].tasks[t]
            /\ e = [name |-> last.prefix \o t, desc |-> last.path]

OnlyListed == \A i \in DOMAIN subtasks : Listed(subtasks[i]) /\ Matches(subtasks[i].name)

Ordered ==
  \A i, k \in DOMAIN subtasks : i < k => ~Precedes(subtasks[k].name, subtasks[i].name)

\* What a call has left to do is in its file.
Reading(f) ==
  /\ f.path \in DOMAIN project /\ project[f.path] # Malformed
  /\ f.tasks \subseteq DOMAIN project[f.path].tasks
  /\ f.includes \subseteq DOMAIN project[f.path].includes

IInv ==
  /\ TypeOK
  /\ \A i \in DOMAIN stack : Reading(stack[i])
  /\ \A i \in DOMAIN out : Listed(out[i])
  /\ OnlyListed /\ Ordered
  /\ status \in {"start", "collecting"} => subtasks = <<>>
  /\ \A m \in left, k \in DOMAIN subtasks : ~Precedes(out[m].name, subtasks[k].name)
-----------------------------------------------------------------------------
(* Where files are found.                                                  *)

LEMMA RootIs == Root \in DOMAIN project \cup {None}
  <1> DEFINE found == First({i \in DOMAIN Upward : <<Upward[i], "Taskfile.yaml">> \in DOMAIN project})
  <1>1. CASE found = {}
    BY <1>1 DEF Root
  <1>2. CASE found # {}
    <2>1. (CHOOSE i \in found : TRUE) \in found
      BY <1>2
    <2>2. \A i \in found : <<Upward[i], "Taskfile.yaml">> \in DOMAIN project
      BY DEF First
    <2>3. Root = <<Upward[CHOOSE i \in found : TRUE], "Taskfile.yaml">>
      BY <1>2 DEF Root
    <2>. HIDE DEF found
    <2>. QED  BY <2>1, <2>2, <2>3
  <1>. QED  BY <1>1, <1>2

LEMMA ResolvedIs ==
  ASSUME NEW dir, NEW ref PROVE resolveIncludePath(dir, ref) \in DOMAIN project \cup {None}
  <1> DEFINE p == IF ref = Here THEN dir ELSE ref
             found == First({i \in DOMAIN Candidates : <<p, Candidates[i]>> \in DOMAIN project})
  <1>1. CASE p \in Dir /\ found # {}
    <2>1. (CHOOSE i \in found : TRUE) \in found
      BY <1>1
    <2>2. \A i \in found : <<p, Candidates[i]>> \in DOMAIN project
      BY DEF First
    <2>3. resolveIncludePath(dir, ref) = <<p, Candidates[CHOOSE i \in found : TRUE]>>
      BY <1>1 DEF resolveIncludePath
    <2>. HIDE DEF p, found
    <2>. QED  BY <2>1, <2>2, <2>3
  <1>2. CASE p \notin Dir /\ p \in DOMAIN project
    BY <1>2 DEF resolveIncludePath
  <1>3. CASE ~(p \in Dir /\ found # {}) /\ ~(p \notin Dir /\ p \in DOMAIN project)
    <2>1. resolveIncludePath(dir, ref) = None
      BY <1>3 DEF resolveIncludePath
    <2>. QED  BY <2>1
  <1>. QED  BY <1>1, <1>2, <1>3

LEMMA FollowsIs ==
  ASSUME NEW path, NEW inc PROVE Follows(path, inc) \in DOMAIN project \cup {None}
  BY ResolvedIs DEF Follows

\* What a project's files are made of.
LEMMA ProjectIs ==
  ASSUME project \in Projects, NEW f \in DOMAIN project
  PROVE  /\ f \in Path /\ f # None
         /\ project[f] # Malformed =>
              /\ DOMAIN project[f].tasks \subseteq Name
              /\ DOMAIN project[f].includes \subseteq Name
  BY TaskfileAssumption DEF Doc
-----------------------------------------------------------------------------
(* Chains of calls.                                                        *)

LEMMA ChainAppend ==
  ASSUME NEW calls \in Seq(Frame), IsChain(calls), NEW call \in Frame,
         call.path \notin Ancestors(calls),
         calls = <<>> => call.path = Root /\ call.prefix = <<>>,
         calls # <<>> => LeadsTo(calls[Len(calls)], call)
  PROVE  IsChain(Append(calls, call))
  <1> DEFINE longer == Append(calls, call)
             n == Len(calls)
  <1>1. /\ n \in Nat /\ Len(longer) = n + 1 /\ longer[n + 1] = call /\ longer # <<>>
        /\ \A i \in 1..n : longer[i] = calls[i]
        /\ DOMAIN calls = 1..n /\ DOMAIN longer = 1..n + 1
    OBVIOUS
  <1>2. calls = <<>> <=> n = 0
    OBVIOUS
  <1>3. \A i \in 1..n : call.path # calls[i].path
    BY <1>1 DEF Ancestors
  <1>. HIDE DEF longer, n
  <1>4. \A i, k \in DOMAIN longer : i # k => longer[i].path # longer[k].path
    <2> SUFFICES ASSUME NEW i \in 1..n + 1, NEW k \in 1..n + 1, i # k PROVE longer[i].path # longer[k].path
      BY <1>1
    <2>1. CASE i \in 1..n /\ k \in 1..n
      BY <1>1, <2>1 DEF IsChain
    <2>2. CASE i = n + 1 \/ k = n + 1
      BY <1>1, <1>3, <2>2
    <2>. QED  BY <1>1, <2>1, <2>2
  <1>5. longer[1].path = Root /\ longer[1].prefix = <<>>
    <2>1. CASE n = 0
      BY <1>1, <1>2, <2>1
    <2>2. CASE n # 0
      BY <1>1, <1>2, <2>2 DEF IsChain
    <2>. QED  BY <2>1, <2>2
  <1>6. ASSUME NEW i \in 2..n + 1 PROVE LeadsTo(longer[i - 1], longer[i])
    <2>1. CASE i \in 2..n
      <3>1. longer[i] = calls[i] /\ longer[i - 1] = calls[i - 1]
        BY <1>1, <2>1
      <3>. QED  BY <2>1, <3>1 DEF IsChain, n
    <2>2. CASE i = n + 1
      <3>1. longer[i] = call /\ longer[i - 1] = calls[n] /\ n # 0
        BY <1>1, <2>2
      <3>. QED  BY <1>2, <3>1 DEF n
    <2>. QED  BY <1>1, <2>1, <2>2
  <1>. QED  BY <1>1, <1>4, <1>5, <1>6 DEF IsChain, longer

\* A chain stays one while its calls go on with what they have left.
LEMMA ChainSame ==
  ASSUME NEW calls \in Seq(Frame), IsChain(calls), NEW same \in Seq(Frame), Len(same) = Len(calls),
         \A i \in 1..Len(calls) : same[i].path = calls[i].path /\ same[i].prefix = calls[i].prefix
  PROVE  IsChain(same) /\ Ancestors(same) = Ancestors(calls)
  <1>1. /\ Len(calls) \in Nat /\ DOMAIN same = 1..Len(calls) /\ DOMAIN calls = 1..Len(calls)
        /\ (same = <<>> <=> Len(calls) = 0) /\ (calls = <<>> <=> Len(calls) = 0)
    OBVIOUS
  <1>2. \A i, k \in DOMAIN same : i # k => same[i].path # same[k].path
    BY <1>1 DEF IsChain
  <1>3. same # <<>> => same[1].path = Root /\ same[1].prefix = <<>>
    BY <1>1 DEF IsChain
  <1>4. ASSUME NEW i \in 2..Len(same) PROVE LeadsTo(same[i - 1], same[i])
    <2>1. i - 1 \in 1..Len(calls) /\ i \in 1..Len(calls) /\ i \in 2..Len(calls)
      BY <1>1
    <2>2. LeadsTo(calls[i - 1], calls[i])
      BY <2>1 DEF IsChain
    <2>3. /\ same[i - 1].path = calls[i - 1].path /\ same[i - 1].prefix = calls[i - 1].prefix
          /\ same[i].path = calls[i].path /\ same[i].prefix = calls[i].prefix
      BY <2>1
    <2>. QED  BY <2>2, <2>3 DEF LeadsTo
  <1>5. Ancestors(same) = Ancestors(calls)
    BY <1>1 DEF Ancestors
  <1>. QED  BY <1>2, <1>3, <1>4, <1>5 DEF IsChain

LEMMA ChainFront ==
  ASSUME NEW calls \in Seq(Frame), IsChain(calls), calls # <<>>
  PROVE  LET front == SubSeq(calls, 1, Len(calls) - 1) IN
         /\ front \in Seq(Frame) /\ IsChain(front)
         /\ DOMAIN front \subseteq DOMAIN calls /\ \A i \in DOMAIN front : front[i] = calls[i]
  <1> DEFINE front == SubSeq(calls, 1, Len(calls) - 1)
             n == Len(calls)
  <1>1. n \in Nat \ {0} /\ DOMAIN calls = 1..n
    OBVIOUS
  <1>2. /\ front \in Seq(Frame) /\ Len(front) = n - 1 /\ DOMAIN front = 1..n - 1
        /\ \A i \in 1..n - 1 : front[i] = calls[i]
    BY <1>1
  <1>. HIDE DEF front, n
  <1>3. DOMAIN front \subseteq DOMAIN calls /\ (front # <<>> => 1 \in DOMAIN front)
    BY <1>1, <1>2
  <1>4. \A i, k \in DOMAIN front : i # k => front[i].path # front[k].path
    BY <1>1, <1>2, <1>3 DEF IsChain
  <1>5. front # <<>> => front[1].path = Root /\ front[1].prefix = <<>>
    BY <1>1, <1>2, <1>3 DEF IsChain
  <1>6. ASSUME NEW i \in 2..n - 1 PROVE LeadsTo(front[i - 1], front[i])
    <2>1. front[i] = calls[i] /\ front[i - 1] = calls[i - 1] /\ i \in 2..n
      BY <1>1, <1>2
    <2>. QED  BY <2>1 DEF IsChain, n
  <1>7. IsChain(front)
    BY <1>2, <1>4, <1>5, <1>6 DEF IsChain
  <1>. QED  BY <1>2, <1>3, <1>7 DEF front
-----------------------------------------------------------------------------
(* The files do not change, nor what is said of them.                      *)

LEMMA RootSame == ASSUME UNCHANGED project PROVE Root' = Root
  BY DEF Root

LEMMA FollowsSame ==
  ASSUME UNCHANGED project, NEW path, NEW inc PROVE Follows(path, inc)' = Follows(path, inc)
  BY DEF Follows, resolveIncludePath

LEMMA ChainPrimed ==
  ASSUME UNCHANGED project, NEW calls PROVE IsChain(calls)' <=> IsChain(calls)
  <1>1. \A f, g : LeadsTo(f, g)' <=> LeadsTo(f, g)
    BY FollowsSame DEF LeadsTo, ChildPrefix
  <1>. QED  BY <1>1, RootSame DEF IsChain

LEMMA ListedPrimed ==
  ASSUME UNCHANGED project, NEW e PROVE Listed(e)' <=> Listed(e)
  BY ChainPrimed DEF Listed
-----------------------------------------------------------------------------
(* The steps of an import.                                                 *)

LEMMA InitEstablishes == Init => IInv
  <1> SUFFICES ASSUME Init PROVE IInv
    OBVIOUS
  <1>1. /\ stack = <<>> /\ out = <<>> /\ left = {} /\ subtasks = <<>> /\ forwarded = None
        /\ status = "start" /\ project \in Projects /\ globs \in GlobLists
    BY DEF Init
  <1>2. IsChain(stack)
    BY <1>1 DEF IsChain
  <1>3. TypeOK
    BY <1>1, <1>2 DEF TypeOK
  <1>. QED  BY <1>1, <1>3 DEF IInv, OnlyListed, Ordered

\* collectTasks called for a file behind the calls there are.
LEMMA Collects ==
  ASSUME project \in Projects, UNCHANGED project, NEW path \in DOMAIN project, NEW prefix \in Name,
         NEW callers \in Seq(Frame), IsChain(callers), \A i \in DOMAIN callers : Reading(callers[i]),
         callers = <<>> => path = Root /\ prefix = <<>>,
         callers # <<>> => \A call : call.path = path /\ call.prefix = prefix
                                       => LeadsTo(callers[Len(callers)], call),
         collectTasks(path, prefix, callers)
  PROVE  /\ stack' \in Seq(Frame) /\ IsChain(stack)' /\ \A i \in DOMAIN stack' : Reading(stack'[i])
         /\ status' \in {"collecting", "panicked"}
  <1> DEFINE call == [path |-> path, prefix |-> prefix, tasks |-> DOMAIN project[path].tasks,
                      includes |-> DOMAIN project[path].includes]
  <1>1. CASE stack' = callers /\ status' \in {"collecting", "panicked"}
    BY <1>1, ChainPrimed
  <1>2. CASE /\ path \notin Ancestors(callers) /\ project[path] # Malformed
             /\ stack' = Append(callers, call) /\ status' = "collecting"
    <2>1. call \in Frame
      BY <1>2, ProjectIs DEF Frame
    <2>2. call.path = path /\ call.prefix = prefix
      OBVIOUS
    <2>3. Reading(call)
      BY <1>2 DEF Reading
    <2>. HIDE DEF call
    <2>4. IsChain(Append(callers, call))
      BY <1>2, <2>1, <2>2, ChainAppend
    <2>5. Append(callers, call) \in Seq(Frame)
      BY <2>1
    <2>6. \A i \in DOMAIN Append(callers, call) : Reading(Append(callers, call)[i])
      <3>1. DOMAIN Append(callers, call) = 1..Len(callers) + 1 /\ DOMAIN callers = 1..Len(callers)
            /\ Append(callers, call)[Len(callers) + 1] = call
            /\ \A i \in 1..Len(callers) : Append(callers, call)[i] = callers[i]
        BY <2>1
      <3>. QED  BY <2>3, <3>1
    <2>. QED  BY <1>2, <2>4, <2>5, <2>6, ChainPrimed
  <1>. QED  BY <1>1, <1>2 DEF collectTasks, Reads

\* Steps that change the calls, and perhaps where they have come to.
LEMMA Calling ==
  ASSUME IInv, UNCHANGED <<project, globs, left, subtasks, forwarded>>, status \in {"start", "collecting"},
         stack' \in Seq(Frame), IsChain(stack)', \A i \in DOMAIN stack' : Reading(stack'[i]),
         status' \in {"collecting", "panicked", "done"}, out' \in Seq(Entry),
         DOMAIN out \subseteq DOMAIN out', \A i \in DOMAIN out' : Listed(out'[i])
  PROVE  IInv'
  <1>1. (\A i \in DOMAIN stack : Reading(stack[i]))'
    BY DEF Reading
  <1>2. (\A i \in DOMAIN out : Listed(out[i]))'
    BY ListedPrimed
  <1>3. subtasks = <<>> /\ subtasks' = <<>>
    BY DEF IInv
  <1>4. TypeOK'
    BY DEF IInv, TypeOK
  <1>5. (OnlyListed /\ Ordered)' /\ (\A m \in left, k \in DOMAIN subtasks : ~Precedes(out[m].name, subtasks[k].name))'
    BY <1>3 DEF OnlyListed, Ordered
  <1>. QED  BY <1>1, <1>2, <1>3, <1>4, <1>5 DEF IInv

LEMMA TasksStep == ASSUME IInv, Tasks PROVE IInv'
  <1>1. UNCHANGED <<project, globs, out, left, subtasks, forwarded>> /\ status = "start"
    BY DEF Tasks
  <1>2. CASE status' = "done" /\ UNCHANGED stack
    <2>1. IsChain(stack)' /\ stack' \in Seq(Frame) /\ \A i \in DOMAIN stack' : Reading(stack'[i])
      BY <1>1, <1>2, ChainPrimed DEF IInv, TypeOK
    <2>. QED  BY <1>1, <1>2, <2>1, Calling DEF IInv, TypeOK
  <1>3. CASE Root # None /\ collectTasks(Root, <<>>, <<>>)
    <2>1. Root \in DOMAIN project /\ <<>> \in Name /\ project \in Projects
      BY <1>3, RootIs DEF Name, IInv, TypeOK
    <2> DEFINE none == <<>>
    <2>2. /\ IsChain(none) /\ none \in Seq(Frame) /\ none \in Name /\ none = <<>>
          /\ \A i \in DOMAIN none : Reading(none[i])
      BY DEF IsChain, Name
    <2>4. collectTasks(Root, none, none)
      BY <1>3
    <2>. HIDE DEF none
    <2>3. /\ stack' \in Seq(Frame) /\ IsChain(stack)' /\ \A i \in DOMAIN stack' : Reading(stack'[i])
          /\ status' \in {"collecting", "panicked"}
      BY <1>1, <2>1, <2>2, <2>4, Collects
    <2>. QED  BY <1>1, <2>3, Calling DEF IInv, TypeOK
  <1>. QED  BY <1>2, <1>3 DEF Tasks

LEMMA TopIs ==
  ASSUME IInv, Collecting
  PROVE  /\ Depth \in Nat \ {0} /\ Depth \in DOMAIN stack /\ Top = stack[Depth] /\ Top \in Frame
         /\ DOMAIN stack = 1..Depth /\ Reading(Top) /\ stack \in Seq(Frame) /\ IsChain(stack)
  <1>1. stack \in Seq(Frame) /\ stack # <<>> /\ IsChain(stack)
    BY DEF IInv, TypeOK, Collecting
  <1>2. Len(stack) \in Nat \ {0} /\ DOMAIN stack = 1..Len(stack)
    BY <1>1
  <1>. QED  BY <1>1, <1>2 DEF Depth, Top, IInv

\* The innermost call goes on: the chain is the same.
LEMMA Onward ==
  ASSUME IInv, Collecting, NEW call \in Frame, call.path = Top.path, call.prefix = Top.prefix,
         call.tasks \subseteq Top.tasks, call.includes \subseteq Top.includes,
         NEW calls, calls = [stack EXCEPT ![Depth] = call]
  PROVE  /\ calls \in Seq(Frame) /\ IsChain(calls) /\ Ancestors(calls) = Ancestors(stack)
         /\ Len(calls) = Depth /\ calls # <<>> /\ calls[Depth] = call
         /\ \A i \in DOMAIN calls : Reading(calls[i])
  <1>1. /\ calls \in Seq(Frame) /\ Len(calls) = Depth /\ DOMAIN calls = 1..Depth /\ calls[Depth] = call
        /\ \A i \in 1..Depth : i # Depth => calls[i] = stack[i]
    <2>1. stack \in Seq(Frame) /\ Depth \in 1..Len(stack) /\ Depth = Len(stack)
      BY TopIs DEF Depth
    <2>. QED  BY <2>1, ExceptSeq
  <1>2. \A i \in 1..Depth : calls[i].path = stack[i].path /\ calls[i].prefix = stack[i].prefix
    BY <1>1, TopIs
  <1>3. IsChain(calls) /\ Ancestors(calls) = Ancestors(stack)
    <2>1. Depth = Len(stack)
      BY DEF Depth
    <2>. QED  BY <1>1, <1>2, <2>1, TopIs, ChainSame
  <1>4. Reading(call)
    BY TopIs DEF Reading
  <1>5. \A i \in DOMAIN calls : Reading(calls[i])
    BY <1>1, <1>4, TopIs DEF IInv
  <1>6. calls # <<>>
    BY <1>1, TopIs
  <1>. QED  BY <1>1, <1>3, <1>5, <1>6

LEMMA CollectTaskStep == ASSUME IInv, CollectTask PROVE IInv'
  <1>1. /\ UNCHANGED <<project, globs, left, subtasks, forwarded, status>> /\ Collecting
        /\ status = "collecting"
    BY DEF CollectTask, Collecting
  <1>2. PICK t \in Top.tasks :
          /\ stack' = [stack EXCEPT ![Depth].tasks = @ \ {t}]
          /\ out' = IF project[Top.path].tasks[t]
                    THEN Append(out, [name |-> Top.prefix \o t, desc |-> Top.path]) ELSE out
    BY DEF CollectTask
  <1> DEFINE call == [Top EXCEPT !.tasks = @ \ {t}]
  <1>3. call \in Frame /\ call.path = Top.path /\ call.prefix = Top.prefix
        /\ call.tasks \subseteq Top.tasks /\ call.includes \subseteq Top.includes
    BY <1>1, TopIs DEF Frame
  <1>4. stack' = [stack EXCEPT ![Depth] = call]
    BY <1>1, <1>2, TopIs
  <1>. HIDE DEF call
  <1>5. stack' \in Seq(Frame) /\ IsChain(stack)' /\ \A i \in DOMAIN stack' : Reading(stack'[i])
    BY <1>1, <1>3, <1>4, Onward, ChainPrimed
  <1>6. CASE ~project[Top.path].tasks[t]
    <2>1. out' = out
      BY <1>2, <1>6
    <2>. QED  BY <1>1, <1>5, <2>1, Calling DEF IInv, TypeOK
  <1>7. CASE project[Top.path].tasks[t]
    <2> DEFINE e == [name |-> Top.prefix \o t, desc |-> Top.path]
    <2>1. t \in DOMAIN project[Top.path].tasks /\ project[Top.path] # Malformed
          /\ Top.path \in DOMAIN project /\ project \in Projects
      BY <1>1, TopIs DEF Reading, IInv, TypeOK
    <2>2. t \in Name /\ Top.path \in Path /\ Top.prefix \in Name
      BY <1>1, <2>1, ProjectIs, TopIs DEF Frame
    <2>3. e \in Entry
      <3>1. Top.prefix \o t \in Name
        BY <2>2 DEF Name
      <3>. QED  BY <2>2, <3>1 DEF Entry
    <2>4. Listed(e)
      <3>1. Depth = Len(stack) /\ Top = stack[Len(stack)] /\ stack # <<>>
        BY <1>1 DEF Depth, Top, Collecting
      <3>. QED  BY <1>1, <1>7, <2>1, <3>1, TopIs DEF Listed
    <2>5. out' = Append(out, e) /\ out \in Seq(Entry)
      BY <1>2, <1>7 DEF IInv, TypeOK
    <2>. HIDE DEF e
    <2>6. out' \in Seq(Entry) /\ DOMAIN out' = 1..Len(out) + 1 /\ DOMAIN out = 1..Len(out)
          /\ out'[Len(out) + 1] = e /\ \A i \in 1..Len(out) : out'[i] = out[i]
      BY <2>3, <2>5
    <2>7. \A i \in DOMAIN out' : Listed(out'[i])
      BY <2>4, <2>6 DEF IInv
    <2>8. DOMAIN out \subseteq DOMAIN out'
      BY <2>5, <2>6
    <2>. QED  BY <1>1, <1>5, <2>6, <2>7, <2>8, Calling
  <1>8. project[Top.path].tasks[t] \in BOOLEAN
    <2>1. t \in DOMAIN project[Top.path].tasks /\ project[Top.path] # Malformed
          /\ Top.path \in DOMAIN project /\ project \in Projects
      BY <1>1, TopIs DEF Reading, IInv, TypeOK
    <2>. QED  BY <2>1, TaskfileAssumption DEF Doc
  <1>. QED  BY <1>6, <1>7

LEMMA CollectIncludeStep == ASSUME IInv, CollectInclude PROVE IInv'
  <1>1. /\ UNCHANGED <<project, globs, out, left, subtasks, forwarded>> /\ Collecting
        /\ status = "collecting"
    BY DEF CollectInclude, Collecting
  <1>2. PICK ns \in Top.includes :
          LET inc == project[Top.path].includes[ns]
              path == Follows(Top.path, inc)
              callers == [stack EXCEPT ![Depth].includes = @ \ {ns}]
          IN  \/ path = None /\ stack' = callers /\ UNCHANGED status
              \/ path # None /\ collectTasks(path, ChildPrefix(Top.prefix, ns, inc), callers)
    BY DEF CollectInclude
  <1> DEFINE inc == project[Top.path].includes[ns]
             path == Follows(Top.path, inc)
             callers == [stack EXCEPT ![Depth].includes = @ \ {ns}]
             call == [Top EXCEPT !.includes = @ \ {ns}]
  <1>3. call \in Frame /\ call.path = Top.path /\ call.prefix = Top.prefix
        /\ call.tasks \subseteq Top.tasks /\ call.includes \subseteq Top.includes
    BY <1>1, TopIs DEF Frame
  <1>4. callers = [stack EXCEPT ![Depth] = call]
    BY <1>1, TopIs
  <1>5. \/ path = None /\ stack' = callers /\ UNCHANGED status
        \/ path # None /\ collectTasks(path, ChildPrefix(Top.prefix, ns, inc), callers)
    BY <1>2
  <1>. HIDE DEF call, callers
  <1>6. /\ callers \in Seq(Frame) /\ IsChain(callers) /\ callers # <<>> /\ Len(callers) = Depth
        /\ callers[Depth] = call /\ \A i \in DOMAIN callers : Reading(callers[i])
    BY <1>1, <1>3, <1>4, Onward
  <1>7. CASE path = None /\ stack' = callers /\ UNCHANGED status
    <2>1. IsChain(stack)' /\ \A i \in DOMAIN stack' : Reading(stack'[i])
      BY <1>1, <1>6, <1>7, ChainPrimed
    <2>. QED  BY <1>1, <1>6, <1>7, <2>1, Calling DEF IInv, TypeOK
  <1>8. CASE path # None /\ collectTasks(path, ChildPrefix(Top.prefix, ns, inc), callers)
    <2>1. path \in DOMAIN project /\ project \in Projects
      BY <1>8, FollowsIs DEF IInv, TypeOK
    <2>2. ns \in DOMAIN project[Top.path].includes /\ project[Top.path] # Malformed
          /\ Top.path \in DOMAIN project
      BY <1>1, TopIs DEF Reading
    <2>3. ns \in Name /\ Top.prefix \in Name
      BY <1>1, <2>1, <2>2, ProjectIs, TopIs DEF Frame
    <2>4. ChildPrefix(Top.prefix, ns, inc) \in Name
      BY <2>3 DEF ChildPrefix, Name
    <2>5. ASSUME NEW next, next.path = path, next.prefix = ChildPrefix(Top.prefix, ns, inc)
          PROVE  LeadsTo(callers[Len(callers)], next)
      BY <1>3, <1>6, <2>2, <2>5 DEF LeadsTo
    <2>. HIDE DEF path, inc
    <2>6. /\ stack' \in Seq(Frame) /\ IsChain(stack)' /\ \A i \in DOMAIN stack' : Reading(stack'[i])
          /\ status' \in {"collecting", "panicked"}
      BY <1>1, <1>6, <1>8, <2>1, <2>4, <2>5, Collects
    <2>. QED  BY <1>1, <2>6, Calling DEF IInv, TypeOK
  <1>. QED  BY <1>5, <1>7, <1>8

LEMMA ReturnStep == ASSUME IInv, Return PROVE IInv'
  <1>1. /\ UNCHANGED <<project, globs, out, subtasks, forwarded>> /\ Collecting
        /\ status = "collecting" /\ stack # <<>> /\ stack' = SubSeq(stack, 1, Len(stack) - 1)
        /\ \/ status' = "sorted" /\ left' = DOMAIN out
           \/ UNCHANGED <<status, left>>
    BY DEF Return, Collecting, Depth
  <1>2. /\ stack' \in Seq(Frame) /\ IsChain(stack')
        /\ DOMAIN stack' \subseteq DOMAIN stack /\ \A i \in DOMAIN stack' : stack'[i] = stack[i]
    BY <1>1, TopIs, ChainFront
  <1>3. IsChain(stack)'
    BY <1>1, <1>2, ChainPrimed
  <1>4. (\A i \in DOMAIN stack : Reading(stack[i]))'
    BY <1>1, <1>2 DEF IInv, Reading
  <1>5. (\A i \in DOMAIN out : Listed(out[i]))'
    BY <1>1, ListedPrimed DEF IInv
  <1>6. subtasks = <<>> /\ subtasks' = <<>>
    BY <1>1 DEF IInv
  <1>7. TypeOK'
    BY <1>1, <1>2, <1>3 DEF IInv, TypeOK
  <1>8. (OnlyListed /\ Ordered)' /\ (\A m \in left, k \in DOMAIN subtasks : ~Precedes(out[m].name, subtasks[k].name))'
    BY <1>6 DEF OnlyListed, Ordered
  <1>. QED  BY <1>4, <1>5, <1>6, <1>7, <1>8 DEF IInv

\* What is found and what is exposed: the rest is as it was.
LEMMA Exposing ==
  ASSUME IInv, UNCHANGED <<project, globs, stack, out, forwarded>>, status = "sorted",
         status' \in {"sorted", "panicked"}, left' \subseteq left, subtasks' \in Seq(Entry),
         \A i \in DOMAIN subtasks' : Listed(subtasks'[i]) /\ Matches(subtasks'[i].name),
         \A i, k \in DOMAIN subtasks' : i < k => ~Precedes(subtasks'[k].name, subtasks'[i].name),
         \A m \in left', k \in DOMAIN subtasks' : ~Precedes(out[m].name, subtasks'[k].name)
  PROVE  IInv'
  <1>1. IsChain(stack)'
    BY ChainPrimed DEF IInv, TypeOK
  <1>2. TypeOK'
    BY <1>1 DEF IInv, TypeOK
  <1>3. (\A i \in DOMAIN stack : Reading(stack[i]))'
    BY DEF IInv, Reading
  <1>4. (\A i \in DOMAIN out : Listed(out[i]))'
    BY ListedPrimed DEF IInv
  <1>5. \A name : Matches(name)' <=> Matches(name)
    BY DEF Matches, Decides, GlobPanics
  <1>6. OnlyListed'
    BY <1>5, ListedPrimed DEF OnlyListed
  <1>7. Ordered'
    BY DEF Ordered
  <1>8. (\A m \in left, k \in DOMAIN subtasks : ~Precedes(out[m].name, subtasks[k].name))'
    OBVIOUS
  <1>. QED  BY <1>2, <1>3, <1>4, <1>6, <1>7, <1>8 DEF IInv

LEMMA ExposeStep == ASSUME IInv, Expose PROVE IInv'
  <1>1. UNCHANGED <<project, globs, stack, out, forwarded>> /\ status = "sorted"
    BY DEF Expose
  <1>2. PICK i \in left :
          /\ \A m \in left : ~Precedes(out[m].name, out[i].name)
          /\ left' = left \ {i}
          /\ IF GlobPanics(out[i].name) THEN status' = "panicked" ELSE UNCHANGED status
          /\ subtasks' = IF Matches(out[i].name) THEN Append(subtasks, out[i]) ELSE subtasks
    BY DEF Expose
  <1>3. status' \in {"sorted", "panicked"} /\ left' \subseteq left
    BY <1>1, <1>2
  <1>4. i \in DOMAIN out /\ out \in Seq(Entry) /\ subtasks \in Seq(Entry)
    BY DEF IInv, TypeOK
  <1>5. /\ \A k \in DOMAIN subtasks : Listed(subtasks[k]) /\ Matches(subtasks[k].name)
        /\ \A k, m \in DOMAIN subtasks : k < m => ~Precedes(subtasks[m].name, subtasks[k].name)
        /\ \A m \in left, k \in DOMAIN subtasks : ~Precedes(out[m].name, subtasks[k].name)
    BY DEF IInv, OnlyListed, Ordered
  <1>6. CASE ~Matches(out[i].name)
    <2>1. subtasks' = subtasks
      BY <1>2, <1>6
    <2>. QED  BY <1>1, <1>3, <1>4, <1>5, <2>1, Exposing
  <1>7. CASE Matches(out[i].name)
    <2> DEFINE e == out[i]
               n == Len(subtasks)
    <2>1. e \in Entry /\ Listed(e) /\ Matches(e.name)
      BY <1>4, <1>7 DEF IInv
    <2>2. subtasks' = Append(subtasks, e)
      BY <1>2, <1>7
    <2>3. \A m \in left : ~Precedes(out[m].name, e.name)
      BY <1>2
    <2>4. \A k \in DOMAIN subtasks : ~Precedes(e.name, subtasks[k].name)
      BY <1>5
    <2>. HIDE DEF e
    <2>5. /\ subtasks' \in Seq(Entry) /\ n \in Nat /\ DOMAIN subtasks' = 1..n + 1 /\ DOMAIN subtasks = 1..n
          /\ subtasks'[n + 1] = e /\ \A k \in 1..n : subtasks'[k] = subtasks[k]
      BY <1>4, <2>1, <2>2
    <2>. HIDE DEF n
    <2>6. \A k \in DOMAIN subtasks' : Listed(subtasks'[k]) /\ Matches(subtasks'[k].name)
      BY <1>5, <2>1, <2>5
    <2>7. ASSUME NEW k \in DOMAIN subtasks', NEW m \in DOMAIN subtasks', k < m
          PROVE  ~Precedes(subtasks'[m].name, subtasks'[k].name)
      <3>1. k \in 1..n /\ subtasks'[k] = subtasks[k]
        BY <2>5, <2>7
      <3>2. CASE m = n + 1
        BY <2>4, <2>5, <3>1, <3>2
      <3>3. CASE m \in 1..n
        BY <1>5, <2>5, <2>7, <3>1, <3>3
      <3>. QED  BY <2>5, <3>2, <3>3
    <2>8. \A m \in left', k \in DOMAIN subtasks' : ~Precedes(out[m].name, subtasks'[k].name)
      BY <1>3, <1>5, <2>3, <2>5
    <2>. QED  BY <1>1, <1>3, <2>5, <2>6, <2>7, <2>8, Exposing
  <1>. QED  BY <1>6, <1>7

\* Steps that change neither the calls nor the lists.
LEMMA Aside ==
  ASSUME IInv, UNCHANGED <<project, globs, stack, out, left, subtasks>>,
         forwarded' \in {None, Args} \cup Name, status' \in {status, "done"}
  PROVE  IInv'
  <1>1. IsChain(stack)'
    BY ChainPrimed DEF IInv, TypeOK
  <1>2. TypeOK'
    BY <1>1 DEF IInv, TypeOK
  <1>3. (\A i \in DOMAIN stack : Reading(stack[i]))'
    BY DEF IInv, Reading
  <1>4. (\A i \in DOMAIN out : Listed(out[i]))'
    BY ListedPrimed DEF IInv
  <1>5. \A name : Matches(name)' <=> Matches(name)
    BY DEF Matches, Decides, GlobPanics
  <1>6. OnlyListed'
    BY <1>5, ListedPrimed DEF IInv, OnlyListed
  <1>7. Ordered'
    BY DEF IInv, Ordered
  <1>8. (status \in {"start", "collecting"} => subtasks = <<>>)'
    BY DEF IInv
  <1>9. (\A m \in left, k \in DOMAIN subtasks : ~Precedes(out[m].name, subtasks[k].name))'
    BY DEF IInv
  <1>. QED  BY <1>2, <1>3, <1>4, <1>6, <1>7, <1>8, <1>9 DEF IInv

LEMMA ForwardStep == ASSUME IInv, Forward PROVE IInv'
  <1>1. PICK i \in DOMAIN subtasks : forwarded' = subtasks[i].name
    BY DEF Forward
  <1>2. subtasks[i].name \in Name
    <2>1. subtasks \in Seq(Entry)
      BY DEF IInv, TypeOK
    <2>2. subtasks[i] \in Entry
      BY <2>1
    <2>. QED  BY <2>2 DEF Entry
  <1>3. UNCHANGED <<project, globs, stack, out, left, subtasks, status>>
    BY DEF Forward
  <1>4. forwarded' \in {None, Args} \cup Name /\ status' \in {status, "done"}
    BY <1>1, <1>2, <1>3
  <1>. QED  BY <1>3, <1>4, Aside

LEMMA NextStep == ASSUME IInv, [Next]_vars PROVE IInv'
  <1>1. ASSUME RunTaskfile PROVE IInv'
    BY <1>1, Aside DEF RunTaskfile
  <1>2. ASSUME Finish PROVE IInv'
    <2>1. forwarded \in {None, Args} \cup Name
      BY DEF IInv, TypeOK
    <2>. QED  BY <1>2, <2>1, Aside DEF Finish
  <1>3. ASSUME UNCHANGED vars PROVE IInv'
    <2>1. forwarded \in {None, Args} \cup Name
      BY DEF IInv, TypeOK
    <2>. QED  BY <1>3, <2>1, Aside DEF vars
  <1>. QED  BY <1>1, <1>2, <1>3, TasksStep, CollectTaskStep, CollectIncludeStep, ReturnStep, ExposeStep,
               ForwardStep DEF Next, Import, Ended

LEMMA Invariance == Spec => []IInv
  <1>1. Init => IInv
    BY InitEstablishes
  <1>2. IInv /\ [Next]_vars => IInv'
    BY NextStep
  <1>. QED  BY <1>1, <1>2, PTL DEF Spec
-----------------------------------------------------------------------------
(* What recursive functions compute, and what counts the same.             *)

(***************************************************************************)
(* Induction up to n, over the members of a set: by the least number that  *)
(* is not one, as the naturals are well founded.                           *)
(***************************************************************************)
LEMMA UpTo ==
  ASSUME NEW n \in Nat, NEW T, 0 \in T, \A m \in 0..n : m \in T /\ m < n => m + 1 \in T
  PROVE  \A m \in 0..n : m \in T
  <1> DEFINE R == {p \in Nat \X Nat : p[1] < p[2]}
             S == {m \in 0..n : m \notin T}
  <1>1. IsWellFoundedOn(R, Nat)
    BY NatLessThanWellFounded DEF OpToRel
  <1> SUFFICES ASSUME S # {} PROVE FALSE
    OBVIOUS
  <1>2. PICK m \in S : \A k \in S : ~ (<<k, m>> \in R)
    <2>1. S \subseteq Nat
      OBVIOUS
    <2>. HIDE DEF R, S
    <2>. QED  BY <1>1, <2>1, WFMin
  <1>3. m \in 0..n /\ m # 0 /\ m - 1 \in 0..n /\ m - 1 < n /\ (m - 1) + 1 = m /\ <<m - 1, m>> \in R
    OBVIOUS
  <1>. QED  BY <1>2, <1>3

\* g starts with z and goes on with R.
Computes(g, n, V, z, R) ==
  g \in [0..n -> V] /\ g[0] = z /\ \A k \in 1..n : g[k] = R[<<k, g[k - 1]>>]

\* A function defined by recursion exists.
LEMMA Recursion ==
  ASSUME NEW n \in Nat, NEW V, NEW z \in V, NEW R, R \in [(1..n) \X V -> V]
  PROVE  \E g : Computes(g, n, V, z, R)
  <1> DEFINE Reaches(m) == \E g \in [0..m -> V] : g[0] = z /\ \A k \in 1..m : g[k] = R[<<k, g[k - 1]>>]
             T == {m \in 0..n : Reaches(m)}
  <1>1. Reaches(0)
    <2> DEFINE g == [k \in 0..0 |-> z]
    <2>1. g \in [0..0 -> V] /\ g[0] = z /\ 1..0 = {}
      OBVIOUS
    <2>. HIDE DEF g
    <2>. QED  BY <2>1
  <1>2. ASSUME NEW m \in 0..n, Reaches(m), m < n PROVE Reaches(m + 1)
    <2>1. PICK g \in [0..m -> V] : g[0] = z /\ \A k \in 1..m : g[k] = R[<<k, g[k - 1]>>]
      BY <1>2
    <2> DEFINE v == R[<<m + 1, g[m]>>]
               h == [k \in 0..m + 1 |-> IF k = m + 1 THEN v ELSE g[k]]
    <2>2. v \in V
      <3>1. m + 1 \in 1..n /\ g[m] \in V
        BY <1>2, <2>1
      <3>. QED  BY <3>1
    <2>3. h \in [0..m + 1 -> V] /\ h[m + 1] = v /\ \A k \in 0..m : h[k] = g[k]
      BY <2>2
    <2>. HIDE DEF h
    <2>4. h[0] = z
      BY <2>1, <2>3
    <2>5. ASSUME NEW k \in 1..m + 1 PROVE h[k] = R[<<k, h[k - 1]>>]
      <3>1. k - 1 \in 0..m /\ h[k - 1] = g[k - 1]
        BY <2>3
      <3>2. CASE k = m + 1
        BY <2>3, <3>1, <3>2
      <3>3. CASE k # m + 1
        <4>1. k \in 1..m /\ k \in 0..m
          BY <3>3
        <4>. QED  BY <2>1, <2>3, <3>1, <4>1
      <3>. QED  BY <3>2, <3>3
    <2>. QED  BY <2>3, <2>4, <2>5
  <1>. HIDE DEF Reaches
  <1>3. 0 \in T /\ \A m \in 0..n : m \in T /\ m < n => m + 1 \in T
    BY <1>1, <1>2
  <1>4. \A m \in 0..n : m \in T
    <2>. HIDE DEF T
    <2>. QED  BY <1>3, UpTo
  <1>5. Reaches(n)
    BY <1>4
  <1>. QED  BY <1>5 DEF Reaches, Computes

OneToOne(F, S, T) ==
  F \in [S -> T] /\ (\A a, b \in S : F[a] = F[b] => a = b) /\ \A t \in T : \E a \in S : F[a] = t

LEMMA SameNumber ==
  ASSUME NEW S, IsFiniteSet(S), NEW T, NEW F, OneToOne(F, S, T)
  PROVE  Cardinality(T) = Cardinality(S)
  <1>1. F \in Bijection(S, T)
    BY Fun_IsBij DEF OneToOne
  <1>. QED  BY <1>1, FS_Bijection DEF ExistsBijection
-----------------------------------------------------------------------------
(* The files and the namespaces of a chain of includes.                    *)

\* Where an include of this name leads from a file.
Hop(f, ns) ==
  IF f \in WellFormed /\ ns \in DOMAIN project[f].includes
  THEN Follows(f, project[f].includes[ns]) ELSE None

\* The namespaces of the first k includes of a chain.
PrefixAt(c) ==
  LET at[k \in 0..Len(c)] ==
        IF k = 0 THEN <<>>
        ELSE ChildPrefix(at[k - 1], c[k], project[FileAt(c)[k - 1]].includes[c[k]])
  IN  at

LEMMA NamespacesAreNames == ASSUME project \in Projects PROVE Namespaces \subseteq Name
  BY ProjectIs DEF Namespaces, WellFormed

LEMMA FileAtIs ==
  ASSUME NEW c, Len(c) \in Nat
  PROVE  /\ FileAt(c) \in [0..Len(c) -> DOMAIN project \cup {None}]
         /\ FileAt(c)[0] = Root
         /\ \A k \in 1..Len(c) : FileAt(c)[k] = Hop(FileAt(c)[k - 1], c[k])
  <1> DEFINE V == DOMAIN project \cup {None}
             n == Len(c)
             R == [p \in (1..n) \X V |-> Hop(p[2], c[p[1]])]
             step(g, k) == IF k = 0 THEN Root ELSE Hop(g[k - 1], c[k])
             at == CHOOSE g : g = [k \in 0..n |-> step(g, k)]
  <1>1. R \in [(1..n) \X V -> V]
    BY FollowsIs DEF Hop
  <1>2. PICK g \in [0..n -> V] : g[0] = Root /\ \A k \in 1..n : g[k] = R[<<k, g[k - 1]>>]
    <2>1. n \in Nat /\ Root \in V
      BY RootIs
    <2>2. \E g : Computes(g, n, V, Root, R)
      <3>. HIDE DEF R, V, n
      <3>. QED  BY <1>1, <2>1, Recursion
    <2>. HIDE DEF R, V, n
    <2>. QED  BY <2>2 DEF Computes
  <1>3. g = [k \in 0..n |-> step(g, k)]
    <2> SUFFICES ASSUME NEW k \in 0..n PROVE g[k] = step(g, k)
      OBVIOUS
    <2>1. CASE k = 0
      BY <1>2, <2>1
    <2>2. CASE k # 0
      <3>1. k \in 1..n /\ k - 1 \in 0..n /\ g[k - 1] \in V
        BY <2>2
      <3>. QED  BY <1>2, <2>2, <3>1
    <2>. QED  BY <2>1, <2>2
  <1>4. at = [k \in 0..n |-> step(at, k)]
    <2>. HIDE DEF step
    <2>. QED  BY <1>3
  <1>5. FileAt(c) = at
    BY DEF FileAt, Hop
  <1>6. \A k \in 0..n : at[k] = step(at, k)
    <2>. HIDE DEF step, at
    <2>. QED  BY <1>4
  <1>7. DOMAIN at = 0..n
    <2>. HIDE DEF step, at
    <2>. QED  BY <1>4
  <1>. HIDE DEF at
  <1>8. at[0] = Root /\ \A k \in 1..n : at[k] = Hop(at[k - 1], c[k])
    BY <1>6
  <1>9. \A k \in 0..n : at[k] \in V
    BY <1>6, RootIs, FollowsIs DEF Hop
  <1>10. at \in [0..n -> V]
    <2>1. at = [k \in 0..n |-> at[k]]
      <3>. HIDE DEF step
      <3>. QED  BY <1>4, <1>7
    <2>. QED  BY <1>9, <2>1
  <1>. QED  BY <1>5, <1>8, <1>10

LEMMA PrefixAtIs ==
  ASSUME project \in Projects, NEW c \in Seq(Namespaces)
  PROVE  /\ PrefixAt(c) \in [0..Len(c) -> Name] /\ PrefixOf(c) = PrefixAt(c)[Len(c)]
         /\ PrefixAt(c)[0] = <<>>
         /\ \A k \in 1..Len(c) :
              PrefixAt(c)[k] = ChildPrefix(PrefixAt(c)[k - 1], c[k],
                                           project[FileAt(c)[k - 1]].includes[c[k]])
  <1> DEFINE n == Len(c)
             inc(k) == project[FileAt(c)[k - 1]].includes[c[k]]
             R == [p \in (1..n) \X Name |-> ChildPrefix(p[2], c[p[1]], inc(p[1]))]
             step(g, k) == IF k = 0 THEN <<>> ELSE ChildPrefix(g[k - 1], c[k], inc(k))
             at == CHOOSE g : g = [k \in 0..n |-> step(g, k)]
  <1>1. n \in Nat /\ \A k \in 1..n : c[k] \in Name
    BY NamespacesAreNames
  <1>2. \A k \in 1..n, p \in Name : ChildPrefix(p, c[k], inc(k)) \in Name
    <2>1. \A p, q \in Name : p \o q \in Name
      BY DEF Name
    <2>. QED  BY <1>1, <2>1 DEF ChildPrefix
  <1>. HIDE DEF inc
  <1>3. R \in [(1..n) \X Name -> Name]
    BY <1>2
  <1>4. <<>> \in Name
    BY DEF Name
  <1>5. PICK g \in [0..n -> Name] : g[0] = <<>> /\ \A k \in 1..n : g[k] = R[<<k, g[k - 1]>>]
    <2>1. n \in Nat
      BY <1>1
    <2>2. \E g : Computes(g, n, Name, <<>>, R)
      <3>. HIDE DEF R, n
      <3>. QED  BY <1>3, <1>4, <2>1, Recursion
    <2>. HIDE DEF R, n
    <2>. QED  BY <2>2 DEF Computes
  <1>6. g = [k \in 0..n |-> step(g, k)]
    <2> SUFFICES ASSUME NEW k \in 0..n PROVE g[k] = step(g, k)
      OBVIOUS
    <2>1. CASE k = 0
      BY <1>5, <2>1
    <2>2. CASE k # 0
      <3>1. k \in 1..n /\ k - 1 \in 0..n /\ g[k - 1] \in Name
        BY <1>1, <2>2
      <3>. QED  BY <1>5, <2>2, <3>1
    <2>. QED  BY <2>1, <2>2
  <1>7. at = [k \in 0..n |-> step(at, k)]
    <2>. HIDE DEF step
    <2>. QED  BY <1>6
  <1>8. PrefixAt(c) = at /\ PrefixOf(c) = at[n]
    BY DEF PrefixAt, PrefixOf, inc
  <1>9. \A k \in 0..n : at[k] = step(at, k)
    <2>. HIDE DEF step, at
    <2>. QED  BY <1>7
  <1>10. at = [k \in 0..n |-> at[k]]
    <2>. HIDE DEF step, at
    <2>. QED  BY <1>7
  <1>. HIDE DEF at
  <1>11. at[0] = <<>> /\ \A k \in 1..n : at[k] = ChildPrefix(at[k - 1], c[k], inc(k))
    BY <1>1, <1>9
  <1>12. \A k \in 0..n : at[k] \in Name
    <2> DEFINE T == {k \in 0..n : at[k] \in Name}
    <2>1. 0 \in T /\ \A k \in 0..n : k \in T /\ k < n => k + 1 \in T
      BY <1>1, <1>2, <1>4, <1>11
    <2>2. \A k \in 0..n : k \in T
      <3>. HIDE DEF T
      <3>. QED  BY <1>1, <2>1, UpTo
    <2>. QED  BY <2>2
  <1>13. at \in [0..n -> Name]
    BY <1>10, <1>12
  <1>. QED  BY <1>8, <1>11, <1>13 DEF inc

\* Two chains that begin with the same k includes.
Agree(d, c, k) == \A i \in 1..k : d[i] = c[i]

LEMMA Agreeing ==
  ASSUME project \in Projects, NEW c \in Seq(Namespaces), NEW d \in Seq(Namespaces),
         NEW k \in Nat, k <= Len(c), k <= Len(d), Agree(d, c, k)
  PROVE  FileAt(d)[k] = FileAt(c)[k] /\ PrefixAt(d)[k] = PrefixAt(c)[k]
  <1> DEFINE T == {m \in 0..k : FileAt(d)[m] = FileAt(c)[m] /\ PrefixAt(d)[m] = PrefixAt(c)[m]}
  <1>1. Len(c) \in Nat /\ Len(d) \in Nat
    OBVIOUS
  <1>2. 0 \in T
    BY <1>1, FileAtIs, PrefixAtIs
  <1>3. ASSUME NEW m \in 0..k, m \in T, m < k PROVE m + 1 \in T
    <2>1. m + 1 \in 1..Len(c) /\ m + 1 \in 1..Len(d) /\ m + 1 \in 1..k /\ (m + 1) - 1 = m
          /\ d[m + 1] = c[m + 1]
      BY <1>1, <1>3 DEF Agree
    <2>2. FileAt(d)[m] = FileAt(c)[m] /\ PrefixAt(d)[m] = PrefixAt(c)[m]
      BY <1>3
    <2>3. /\ FileAt(c)[m + 1] = Hop(FileAt(c)[m], c[m + 1])
          /\ FileAt(d)[m + 1] = Hop(FileAt(d)[m], d[m + 1])
      BY <1>1, <2>1, FileAtIs
    <2>4. /\ PrefixAt(c)[m + 1] =
               ChildPrefix(PrefixAt(c)[m], c[m + 1], project[FileAt(c)[m]].includes[c[m + 1]])
          /\ PrefixAt(d)[m + 1] =
               ChildPrefix(PrefixAt(d)[m], d[m + 1], project[FileAt(d)[m]].includes[d[m + 1]])
      BY <2>1, PrefixAtIs
    <2>. QED  BY <2>1, <2>2, <2>3, <2>4
  <1>4. \A m \in 0..k : m \in T
    <2>. HIDE DEF T
    <2>. QED  BY <1>2, <1>3, UpTo
  <1>. QED  BY <1>4

LEMMA FilesAreFinite ==
  ASSUME project \in Projects
  PROVE  IsFiniteSet(DOMAIN project) /\ Cardinality(DOMAIN project) \in Nat /\ None \notin DOMAIN project
  BY TaskfileAssumption, FS_CardinalityType

LEMMA ChainsAre ==
  ASSUME project \in Projects, NEW d
  PROVE  d \in Chains <=>
           /\ d \in Seq(Namespaces) /\ Len(d) <= Cardinality(DOMAIN project) - 1
           /\ \A k \in 0..Len(d) : FileAt(d)[k] # None
           /\ \A k, m \in 0..Len(d) : k # m => FileAt(d)[k] # FileAt(d)[m]
  <1> DEFINE n == Cardinality(DOMAIN project) - 1
  <1>1. n \in Int
    BY FilesAreFinite
  <1>2. d \in UNION {[1..k -> Namespaces] : k \in 0..n} <=> d \in Seq(Namespaces) /\ Len(d) <= n
    <2>. HIDE DEF n
    <2>1. ASSUME NEW k \in 0..n, d \in [1..k -> Namespaces] PROVE d \in Seq(Namespaces) /\ Len(d) <= n
      BY <1>1, <2>1
    <2>2. ASSUME d \in Seq(Namespaces), Len(d) <= n
          PROVE  Len(d) \in 0..n /\ d \in [1..Len(d) -> Namespaces]
      BY <1>1, <2>2
    <2>. QED  BY <2>1, <2>2
  <1>. QED  BY <1>2 DEF Chains

LEMMA FoundIs ==
  ASSUME NEW x
  PROVE  x \in Found <=>
           \E c \in Chains :
             /\ EndOf(c) \in WellFormed
             /\ \E t \in DOMAIN project[EndOf(c)].tasks :
                  /\ project[EndOf(c)].tasks[t]
                  /\ x = <<c, t, [name |-> PrefixOf(c) \o t, desc |-> EndOf(c)]>>
  BY DEF Found

\* The chain d is c and one include more.
GoesOn(d, c, ns, path) ==
  /\ d \in Chains /\ d \in Seq(Namespaces) /\ c \in Seq(Namespaces)
  /\ Len(c) \in Nat /\ Len(d) = Len(c) + 1 /\ d[Len(c) + 1] = ns /\ Agree(d, c, Len(c))
  /\ EndOf(d) = path
  /\ PrefixAt(d)[Len(c) + 1] =
       ChildPrefix(PrefixAt(c)[Len(c)], ns, project[EndOf(c)].includes[ns])
  /\ \A k \in 0..Len(c) : FileAt(d)[k] = FileAt(c)[k] /\ PrefixAt(d)[k] = PrefixAt(c)[k]

(***************************************************************************)
(* A chain goes on with an include of its last file that leads to a file   *)
(* that is not in it, and remains one: there are more files than includes. *)
(***************************************************************************)
LEMMA ChainGoesOn ==
  ASSUME project \in Projects, NEW c \in Chains, EndOf(c) \in WellFormed,
         NEW ns \in DOMAIN project[EndOf(c)].includes,
         NEW path, path = Follows(EndOf(c), project[EndOf(c)].includes[ns]), path # None,
         \A k \in 0..Len(c) : path # FileAt(c)[k],
         NEW d, d = Append(c, ns)
  PROVE  GoesOn(d, c, ns, path)
  <1> DEFINE n == Len(c)
  <1>1. c \in Seq(Namespaces) /\ n \in Nat
    BY ChainsAre
  <1>2. ns \in Namespaces
    BY DEF Namespaces
  <1>3. d \in Seq(Namespaces) /\ Len(d) = n + 1 /\ d[n + 1] = ns /\ Agree(d, c, n)
    BY <1>1, <1>2 DEF Agree
  <1>4. ASSUME NEW k \in 0..n PROVE FileAt(d)[k] = FileAt(c)[k] /\ PrefixAt(d)[k] = PrefixAt(c)[k]
    <2>1. Agree(d, c, k) /\ k \in Nat /\ k <= Len(c) /\ k <= Len(d)
      BY <1>1, <1>3 DEF Agree
    <2>. QED  BY <1>1, <1>3, <2>1, Agreeing
  <1>5. Len(d) \in Nat /\ n + 1 \in 1..Len(d) /\ (n + 1) - 1 = n /\ n \in 0..n
    BY <1>1, <1>3
  <1>6. FileAt(c)[n] = EndOf(c)
    BY DEF EndOf
  <1>7. FileAt(d)[n + 1] = path
    <2>1. FileAt(d)[n + 1] = Hop(FileAt(d)[n], d[n + 1])
      BY <1>5, FileAtIs
    <2>. QED  BY <1>3, <1>4, <1>5, <1>6, <2>1 DEF Hop
  <1>8. PrefixAt(d)[n + 1] = ChildPrefix(PrefixAt(c)[n], ns, project[EndOf(c)].includes[ns])
    <2>1. PrefixAt(d)[n + 1] =
            ChildPrefix(PrefixAt(d)[n], d[n + 1], project[FileAt(d)[n]].includes[d[n + 1]])
      BY <1>3, <1>5, PrefixAtIs
    <2>. QED  BY <1>3, <1>4, <1>5, <1>6, <2>1
  <1>9. /\ \A k \in 0..Len(d) : FileAt(d)[k] # None
        /\ \A k, m \in 0..Len(d) : k # m => FileAt(d)[k] # FileAt(d)[m]
    <2>1. \A k \in 0..Len(d) : k = n + 1 \/ k \in 0..n
      BY <1>1, <1>3
    <2>2. /\ \A k \in 0..n : FileAt(c)[k] # None
          /\ \A k, m \in 0..n : k # m => FileAt(c)[k] # FileAt(c)[m]
      BY ChainsAre
    <2>. QED  BY <1>4, <1>7, <2>1, <2>2
  <1>10. Len(d) <= Cardinality(DOMAIN project) - 1
    <2> DEFINE f == [k \in 0..n + 1 |-> FileAt(d)[k]]
    <2>1. \A k \in 0..n + 1 : FileAt(d)[k] \in DOMAIN project
      BY <1>3, <1>5, <1>9, FileAtIs
    <2>2. f \in Injection(0..n + 1, DOMAIN project)
      <3>1. f \in [0..n + 1 -> DOMAIN project]
        BY <2>1
      <3>2. \A a, b \in 0..n + 1 : f[a] = f[b] => a = b
        BY <1>3, <1>9
      <3>. HIDE DEF f
      <3>. QED  BY <3>1, <3>2, Fun_IsInj
    <2>3. Cardinality(0..n + 1) = n + 2 /\ IsFiniteSet(0..n + 1)
      BY <1>1, FS_Interval
    <2>4. Cardinality(0..n + 1) <= Cardinality(DOMAIN project)
      <3>. HIDE DEF f
      <3>. QED  BY <2>2, FilesAreFinite, FS_Injection
    <2>. QED  BY <1>1, <1>3, <2>3, <2>4, FilesAreFinite
  <1>11. d \in Chains
    BY <1>3, <1>9, <1>10, ChainsAre
  <1>12. EndOf(d) = path
    BY <1>3, <1>7 DEF EndOf
  <1>. QED  BY <1>1, <1>3, <1>4, <1>8, <1>11, <1>12 DEF GoesOn

\* A chain without its last include.
LEMMA ChainEnds ==
  ASSUME project \in Projects, NEW c \in Chains, Len(c) # 0, NEW d, d = SubSeq(c, 1, Len(c) - 1)
  PROVE  /\ d \in Chains /\ d \in Seq(Namespaces) /\ Len(c) \in Nat /\ Len(d) = Len(c) - 1
         /\ Agree(d, c, Len(d))
         /\ \A k \in 0..Len(d) : FileAt(d)[k] = FileAt(c)[k] /\ PrefixAt(d)[k] = PrefixAt(c)[k]
  <1>1. c \in Seq(Namespaces) /\ Len(c) \in Nat
    BY ChainsAre
  <1>2. d \in Seq(Namespaces) /\ Len(d) = Len(c) - 1 /\ Agree(d, c, Len(d))
    <2>1. Len(c) \in Nat \ {0} /\ DOMAIN c = 1..Len(c)
      BY <1>1
    <2>2. d \in Seq(Namespaces) /\ Len(d) = Len(c) - 1 /\ \A i \in 1..Len(c) - 1 : d[i] = c[i]
      BY <1>1, <2>1
    <2>. QED  BY <2>2 DEF Agree
  <1>3. ASSUME NEW k \in 0..Len(d) PROVE FileAt(d)[k] = FileAt(c)[k] /\ PrefixAt(d)[k] = PrefixAt(c)[k]
    <2>1. Agree(d, c, k) /\ k \in Nat /\ k <= Len(c) /\ k <= Len(d)
      BY <1>1, <1>2 DEF Agree
    <2>. QED  BY <1>1, <1>2, <2>1, Agreeing
  <1>4. /\ \A k \in 0..Len(d) : FileAt(d)[k] # None
        /\ \A k, m \in 0..Len(d) : k # m => FileAt(d)[k] # FileAt(d)[m]
    <2>1. \A k \in 0..Len(d) : k \in 0..Len(c)
      BY <1>1, <1>2
    <2>2. /\ \A k \in 0..Len(c) : FileAt(c)[k] # None
          /\ \A k, m \in 0..Len(c) : k # m => FileAt(c)[k] # FileAt(c)[m]
      BY ChainsAre
    <2>. QED  BY <1>3, <2>1, <2>2
  <1>5. Len(d) <= Cardinality(DOMAIN project) - 1
    <2>1. Len(c) <= Cardinality(DOMAIN project) - 1
      BY ChainsAre
    <2>. QED  BY <1>1, <1>2, <2>1, FilesAreFinite
  <1>. QED  BY <1>1, <1>2, <1>3, <1>4, <1>5, ChainsAre

\* What two chains of one length that agree are.
LEMMA AgreeWholly ==
  ASSUME NEW c \in Seq(Namespaces), NEW d \in Seq(Namespaces), Len(d) = Len(c), Agree(d, c, Len(c))
  PROVE  d = c
  BY DEF Agree
-----------------------------------------------------------------------------
(* The files do not change, and neither do the chains of them.             *)

LEMMA FileAtSame == ASSUME UNCHANGED project, NEW c PROVE FileAt(c)' = FileAt(c)
  BY DEF FileAt, WellFormed, Follows, resolveIncludePath, Root

LEMMA PrefixSame ==
  ASSUME UNCHANGED project, NEW c
  PROVE  PrefixOf(c)' = PrefixOf(c) /\ PrefixAt(c)' = PrefixAt(c)
  <1>1. FileAt(c)' = FileAt(c)
    BY FileAtSame
  <1>2. project' = project
    OBVIOUS
  <1>. QED  BY <1>1, <1>2 DEF PrefixOf, PrefixAt, ChildPrefix

LEMMA ChainsSame ==
  ASSUME UNCHANGED project
  PROVE  Chains' = Chains /\ WellFormed' = WellFormed /\ \A c : EndOf(c)' = EndOf(c)
  BY FileAtSame DEF Chains, Namespaces, WellFormed, EndOf

LEMMA FoundSame == ASSUME UNCHANGED project PROVE Found' = Found
  <1> DEFINE From(c) == {<<c, t, [name |-> PrefixOf(c) \o t, desc |-> EndOf(c)]>> :
                           t \in {n \in DOMAIN project[EndOf(c)].tasks : project[EndOf(c)].tasks[n]}}
             Good == {d \in Chains : EndOf(d) \in WellFormed}
  <1>1. Found = UNION {From(c) : c \in Good} /\ Found' = UNION {From(c)' : c \in Good'}
    BY DEF Found
  <1>2. ASSUME NEW c PROVE From(c)' = From(c)
    <2>1. EndOf(c)' = EndOf(c) /\ PrefixOf(c)' = PrefixOf(c) /\ project' = project
      BY ChainsSame, PrefixSame
    <2>. QED  BY <2>1
  <1>3. Good' = Good
    BY ChainsSame
  <1>. HIDE DEF From, Good
  <1>. QED  BY <1>1, <1>2, <1>3
-----------------------------------------------------------------------------
(* What has been found, and what is awaited.                               *)

(***************************************************************************)
(* With the namespaces c of the active calls s: the chains that begin like *)
(* them up to one of the calls, and go on with an include it has left.     *)
(***************************************************************************)
Ahead(d, c, s) ==
  \E k \in 0..Len(c) : k < Len(d) /\ Agree(d, c, k) /\ d[k + 1] \in s[k + 1].includes

\* A task of such a chain, or one that an active call has left.
Awaited(x, c, s) ==
  \/ Ahead(x[1], c, s)
  \/ \E k \in 0..Len(c) : Len(x[1]) = k /\ Agree(x[1], c, k) /\ x[2] \in s[k + 1].tasks

Along(c, s) ==
  /\ c \in Chains /\ s \in Seq(Frame) /\ Len(s) = Len(c) + 1
  /\ \A k \in 0..Len(c) : s[k + 1].path = FileAt(c)[k] /\ s[k + 1].prefix = PrefixAt(c)[k]
  /\ \A k \in 1..Len(c) : c[k] \notin s[k].includes

\* F gives, for each entry of o, what of S it is there for.
Lists(o, F, S) == OneToOne(F, DOMAIN o, S) /\ \A i \in DOMAIN o : o[i] = F[i][3]

(***************************************************************************)
(* The calls are those for the chain c, and o has what is not awaited.     *)
(* Nothing says which c it is: two includes may lead to one file under one *)
(* prefix.                                                                 *)
(***************************************************************************)
Tracks(c, s, o) ==
  /\ Along(c, s)
  /\ \A d \in Chains : EndOf(d) \notin WellFormed => Ahead(d, c, s)
  /\ \E F : Lists(o, F, {x \in Found : ~Awaited(x, c, s)})

\* The calls, and what they have found, are those for some chain.
Reached(s, o) == \E c : Tracks(c, s, o)

AllRead == \A d \in Chains : EndOf(d) \in WellFormed

LEMMA TracksSame ==
  ASSUME UNCHANGED project, NEW c, NEW s, NEW o PROVE Tracks(c, s, o)' <=> Tracks(c, s, o)
  <1>1. Along(c, s)' <=> Along(c, s)
    BY ChainsSame, FileAtSame, PrefixSame DEF Along
  <1>2. \A d \in Chains : EndOf(d)' = EndOf(d)
    BY ChainsSame
  <1>. QED  BY <1>1, <1>2, ChainsSame, FoundSame DEF Tracks

\* One more of each.
Extends(G, F, n, z, T) ==
  OneToOne(G, 1..n + 1, T) /\ G[n + 1] = z /\ \A i \in 1..n : G[i] = F[i]

LEMMA OneMore ==
  ASSUME NEW n \in Nat, NEW S, NEW F, OneToOne(F, 1..n, S), NEW z, z \notin S, NEW T, T = S \cup {z}
  PROVE  \E G : Extends(G, F, n, z, T)
  <1> DEFINE G == [i \in 1..n + 1 |-> IF i = n + 1 THEN z ELSE F[i]]
  <1>1. /\ F \in [1..n -> S] /\ \A a, b \in 1..n : F[a] = F[b] => a = b
        /\ \A t \in S : \E a \in 1..n : F[a] = t
    BY DEF OneToOne
  <1>2. G[n + 1] = z /\ \A i \in 1..n : G[i] = F[i] /\ F[i] \in S
    BY <1>1
  <1>3. G \in [1..n + 1 -> S \cup {z}]
    BY <1>1
  <1>. HIDE DEF G
  <1>4. \A i \in 1..n + 1 : i = n + 1 \/ i \in 1..n
    OBVIOUS
  <1>5. \A a, b \in 1..n + 1 : G[a] = G[b] => a = b
    BY <1>1, <1>2, <1>4
  <1>6. \A t \in S \cup {z} : \E a \in 1..n + 1 : G[a] = t
    <2>1. n + 1 \in 1..n + 1 /\ 1..n \subseteq 1..n + 1
      OBVIOUS
    <2>. QED  BY <1>1, <1>2, <2>1
  <1>7. OneToOne(G, 1..n + 1, T)
    BY <1>3, <1>5, <1>6 DEF OneToOne
  <1>. QED  BY <1>2, <1>7 DEF Extends

LEMMA ListsOne ==
  ASSUME NEW o \in Seq(Entry), NEW S, NEW F, Lists(o, F, S), NEW z, z \notin S, NEW e \in Entry, e = z[3]
  PROVE  \E G : Lists(Append(o, e), G, S \cup {z})
  <1> DEFINE n == Len(o)
             p == Append(o, e)
  <1>1. /\ n \in Nat /\ DOMAIN o = 1..n /\ DOMAIN p = 1..n + 1 /\ p[n + 1] = e
        /\ \A i \in 1..n : p[i] = o[i]
    OBVIOUS
  <1>. HIDE DEF n, p
  <1>2. OneToOne(F, 1..n, S) /\ \A i \in 1..n : o[i] = F[i][3]
    BY <1>1 DEF Lists
  <1>3. PICK G : Extends(G, F, n, z, S \cup {z})
    <2> DEFINE T == S \cup {z}
    <2>1. T = S \cup {z} /\ n \in Nat /\ OneToOne(F, 1..n, S)
      BY <1>1, <1>2
    <2>. HIDE DEF T
    <2>2. \E G : Extends(G, F, n, z, T)
      BY <2>1, OneMore
    <2>. QED  BY <2>2 DEF T
  <1>4. \A i \in 1..n + 1 : p[i] = G[i][3]
    <2>1. \A i \in 1..n + 1 : i = n + 1 \/ i \in 1..n
      BY <1>1
    <2>. QED  BY <1>1, <1>2, <1>3, <2>1 DEF Extends
  <1>5. Lists(p, G, S \cup {z})
    BY <1>1, <1>3, <1>4 DEF Lists, Extends
  <1>. QED  BY <1>5 DEF p

-----------------------------------------------------------------------------
(* What each step of an import awaits and finds.                           *)

\* The innermost call, and the chain of the calls.
LEMMA AlongIs ==
  ASSUME project \in Projects, NEW c, NEW s, Along(c, s), NEW n, n = Len(s)
  PROVE  /\ c \in Chains /\ c \in Seq(Namespaces) /\ Len(c) \in Nat /\ n = Len(c) + 1
         /\ s \in Seq(Frame) /\ DOMAIN s = 1..n /\ n \in 1..n
         /\ \A k \in 0..Len(c) : k + 1 \in 1..n
         /\ s[n].path = EndOf(c) /\ s[n].prefix = PrefixOf(c) /\ PrefixOf(c) = PrefixAt(c)[Len(c)]
  <1>1. c \in Chains /\ c \in Seq(Namespaces) /\ Len(c) \in Nat /\ n = Len(c) + 1
        /\ s \in Seq(Frame)
    BY ChainsAre DEF Along
  <1>2. PrefixOf(c) = PrefixAt(c)[Len(c)]
    BY <1>1, PrefixAtIs
  <1>3. s[n].path = EndOf(c) /\ s[n].prefix = PrefixOf(c)
    BY <1>1, <1>2 DEF Along, EndOf
  <1>4. DOMAIN s = 1..n
    <2>1. s \in Seq(Frame)
      BY <1>1
    <2>. QED  BY <2>1
  <1>5. n \in 1..n /\ \A k \in 0..Len(c) : k + 1 \in 1..n
    <2>1. Len(c) \in Nat /\ n = Len(c) + 1
      BY <1>1
    <2>. QED  BY <2>1
  <1>. QED  BY <1>1, <1>2, <1>3, <1>4, <1>5

\* The innermost of the calls s has less left, and the others what they had.
Advances(r, s, n, tasks, includes) ==
  /\ n = Len(s) /\ r \in Seq(Frame) /\ Len(r) = n /\ \A i \in 1..n : i # n => r[i] = s[i]
  /\ r[n].path = s[n].path /\ r[n].prefix = s[n].prefix
  /\ r[n].tasks = tasks /\ r[n].includes = includes

LEMMA TracksTask ==
  ASSUME project \in Projects, NEW c, NEW s, NEW o \in Seq(Entry), Tracks(c, s, o),
         EndOf(c) \in WellFormed, NEW n,
         NEW t \in s[n].tasks, t \in DOMAIN project[EndOf(c)].tasks, t \in Name,
         NEW r, Advances(r, s, n, s[n].tasks \ {t}, s[n].includes),
         NEW e, e = [name |-> s[n].prefix \o t, desc |-> s[n].path], e \in Entry
  PROVE  Tracks(c, r, IF project[EndOf(c)].tasks[t] THEN Append(o, e) ELSE o)
  <1> DEFINE S == {x \in Found : ~Awaited(x, c, s)}
             R == {x \in Found : ~Awaited(x, c, r)}
             z == <<c, t, e>>
             isZ(x) == x[1] = c /\ x[2] = t
  <1>0. /\ n = Len(s) /\ r \in Seq(Frame) /\ Len(r) = n /\ \A i \in 1..n : i # n => r[i] = s[i]
        /\ r[n].path = s[n].path /\ r[n].prefix = s[n].prefix
        /\ r[n].tasks = s[n].tasks \ {t} /\ r[n].includes = s[n].includes
    BY DEF Advances
  <1>. USE <1>0
  <1>1. /\ c \in Chains /\ c \in Seq(Namespaces) /\ Len(c) \in Nat /\ n = Len(c) + 1
        /\ s[n].path = EndOf(c) /\ s[n].prefix = PrefixOf(c)
        /\ \A k \in 0..Len(c) : k + 1 \in 1..n
    BY AlongIs DEF Tracks
  <1>2. \A i \in 1..n : /\ r[i].path = s[i].path /\ r[i].prefix = s[i].prefix
                        /\ r[i].includes = s[i].includes
    OBVIOUS
  <1>3. Along(c, r)
    <2>1. \A k \in 1..Len(c) : k \in 1..n
      BY <1>1
    <2>. QED  BY <1>1, <1>2, <2>1 DEF Tracks, Along
  <1>4. \A d : Ahead(d, c, r) <=> Ahead(d, c, s)
    BY <1>1, <1>2 DEF Ahead
  <1>5. \A d \in Chains : EndOf(d) \notin WellFormed => Ahead(d, c, r)
    BY <1>4 DEF Tracks
  <1>6. ~Ahead(c, c, s)
    <2> SUFFICES ASSUME NEW k \in 0..Len(c), k < Len(c), c[k + 1] \in s[k + 1].includes PROVE FALSE
      BY DEF Ahead
    <2>1. k + 1 \in 1..Len(c)
      BY <1>1
    <2>. QED  BY <2>1 DEF Tracks, Along
  <1>7. ASSUME NEW x \in Found PROVE Awaited(x, c, s) <=> Awaited(x, c, r) \/ isZ(x)
    <2>1. x[1] \in Seq(Namespaces)
      BY FoundIs, ChainsAre
    <2>2. ASSUME Awaited(x, c, s), ~Ahead(x[1], c, s), ~isZ(x) PROVE Awaited(x, c, r)
      <3>1. PICK k \in 0..Len(c) : Len(x[1]) = k /\ Agree(x[1], c, k) /\ x[2] \in s[k + 1].tasks
        BY <2>2 DEF Awaited
      <3>2. CASE k # Len(c)
        <4>1. k + 1 \in 1..n /\ k + 1 # n
          BY <1>1, <3>2
        <4>2. r[k + 1] = s[k + 1]
          BY <4>1
        <4>. QED  BY <3>1, <4>2 DEF Awaited
      <3>3. CASE k = Len(c)
        <4>1. x[1] = c
          BY <1>1, <2>1, <3>1, <3>3, AgreeWholly
        <4>2. x[2] \in r[k + 1].tasks
          BY <1>1, <2>2, <3>1, <3>3, <4>1
        <4>. QED  BY <3>1, <4>2 DEF Awaited
      <3>. QED  BY <3>2, <3>3
    <2>3. ASSUME Awaited(x, c, r) PROVE Awaited(x, c, s)
      <3>1. \A k \in 0..Len(c) : r[k + 1].tasks \subseteq s[k + 1].tasks
        BY <1>1
      <3>. QED  BY <1>4, <2>3, <3>1 DEF Awaited
    <2>4. ASSUME isZ(x) PROVE Awaited(x, c, s)
      <3>1. Agree(x[1], c, Len(c)) /\ Len(c) \in 0..Len(c)
        BY <1>1, <2>4 DEF Agree
      <3>. QED  BY <1>1, <2>4, <3>1 DEF Awaited
    <2>. QED  BY <1>4, <2>2, <2>3, <2>4 DEF Awaited
  <1>8. ASSUME NEW x, isZ(x) PROVE ~Awaited(x, c, r)
    <2> SUFFICES ASSUME NEW k \in 0..Len(c), Len(x[1]) = k, x[2] \in r[k + 1].tasks PROVE FALSE
      BY <1>4, <1>6, <1>8 DEF Awaited
    <2>. QED  BY <1>1, <1>8
  <1>9. PICK F : Lists(o, F, S)
    BY DEF Tracks
  <1>10. ASSUME NEW x \in Found, isZ(x) PROVE x = z /\ project[EndOf(c)].tasks[t]
    <2>1. PICK d \in Chains :
            \E u : /\ project[EndOf(d)].tasks[u]
                   /\ x = <<d, u, [name |-> PrefixOf(d) \o u, desc |-> EndOf(d)]>>
      BY FoundIs
    <2>. QED  BY <1>1, <1>10, <2>1
  <1>11. CASE project[EndOf(c)].tasks[t]
    <2>1. z \in Found /\ isZ(z)
      BY <1>1, <1>11, FoundIs
    <2>. HIDE DEF z, isZ
    <2>2. R = S \cup {z}
      BY <1>7, <1>8, <1>10, <2>1
    <2>3. z \notin S
      BY <1>7, <2>1
    <2>4. z[3] = e
      BY DEF z
    <2>. HIDE DEF R, S
    <2>5. \E G : Lists(Append(o, e), G, R)
      BY <1>9, <2>2, <2>3, <2>4, ListsOne
    <2>. QED  BY <1>3, <1>5, <1>11, <2>5 DEF Tracks, R
  <1>12. CASE ~project[EndOf(c)].tasks[t]
    <2>1. \A x \in Found : ~isZ(x)
      BY <1>10, <1>12
    <2>. HIDE DEF isZ
    <2>2. R = S
      BY <1>7, <2>1
    <2>. QED  BY <1>3, <1>5, <1>9, <1>12, <2>2 DEF Tracks
  <1>. QED  BY <1>11, <1>12

\* An include that leads nowhere, or to a file that is being read.
LEMMA TracksPast ==
  ASSUME project \in Projects, NEW c, NEW s, NEW o, Tracks(c, s, o), NEW n,
         EndOf(c) \in WellFormed, NEW ns \in s[n].includes, ns \in DOMAIN project[EndOf(c)].includes,
         NEW path, path = Follows(EndOf(c), project[EndOf(c)].includes[ns]),
         path = None \/ \E k \in 0..Len(c) : path = FileAt(c)[k],
         NEW r, Advances(r, s, n, s[n].tasks, s[n].includes \ {ns})
  PROVE  Tracks(c, r, o)
  <1>0. /\ n = Len(s) /\ r \in Seq(Frame) /\ Len(r) = n /\ \A i \in 1..n : i # n => r[i] = s[i]
        /\ r[n].path = s[n].path /\ r[n].prefix = s[n].prefix
        /\ r[n].tasks = s[n].tasks /\ r[n].includes = s[n].includes \ {ns}
    BY DEF Advances
  <1>. USE <1>0
  <1>1. /\ c \in Chains /\ c \in Seq(Namespaces) /\ Len(c) \in Nat /\ n = Len(c) + 1
        /\ \A k \in 0..Len(c) : k + 1 \in 1..n
    BY AlongIs DEF Tracks
  <1>2. \A i \in 1..n : /\ r[i].path = s[i].path /\ r[i].prefix = s[i].prefix
                        /\ r[i].tasks = s[i].tasks /\ r[i].includes \subseteq s[i].includes
    OBVIOUS
  <1>3. Along(c, r)
    <2>1. \A k \in 1..Len(c) : k \in 1..n
      BY <1>1
    <2>. QED  BY <1>1, <1>2, <2>1 DEF Tracks, Along
  <1>4. ASSUME NEW d \in Chains, Ahead(d, c, s) PROVE Ahead(d, c, r)
    <2>1. PICK k \in 0..Len(c) : k < Len(d) /\ Agree(d, c, k) /\ d[k + 1] \in s[k + 1].includes
      BY <1>4 DEF Ahead
    <2>2. CASE k # Len(c)
      BY <1>1, <2>1, <2>2 DEF Ahead
    <2>3. CASE k = Len(c) /\ d[k + 1] # ns
      <3>1. d[k + 1] \in r[k + 1].includes
        BY <1>1, <2>1, <2>3
      <3>. QED  BY <2>1, <3>1 DEF Ahead
    <2>4. CASE k = Len(c) /\ d[k + 1] = ns
      <3>1. /\ d \in Seq(Namespaces) /\ Len(d) \in Nat /\ \A m \in 0..Len(d) : FileAt(d)[m] # None
            /\ \A m, l \in 0..Len(d) : m # l => FileAt(d)[m] # FileAt(d)[l]
        <4>1. d \in Seq(Namespaces)
          BY ChainsAre
        <4>. QED  BY <4>1, ChainsAre
      <3>2. \A m \in 0..Len(c) : FileAt(d)[m] = FileAt(c)[m]
        <4> SUFFICES ASSUME NEW m \in 0..Len(c) PROVE FileAt(d)[m] = FileAt(c)[m]
          OBVIOUS
        <4>1. Agree(d, c, m) /\ m <= Len(c) /\ m <= Len(d) /\ m \in Nat
          BY <1>1, <2>1, <2>4, <3>1 DEF Agree
        <4>. QED  BY <1>1, <3>1, <4>1, Agreeing
      <3>3. k + 1 \in 1..Len(d) /\ (k + 1) - 1 = k /\ k + 1 \in 0..Len(d)
            /\ \A m \in 0..Len(c) : m \in 0..Len(d) /\ m # k + 1
        BY <1>1, <2>1, <2>4, <3>1
      <3>4. FileAt(d)[k + 1] = Hop(FileAt(d)[k], d[k + 1])
        BY <3>1, <3>3, FileAtIs
      <3>5. FileAt(d)[k + 1] = path
        BY <2>4, <3>2, <3>4 DEF Hop, EndOf
      <3>. QED  BY <3>1, <3>2, <3>3, <3>5
    <2>. QED  BY <2>2, <2>3, <2>4
  <1>5. \A d : Ahead(d, c, r) => Ahead(d, c, s)
    BY <1>1, <1>2 DEF Ahead
  <1>6. \A x \in Found : x[1] \in Chains
    BY FoundIs
  <1>7. \A k \in 0..Len(c) : r[k + 1].tasks = s[k + 1].tasks
    BY <1>1, <1>2
  <1>8. \A x \in Found : Awaited(x, c, r) <=> Awaited(x, c, s)
    BY <1>4, <1>5, <1>6, <1>7 DEF Awaited
  <1>9. {x \in Found : ~Awaited(x, c, r)} = {x \in Found : ~Awaited(x, c, s)}
    BY <1>8
  <1>. QED  BY <1>3, <1>4, <1>9 DEF Tracks

\* A chain that goes on from another with an include, and the file that leads to.
LEMMA Beyond ==
  ASSUME project \in Projects, NEW d \in Chains, NEW c \in Seq(Namespaces), NEW n, n = Len(c),
         Agree(d, c, n), n < Len(d)
  PROVE  EndOf(c) \in WellFormed /\ d[n + 1] \in DOMAIN project[EndOf(c)].includes
  <1>1. d \in Seq(Namespaces)
    BY ChainsAre
  <1>2. n \in Nat /\ Len(d) \in Nat /\ n + 1 \in 1..Len(d) /\ (n + 1) - 1 = n /\ n + 1 \in 0..Len(d)
    BY <1>1
  <1>3. FileAt(d)[n] = FileAt(c)[n]
    BY <1>1, <1>2, Agreeing
  <1>4. FileAt(d)[n + 1] = Hop(FileAt(d)[n], d[n + 1])
    BY <1>2, FileAtIs
  <1>5. FileAt(d)[n + 1] # None
    BY <1>2, ChainsAre
  <1>. QED  BY <1>3, <1>4, <1>5 DEF Hop, EndOf

\* A call that has everything left to do.
Opens(call, path, prefix) ==
  /\ call \in Frame /\ call.path = path /\ call.prefix = prefix
  /\ call.tasks = DOMAIN project[path].tasks /\ call.includes = DOMAIN project[path].includes

\* An include that leads to another file, which is read.
LEMMA TracksInto ==
  ASSUME project \in Projects, NEW c, NEW s, NEW o, Tracks(c, s, o), NEW n,
         EndOf(c) \in WellFormed, NEW ns \in s[n].includes, ns \in DOMAIN project[EndOf(c)].includes,
         NEW path, path = Follows(EndOf(c), project[EndOf(c)].includes[ns]),
         path \in WellFormed, \A k \in 0..Len(c) : path # FileAt(c)[k],
         NEW callers, Advances(callers, s, n, s[n].tasks, s[n].includes \ {ns}),
         NEW call, Opens(call, path, ChildPrefix(s[n].prefix, ns, project[EndOf(c)].includes[ns])),
         NEW r, r = Append(callers, call)
  PROVE  Tracks(Append(c, ns), r, o)
  <1> DEFINE b == Append(c, ns)
  <1>0. /\ n = Len(s) /\ callers \in Seq(Frame) /\ Len(callers) = n
        /\ \A i \in 1..n : i # n => callers[i] = s[i]
        /\ callers[n].path = s[n].path /\ callers[n].prefix = s[n].prefix
        /\ callers[n].tasks = s[n].tasks /\ callers[n].includes = s[n].includes \ {ns}
        /\ call \in Frame /\ call.path = path
        /\ call.prefix = ChildPrefix(s[n].prefix, ns, project[EndOf(c)].includes[ns])
        /\ call.tasks = DOMAIN project[path].tasks /\ call.includes = DOMAIN project[path].includes
    BY DEF Advances, Opens
  <1>. USE <1>0
  <1>1. /\ c \in Chains /\ c \in Seq(Namespaces) /\ Len(c) \in Nat /\ n = Len(c) + 1
        /\ \A k \in 0..Len(c) : k + 1 \in 1..n
        /\ s[n].prefix = PrefixAt(c)[Len(c)]
    BY AlongIs DEF Tracks
  <1>2. path # None
    BY FilesAreFinite DEF WellFormed
  <1>3. /\ b \in Chains /\ b \in Seq(Namespaces) /\ Len(b) = n /\ b[n] = ns /\ Agree(b, c, Len(c))
        /\ EndOf(b) = path
        /\ PrefixAt(b)[n] = ChildPrefix(PrefixAt(c)[Len(c)], ns, project[EndOf(c)].includes[ns])
        /\ \A k \in 0..Len(c) : FileAt(b)[k] = FileAt(c)[k] /\ PrefixAt(b)[k] = PrefixAt(c)[k]
    <2>1. GoesOn(b, c, ns, path)
      <3>1. c \in Chains /\ b = Append(c, ns)
        BY <1>1
      <3>. HIDE DEF b
      <3>. QED  BY <1>2, <3>1, ChainGoesOn
    <2>. HIDE DEF b
    <2>. QED  BY <1>1, <2>1 DEF GoesOn
  <1>. HIDE DEF b
  <1>4. r \in Seq(Frame) /\ Len(r) = n + 1 /\ r[n + 1] = call /\ \A i \in 1..n : r[i] = callers[i]
    <2>1. n \in Nat
      BY <1>1
    <2>. QED  BY <2>1
  <1>5. \A i \in 1..n : /\ r[i].path = s[i].path /\ r[i].prefix = s[i].prefix
                        /\ r[i].tasks = s[i].tasks
                        /\ r[i].includes = IF i = n THEN s[i].includes \ {ns} ELSE s[i].includes
    <2> SUFFICES ASSUME NEW i \in 1..n
                 PROVE  /\ r[i].path = s[i].path /\ r[i].prefix = s[i].prefix
                        /\ r[i].tasks = s[i].tasks
                        /\ r[i].includes = IF i = n THEN s[i].includes \ {ns} ELSE s[i].includes
      OBVIOUS
    <2>1. r[i] = callers[i]
      BY <1>4
    <2>. QED  BY <2>1
  <1>6. Along(b, r)
    <2>1. \A k \in 0..n : k = n \/ k \in 0..Len(c)
      BY <1>1
    <2>2. ASSUME NEW k \in 0..n PROVE r[k + 1].path = FileAt(b)[k] /\ r[k + 1].prefix = PrefixAt(b)[k]
      <3>1. CASE k = n
        BY <1>1, <1>3, <1>4, <3>1 DEF EndOf
      <3>2. CASE k \in 0..Len(c)
        <4>1. s[k + 1].path = FileAt(c)[k] /\ s[k + 1].prefix = PrefixAt(c)[k]
          BY <3>2 DEF Tracks, Along
        <4>. QED  BY <1>1, <1>3, <1>5, <3>2, <4>1
      <3>. QED  BY <2>1, <3>1, <3>2
    <2>3. ASSUME NEW k \in 1..n PROVE b[k] \notin r[k].includes
      <3>1. CASE k = n
        BY <1>3, <1>5, <3>1
      <3>2. CASE k # n
        <4>1. k \in 1..Len(c) /\ b[k] = c[k]
          BY <1>1, <1>3, <3>2 DEF Agree
        <4>2. c[k] \notin s[k].includes
          BY <4>1 DEF Tracks, Along
        <4>. QED  BY <1>5, <3>2, <4>1, <4>2
      <3>. QED  BY <3>1, <3>2
    <2>. QED  BY <1>3, <1>4, <2>2, <2>3 DEF Along
  <1>7. ASSUME NEW d \in Chains PROVE Ahead(d, c, s) <=> Ahead(d, b, r) \/ d = b
    <2>1. d \in Seq(Namespaces) /\ Len(d) \in Nat
      BY ChainsAre
    <2>2. \A k \in 0..Len(c) : Agree(d, b, k) <=> Agree(d, c, k)
      BY <1>1, <1>3 DEF Agree
    <2>3. ASSUME NEW k \in 0..Len(c), k < Len(d), Agree(d, c, k), d[k + 1] \in s[k + 1].includes,
                 ~(k = Len(c) /\ d[k + 1] = ns)
          PROVE  Ahead(d, b, r)
      <3>1. d[k + 1] \in r[k + 1].includes
        BY <1>1, <1>5, <2>3
      <3>2. k \in 0..Len(b)
        BY <1>1, <1>3
      <3>. QED  BY <2>2, <2>3, <3>1, <3>2 DEF Ahead
    <2>4. ASSUME Len(c) < Len(d), Agree(d, c, Len(c)), d[Len(c) + 1] = ns
          PROVE  Ahead(d, b, r) \/ d = b
      <3>1. Agree(d, b, n)
        <4> SUFFICES ASSUME NEW i \in 1..n PROVE d[i] = b[i]
          BY DEF Agree
        <4>1. CASE i = n
          BY <1>1, <1>3, <2>4, <4>1
        <4>2. CASE i # n
          <5>1. i \in 1..Len(c)
            BY <1>1, <4>2
          <5>. QED  BY <1>3, <2>4, <5>1 DEF Agree
        <4>. QED  BY <4>1, <4>2
      <3>2. CASE Len(d) = n
        BY <1>3, <2>1, <3>1, <3>2, AgreeWholly
      <3>3. CASE Len(d) # n
        <4>1. n < Len(d) /\ n \in 0..Len(b)
          BY <1>1, <1>3, <2>1, <2>4, <3>3
        <4>2. d[n + 1] \in DOMAIN project[EndOf(b)].includes
          BY <1>3, <3>1, <4>1, Beyond
        <4>3. d[n + 1] \in r[n + 1].includes
          BY <1>3, <1>4, <4>2
        <4>. QED  BY <3>1, <4>1, <4>3 DEF Ahead
      <3>. QED  BY <3>2, <3>3
    <2>5. ASSUME Ahead(d, c, s) PROVE Ahead(d, b, r) \/ d = b
      <3>1. PICK k \in 0..Len(c) : k < Len(d) /\ Agree(d, c, k) /\ d[k + 1] \in s[k + 1].includes
        BY <2>5 DEF Ahead
      <3>. QED  BY <2>3, <2>4, <3>1
    <2>6. ASSUME d = b PROVE Ahead(d, c, s)
      <3>1. Len(c) \in 0..Len(c) /\ Len(c) < Len(d) /\ Agree(d, c, Len(c)) /\ d[Len(c) + 1] = ns
        BY <1>1, <1>3, <2>6
      <3>2. d[Len(c) + 1] \in s[Len(c) + 1].includes
        BY <1>1, <3>1
      <3>. QED  BY <3>1, <3>2 DEF Ahead
    <2>7. ASSUME Ahead(d, b, r) PROVE Ahead(d, c, s)
      <3>1. PICK k \in 0..n : k < Len(d) /\ Agree(d, b, k) /\ d[k + 1] \in r[k + 1].includes
        BY <1>3, <2>7 DEF Ahead
      <3>2. CASE k \in 0..Len(c)
        <4>1. d[k + 1] \in s[k + 1].includes
          BY <1>1, <1>5, <3>1, <3>2
        <4>. QED  BY <2>2, <3>1, <3>2, <4>1 DEF Ahead
      <3>3. CASE k \notin 0..Len(c)
        <4>1. k = n /\ n \in 1..n /\ Len(c) \in 0..Len(c)
          BY <1>1, <3>3
        <4>2. Agree(d, c, Len(c)) /\ Len(c) < Len(d)
          BY <1>1, <1>3, <3>1, <4>1 DEF Agree
        <4>3. d[Len(c) + 1] = ns
          BY <1>1, <1>3, <3>1, <4>1 DEF Agree
        <4>4. d[Len(c) + 1] \in s[Len(c) + 1].includes
          BY <1>1, <4>3
        <4>. QED  BY <4>1, <4>2, <4>4 DEF Ahead
      <3>. QED  BY <3>2, <3>3
    <2>. QED  BY <2>5, <2>6, <2>7
  <1>8. \A d \in Chains : EndOf(d) \notin WellFormed => Ahead(d, b, r)
    BY <1>3, <1>7 DEF Tracks
  <1>9. ASSUME NEW x \in Found PROVE Awaited(x, c, s) <=> Awaited(x, b, r)
    <2>1. x[1] \in Chains /\ x[2] \in DOMAIN project[EndOf(x[1])].tasks
      BY FoundIs
    <2>2. x[1] \in Seq(Namespaces)
      BY <2>1, ChainsAre
    <2>3. ASSUME NEW k \in 0..Len(c)
          PROVE  Agree(x[1], c, k) /\ x[2] \in s[k + 1].tasks <=> Agree(x[1], b, k) /\ x[2] \in r[k + 1].tasks
      <3>1. k + 1 \in 1..n
        BY <1>1
      <3>2. r[k + 1].tasks = s[k + 1].tasks
        BY <1>5, <3>1
      <3>. QED  BY <1>1, <1>3, <3>2 DEF Agree
    <2>4. ASSUME Awaited(x, c, s) PROVE Awaited(x, b, r)
      <3>1. CASE x[1] = b
        <4>1. Len(b) \in 0..Len(b) /\ Agree(x[1], b, Len(b)) /\ x[2] \in r[Len(b) + 1].tasks
          BY <1>1, <1>3, <1>4, <2>1, <3>1 DEF Agree
        <4>. QED  BY <3>1, <4>1 DEF Awaited
      <3>2. CASE Ahead(x[1], c, s) /\ x[1] # b
        BY <1>7, <2>1, <3>2 DEF Awaited
      <3>3. ASSUME NEW k \in 0..Len(c), Len(x[1]) = k, Agree(x[1], c, k), x[2] \in s[k + 1].tasks
            PROVE  Awaited(x, b, r)
        <4>1. k \in 0..Len(b)
          BY <1>1, <1>3
        <4>. QED  BY <2>3, <3>3, <4>1 DEF Awaited
      <3>. QED  BY <2>4, <3>1, <3>2, <3>3 DEF Awaited
    <2>5. ASSUME Awaited(x, b, r) PROVE Awaited(x, c, s)
      <3>1. CASE Ahead(x[1], b, r)
        BY <1>7, <2>1, <3>1 DEF Awaited
      <3>2. ASSUME NEW k \in 0..n, Len(x[1]) = k, Agree(x[1], b, k), x[2] \in r[k + 1].tasks
            PROVE  Awaited(x, c, s)
        <4>1. CASE k \in 0..Len(c)
          BY <2>3, <3>2, <4>1 DEF Awaited
        <4>2. CASE k \notin 0..Len(c)
          <5>1. k = n
            BY <1>1, <4>2
          <5>2. x[1] = b
            BY <1>3, <2>2, <3>2, <5>1, AgreeWholly
          <5>. QED  BY <1>3, <1>7, <5>2 DEF Awaited
        <4>. QED  BY <4>1, <4>2
      <3>. QED  BY <1>3, <2>5, <3>1, <3>2 DEF Awaited
    <2>. QED  BY <2>4, <2>5
  <1>10. {x \in Found : ~Awaited(x, b, r)} = {x \in Found : ~Awaited(x, c, s)}
    BY <1>9
  <1>11. Tracks(b, r, o)
    BY <1>6, <1>8, <1>10 DEF Tracks
  <1>. QED  BY <1>11 DEF b


\* The end of a call: there is nothing any more that it awaited.
LEMMA TracksBack ==
  ASSUME project \in Projects, NEW c, NEW s, NEW o, Tracks(c, s, o), NEW n, n = Len(s), n # 1,
         s[n].tasks = {}, s[n].includes = {}, NEW r, r = SubSeq(s, 1, n - 1)
  PROVE  Reached(r, o)
  <1> DEFINE b == SubSeq(c, 1, Len(c) - 1)
  <1>1. /\ c \in Chains /\ c \in Seq(Namespaces) /\ Len(c) \in Nat /\ n = Len(c) + 1
        /\ s \in Seq(Frame) /\ Len(c) # 0
    <2>1. /\ c \in Chains /\ c \in Seq(Namespaces) /\ Len(c) \in Nat /\ n = Len(c) + 1
          /\ s \in Seq(Frame)
      BY AlongIs DEF Tracks
    <2>. QED  BY <2>1
  <1>2. /\ b \in Chains /\ b \in Seq(Namespaces) /\ Len(b) = Len(c) - 1 /\ Agree(b, c, Len(b))
        /\ \A k \in 0..Len(b) : FileAt(b)[k] = FileAt(c)[k] /\ PrefixAt(b)[k] = PrefixAt(c)[k]
    BY <1>1, ChainEnds
  <1>. HIDE DEF b
  <1>3. r \in Seq(Frame) /\ Len(r) = n - 1 /\ \A i \in 1..n - 1 : r[i] = s[i]
    <2>1. Len(s) \in Nat \ {0} /\ s \in Seq(Frame)
      BY <1>1
    <2>. QED  BY <2>1
  <1>4. \A k \in 0..Len(b) : k + 1 \in 1..n - 1 /\ k \in 0..Len(c) /\ k # Len(c)
    BY <1>1, <1>2
  <1>5. \A k \in 0..Len(c) : k = Len(c) \/ k \in 0..Len(b)
    BY <1>1, <1>2
  <1>6. Along(b, r)
    <2>1. \A k \in 0..Len(b) : r[k + 1].path = FileAt(b)[k] /\ r[k + 1].prefix = PrefixAt(b)[k]
      <3>1. \A k \in 0..Len(c) : s[k + 1].path = FileAt(c)[k] /\ s[k + 1].prefix = PrefixAt(c)[k]
        BY DEF Tracks, Along
      <3>. QED  BY <1>2, <1>3, <1>4, <3>1
    <2>2. \A k \in 1..Len(b) : b[k] \notin r[k].includes
      <3>1. \A k \in 1..Len(b) : k \in 1..Len(c) /\ k \in 1..n - 1 /\ b[k] = c[k]
        BY <1>1, <1>2 DEF Agree
      <3>2. \A k \in 1..Len(c) : c[k] \notin s[k].includes
        BY DEF Tracks, Along
      <3>. QED  BY <1>3, <3>1, <3>2
    <2>. QED  BY <1>1, <1>2, <1>3, <2>1, <2>2 DEF Along
  <1>7. ASSUME NEW d, NEW k \in 0..Len(b)
        PROVE  (Agree(d, b, k) <=> Agree(d, c, k)) /\ r[k + 1] = s[k + 1]
    <2>1. \A i \in 1..k : i \in 1..Len(b)
      BY <1>1, <1>2
    <2>2. \A i \in 1..k : b[i] = c[i]
      BY <1>2, <2>1 DEF Agree
    <2>. QED  BY <1>3, <1>4, <2>2 DEF Agree
  <1>8. ASSUME NEW d PROVE Ahead(d, c, s) <=> Ahead(d, b, r)
    <2>1. \A k \in 0..Len(b) : (Agree(d, b, k) <=> Agree(d, c, k)) /\ r[k + 1] = s[k + 1]
      BY <1>7
    <2>2. s[Len(c) + 1].includes = {}
      BY <1>1
    <2>. QED  BY <1>4, <1>5, <2>1, <2>2 DEF Ahead
  <1>9. ASSUME NEW x PROVE Awaited(x, c, s) <=> Awaited(x, b, r)
    <2>1. \A k \in 0..Len(b) : (Agree(x[1], b, k) <=> Agree(x[1], c, k)) /\ r[k + 1] = s[k + 1]
      BY <1>7
    <2>2. s[Len(c) + 1].tasks = {}
      BY <1>1
    <2>. QED  BY <1>4, <1>5, <1>8, <2>1, <2>2 DEF Awaited
  <1>10. {x \in Found : ~Awaited(x, b, r)} = {x \in Found : ~Awaited(x, c, s)}
    BY <1>9
  <1>11. Tracks(b, r, o)
    BY <1>6, <1>8, <1>10 DEF Tracks
  <1>. QED  BY <1>11 DEF Reached

\* The end of the first call: nothing is awaited.
LEMMA TracksEnd ==
  ASSUME project \in Projects, NEW c, NEW s, NEW o, Tracks(c, s, o), NEW n, n = Len(s), n = 1,
         s[1].tasks = {}, s[1].includes = {}
  PROVE  AllRead /\ \E F : Lists(o, F, Found)
  <1>1. Len(c) = 0
    <2>1. Len(c) \in Nat /\ n = Len(c) + 1
      BY AlongIs DEF Tracks
    <2>. QED  BY <2>1
  <1>2. \A d : ~Ahead(d, c, s)
    BY <1>1 DEF Ahead
  <1>3. \A x : ~Awaited(x, c, s)
    BY <1>1, <1>2 DEF Awaited
  <1>4. {x \in Found : ~Awaited(x, c, s)} = Found
    BY <1>3
  <1>. QED  BY <1>2, <1>4 DEF Tracks, AllRead

\* The chain of the root file alone.
LEMMA FirstChain ==
  ASSUME project \in Projects, Root # None, NEW c, c = <<>>
  PROVE  /\ c \in Chains /\ c \in Seq(Namespaces) /\ Len(c) = 0 /\ EndOf(c) = Root
         /\ FileAt(c)[0] = Root /\ PrefixAt(c)[0] = <<>>
  <1>1. c \in Seq(Namespaces) /\ Len(c) = 0
    OBVIOUS
  <1>2. FileAt(c)[0] = Root /\ PrefixAt(c)[0] = <<>>
    BY <1>1, FileAtIs, PrefixAtIs
  <1>3. 0 <= Cardinality(DOMAIN project) - 1
    <2>1. DOMAIN project # {}
      BY RootIs
    <2>2. Cardinality(DOMAIN project) # 0
      BY <2>1, FilesAreFinite, FS_EmptySet
    <2>. QED  BY <2>2, FilesAreFinite
  <1>4. \A k \in 0..Len(c) : k = 0
    BY <1>1
  <1>5. c \in Chains
    BY <1>1, <1>2, <1>3, <1>4, ChainsAre
  <1>. QED  BY <1>1, <1>2, <1>5 DEF EndOf

\* The first call awaits everything.
LEMMA TracksFirst ==
  ASSUME project \in Projects, Root \in WellFormed, NEW call \in Frame, call.path = Root,
         call.prefix = <<>>, call.tasks = DOMAIN project[Root].tasks,
         call.includes = DOMAIN project[Root].includes, NEW c, c = <<>>, NEW r, r = <<call>>,
         NEW o, o = <<>>
  PROVE  Tracks(c, r, o)
  <1>1. /\ c \in Chains /\ c \in Seq(Namespaces) /\ Len(c) = 0 /\ EndOf(c) = Root
        /\ FileAt(c)[0] = Root /\ PrefixAt(c)[0] = <<>>
    <2>1. Root # None
      BY FilesAreFinite DEF WellFormed
    <2>. QED  BY <2>1, FirstChain
  <1>2. r \in Seq(Frame) /\ Len(r) = 1 /\ r[1] = call /\ r[0 + 1] = call
    OBVIOUS
  <1>3. Along(c, r)
    BY <1>1, <1>2 DEF Along
  <1>4. \A d : Agree(d, c, 0)
    BY DEF Agree
  <1>5. ASSUME NEW d \in Chains PROVE d = c \/ Ahead(d, c, r)
    <2>1. d \in Seq(Namespaces) /\ Len(d) \in Nat
      <3>1. d \in Seq(Namespaces)
        BY ChainsAre
      <3>. QED  BY <3>1
    <2>2. CASE Len(d) = 0
      BY <2>1, <2>2
    <2>3. CASE Len(d) # 0
      <3>1. 0 < Len(d) /\ 0 \in 0..Len(c)
        BY <1>1, <2>1, <2>3
      <3>2. d[0 + 1] \in DOMAIN project[EndOf(c)].includes
        BY <1>1, <1>4, <3>1, Beyond
      <3>3. d[0 + 1] \in r[0 + 1].includes
        BY <1>1, <1>2, <3>2
      <3>. QED  BY <1>4, <3>1, <3>3 DEF Ahead
    <2>. QED  BY <2>2, <2>3
  <1>6. \A d \in Chains : EndOf(d) \notin WellFormed => Ahead(d, c, r)
    BY <1>1, <1>5
  <1>7. ASSUME NEW x \in Found PROVE Awaited(x, c, r)
    <2>1. x[1] \in Chains /\ x[2] \in DOMAIN project[EndOf(x[1])].tasks
      BY FoundIs
    <2>2. CASE Ahead(x[1], c, r)
      BY <2>2 DEF Awaited
    <2>3. CASE x[1] = c
      <3>1. 0 \in 0..Len(c) /\ Len(x[1]) = 0 /\ x[2] \in r[0 + 1].tasks
        BY <1>1, <1>2, <2>1, <2>3
      <3>. QED  BY <1>4, <3>1 DEF Awaited
    <2>. QED  BY <1>5, <2>1, <2>2, <2>3
  <1>8. {x \in Found : ~Awaited(x, c, r)} = {}
    BY <1>7
  <1>9. \E F : Lists(o, F, {})
    <2> DEFINE F == [i \in {} |-> 0]
    <2>1. DOMAIN o = {} /\ F \in [{} -> {}]
      OBVIOUS
    <2>. HIDE DEF F
    <2>2. Lists(o, F, {})
      BY <2>1 DEF Lists, OneToOne
    <2>. QED  BY <2>2
  <1>. QED  BY <1>3, <1>6, <1>8, <1>9 DEF Tracks

-----------------------------------------------------------------------------
(* Nothing is left out.                                                    *)

\* For each task returned, which of those found it is.
Exposed(l, r) ==
  \E G : /\ OneToOne(G, DOMAIN r, {i \in DOMAIN out \ l : Matches(out[i].name)})
         /\ \A k \in DOMAIN r : r[k] = out[G[k]]

Complete(l, r) == AllRead /\ (\E F : Lists(out, F, Found)) /\ Exposed(l, r)

\* A file or a glob that is malformed, and looked at.
Fails ==
  \/ \E c \in Chains : EndOf(c) \notin WellFormed
  \/ \E f \in Found : GlobPanics(f[3].name)

CInv ==
  /\ status = "start" => out = <<>>
  /\ status = "collecting" => Reached(stack, out)
  /\ status = "sorted" => Complete(left, subtasks)
  /\ status = "done" /\ Root # None =>
       (forwarded = Args /\ subtasks = <<>>) \/ (Complete(left, subtasks) /\ left = {})
  /\ status = "panicked" => Fails

LEMMA FailsSame == ASSUME UNCHANGED <<project, globs>> PROVE (Fails' <=> Fails) /\ (AllRead' <=> AllRead)
  <1>1. \A name : GlobPanics(name)' <=> GlobPanics(name)
    BY DEF GlobPanics, Decides
  <1>2. UNCHANGED project
    OBVIOUS
  <1>. QED  BY <1>1, <1>2, ChainsSame, FoundSame DEF Fails, AllRead

LEMMA CompleteSame ==
  ASSUME UNCHANGED <<project, globs, out>>, NEW l, NEW r PROVE Complete(l, r)' <=> Complete(l, r)
  <1>1. \A name : Matches(name)' <=> Matches(name)
    BY DEF Matches, Decides, GlobPanics
  <1>2. Exposed(l, r)' <=> Exposed(l, r)
    BY <1>1 DEF Exposed
  <1>3. Found' = Found
    BY FoundSame
  <1>. QED  BY <1>2, <1>3, FailsSame DEF Complete

\* Where the calls have come to.
LEMMA Moves ==
  ASSUME UNCHANGED project, NEW c, NEW s, NEW o, Tracks(c, s, o), stack' = s, out' = o PROVE (Reached(stack, out))'
  <1>1. Tracks(c, s, o)'
    BY TracksSame
  <1>. QED  BY <1>1 DEF Reached

LEMMA FoundFirst == ASSUME IInv, CInv, Tasks PROVE CInv'
  <1>1. UNCHANGED <<project, globs, out, left, subtasks, forwarded>> /\ status = "start"
        /\ out = <<>> /\ project \in Projects
    BY DEF Tasks, CInv, IInv, TypeOK
  <1>2. CASE Root = None /\ status' = "done" /\ UNCHANGED stack
    BY <1>1, <1>2, RootSame DEF CInv
  <1>3. CASE Root # None /\ collectTasks(Root, <<>>, <<>>)
    <2>1. Reads(Root, <<>>, <<>>)
      BY <1>3 DEF collectTasks, Ancestors
    <2>2. Root \in DOMAIN project
      BY <1>3, RootIs
    <2>3. CASE project[Root] = Malformed /\ status' = "panicked"
      <3> DEFINE c == <<>>
      <3>1. c = <<>>
        OBVIOUS
      <3>. HIDE DEF c
      <3>2. c \in Chains /\ EndOf(c) = Root
        BY <1>1, <1>3, <3>1, FirstChain
      <3>3. Root \notin WellFormed
        BY <2>3 DEF WellFormed
      <3>4. Fails
        BY <3>2, <3>3 DEF Fails
      <3>. QED  BY <1>1, <2>3, <3>4, FailsSame DEF CInv
    <2> DEFINE call == [path |-> Root, prefix |-> <<>>, tasks |-> DOMAIN project[Root].tasks,
                        includes |-> DOMAIN project[Root].includes]
               c == <<>>
               o == <<>>
               r == <<call>>
    <2>4. CASE project[Root] # Malformed /\ status' = "collecting" /\ stack' = Append(<<>>, call)
      <3>1. Root \in WellFormed
        BY <2>2, <2>4 DEF WellFormed
      <3>2. call \in Frame
        <4>1. <<>> \in Name
          BY DEF Name
        <4>. QED  BY <1>1, <2>2, <2>4, <4>1, ProjectIs DEF Frame
      <3>3. /\ call.path = Root /\ call.prefix = <<>> /\ call.tasks = DOMAIN project[Root].tasks
            /\ call.includes = DOMAIN project[Root].includes /\ c = <<>> /\ r = <<call>> /\ o = <<>>
        OBVIOUS
      <3>4. stack' = r /\ out' = o
        BY <1>1, <2>4
      <3>. HIDE DEF call, c, r, o
      <3>5. Tracks(c, r, o)
        BY <1>1, <3>1, <3>2, <3>3, TracksFirst
      <3>6. UNCHANGED project
        BY <1>1
      <3>7. (Reached(stack, out))'
        BY <3>4, <3>5, <3>6, Moves
      <3>. QED  BY <2>4, <3>7 DEF CInv
    <2>. QED  BY <2>1, <2>3, <2>4 DEF Reads
  <1>. QED  BY <1>2, <1>3 DEF Tasks


\* The innermost call is for the file at the end of the chain.
LEMMA Innermost ==
  ASSUME IInv, Collecting, NEW c, Tracks(c, stack, out), NEW n, n = Len(stack)
  PROVE  /\ project \in Projects /\ EndOf(c) \in WellFormed /\ n = Depth /\ stack[n] = Top
         /\ Top.path = EndOf(c) /\ out \in Seq(Entry) /\ status = "collecting"
         /\ stack[n].tasks \subseteq DOMAIN project[EndOf(c)].tasks
         /\ stack[n].includes \subseteq DOMAIN project[EndOf(c)].includes
  <1>1. project \in Projects /\ out \in Seq(Entry)
    BY DEF IInv, TypeOK
  <1>2. n = Depth /\ stack[n] = Top
    BY DEF Depth, Top
  <1>3. stack[n].path = EndOf(c)
    BY <1>1, AlongIs DEF Tracks
  <1>4. Reading(Top)
    BY TopIs
  <1>. QED  BY <1>1, <1>2, <1>3, <1>4 DEF Reading, WellFormed, Collecting

\* The innermost call has less to do, and the others are as they were.
Instead(r, call) ==
  /\ r \in Seq(Frame) /\ Len(r) = Len(stack) /\ r[Len(stack)] = call
  /\ \A i \in 1..Len(stack) : i # Len(stack) => r[i] = stack[i]

LEMMA GoesForward ==
  ASSUME IInv, Collecting, NEW call \in Frame, NEW r, r = [stack EXCEPT ![Depth] = call]
  PROVE  Instead(r, call)
  <1>1. stack \in Seq(Frame) /\ Depth \in 1..Len(stack) /\ Depth = Len(stack)
    BY TopIs DEF Depth
  <1>2. /\ r \in Seq(Frame) /\ Len(r) = Len(stack) /\ r[Depth] = call
        /\ \A i \in 1..Len(stack) : i # Depth => r[i] = stack[i]
    BY <1>1, ExceptSeq
  <1>. QED  BY <1>1, <1>2 DEF Instead

LEMMA FoundTask == ASSUME IInv, CInv, CollectTask PROVE CInv'
  <1>1. /\ UNCHANGED <<project, globs, left, subtasks, forwarded, status>> /\ Collecting
        /\ status = "collecting"
    BY DEF CollectTask, Collecting
  <1>2. PICK t \in Top.tasks :
          /\ stack' = [stack EXCEPT ![Depth].tasks = @ \ {t}]
          /\ out' = IF project[Top.path].tasks[t]
                    THEN Append(out, [name |-> Top.prefix \o t, desc |-> Top.path]) ELSE out
    BY DEF CollectTask
  <1>3. PICK c : Tracks(c, stack, out)
    BY <1>1 DEF CInv, Reached
  <1> DEFINE call == [Top EXCEPT !.tasks = @ \ {t}]
             n == Len(stack)
             r == [stack EXCEPT ![Depth] = call]
             e == [name |-> Top.prefix \o t, desc |-> Top.path]
             o == IF project[EndOf(c)].tasks[t] THEN Append(out, e) ELSE out
  <1>4. /\ project \in Projects /\ EndOf(c) \in WellFormed /\ n = Depth /\ stack[n] = Top
        /\ Top.path = EndOf(c) /\ out \in Seq(Entry) /\ t \in DOMAIN project[EndOf(c)].tasks
    BY <1>1, <1>3, Innermost
  <1>5. /\ call \in Frame /\ call.path = Top.path /\ call.prefix = Top.prefix
        /\ call.includes = Top.includes /\ call.tasks = Top.tasks \ {t}
    BY <1>1, TopIs DEF Frame
  <1>6. t \in Name /\ EndOf(c) \in Path
    BY <1>4, ProjectIs DEF WellFormed
  <1>7. e \in Entry
    <2>1. Top.prefix \in Name
      BY <1>1, TopIs DEF Frame
    <2>2. Top.prefix \o t \in Name
      BY <1>6, <2>1 DEF Name
    <2>. QED  BY <1>4, <1>6, <2>2 DEF Entry
  <1>8. stack' = r
    BY <1>1, <1>2, TopIs
  <1>9. out' = o
    BY <1>2, <1>4
  <1>10. /\ e = [name |-> stack[n].prefix \o t, desc |-> stack[n].path]
         /\ n = Len(stack) /\ r = [stack EXCEPT ![Depth] = call]
    BY <1>4
  <1>. HIDE DEF call, e, n, r
  <1>11. r \in Seq(Frame) /\ Len(r) = n /\ r[n] = call /\ \A i \in 1..n : i # n => r[i] = stack[i]
    <2>1. Instead(r, call)
      BY <1>1, <1>5, <1>10, GoesForward
    <2>. QED  BY <1>10, <2>1 DEF Instead
  <1>12. Advances(r, stack, n, stack[n].tasks \ {t}, stack[n].includes) /\ t \in stack[n].tasks
    BY <1>4, <1>5, <1>10, <1>11 DEF Advances
  <1>13. Tracks(c, r, o)
    BY <1>3, <1>4, <1>6, <1>7, <1>10, <1>12, TracksTask DEF o
  <1>. HIDE DEF o
  <1>14. (Reached(stack, out))'
    BY <1>1, <1>8, <1>9, <1>13, Moves
  <1>. QED  BY <1>1, <1>14 DEF CInv

\* A file that cannot be read, at the end of a chain.
LEMMA FailsAt ==
  ASSUME project \in Projects, NEW c \in Chains, EndOf(c) \in WellFormed,
         NEW ns \in DOMAIN project[EndOf(c)].includes,
         NEW path, path = Follows(EndOf(c), project[EndOf(c)].includes[ns]), path # None,
         \A k \in 0..Len(c) : path # FileAt(c)[k], path \notin WellFormed
  PROVE  Fails
  <1> DEFINE d == Append(c, ns)
  <1>1. d = Append(c, ns)
    OBVIOUS
  <1>. HIDE DEF d
  <1>2. GoesOn(d, c, ns, path)
    BY <1>1, ChainGoesOn
  <1>. QED  BY <1>2 DEF GoesOn, Fails

LEMMA FoundInclude == ASSUME IInv, CInv, CollectInclude PROVE CInv'
  <1>1. /\ UNCHANGED <<project, globs, out, left, subtasks, forwarded>> /\ Collecting
        /\ status = "collecting"
    BY DEF CollectInclude, Collecting
  <1>2. PICK ns \in Top.includes :
          LET inc == project[Top.path].includes[ns]
              path == Follows(Top.path, inc)
              callers == [stack EXCEPT ![Depth].includes = @ \ {ns}]
          IN  \/ path = None /\ stack' = callers /\ UNCHANGED status
              \/ path # None /\ collectTasks(path, ChildPrefix(Top.prefix, ns, inc), callers)
    BY DEF CollectInclude
  <1>3. PICK c : Tracks(c, stack, out)
    BY <1>1 DEF CInv, Reached
  <1> DEFINE inc == project[EndOf(c)].includes[ns]
             path == Follows(EndOf(c), inc)
             prefix == ChildPrefix(Top.prefix, ns, inc)
             kept == [Top EXCEPT !.includes = @ \ {ns}]
             callers == [stack EXCEPT ![Depth] = kept]
             n == Len(stack)
  <1>4. /\ project \in Projects /\ EndOf(c) \in WellFormed /\ n = Depth /\ stack[n] = Top
        /\ Top.path = EndOf(c) /\ ns \in DOMAIN project[EndOf(c)].includes
    <2>1. n = Len(stack)
      OBVIOUS
    <2>. HIDE DEF n
    <2>. QED  BY <1>1, <1>3, <2>1, Innermost
  <1>5. /\ kept \in Frame /\ kept.path = Top.path /\ kept.prefix = Top.prefix
        /\ kept.tasks = Top.tasks /\ kept.includes = Top.includes \ {ns}
    BY <1>1, TopIs DEF Frame
  <1>6. callers = [stack EXCEPT ![Depth].includes = @ \ {ns}]
    BY <1>1, TopIs
  <1>7. \/ path = None /\ stack' = callers /\ status' = "collecting"
        \/ path # None /\ collectTasks(path, prefix, callers)
    BY <1>1, <1>2, <1>4, <1>6
  <1>8. path \in DOMAIN project \cup {None}
    BY FollowsIs
  <1>. HIDE DEF kept
  <1>9. callers \in Seq(Frame) /\ Len(callers) = n /\ callers[n] = kept
        /\ \A i \in 1..n : i # n => callers[i] = stack[i]
    <2>1. callers = [stack EXCEPT ![Depth] = kept] /\ n = Len(stack)
      OBVIOUS
    <2>. HIDE DEF callers, n
    <2>2. Instead(callers, kept)
      BY <1>1, <1>5, <2>1, GoesForward
    <2>. QED  BY <2>1, <2>2 DEF Instead
  <1>10. path = Follows(EndOf(c), project[EndOf(c)].includes[ns]) /\ n = Len(stack)
         /\ prefix = ChildPrefix(stack[n].prefix, ns, project[EndOf(c)].includes[ns])
    BY <1>4
  <1>. HIDE DEF callers, path, prefix, inc, n
  <1>11. /\ Advances(callers, stack, n, stack[n].tasks, stack[n].includes \ {ns})
         /\ ns \in stack[n].includes /\ callers[n].path = stack[n].path
    BY <1>4, <1>5, <1>9, <1>10 DEF Advances
  <1>12. Ancestors(callers) = {FileAt(c)[k] : k \in 0..Len(c)}
    <2>1. /\ Len(c) \in Nat /\ n = Len(c) + 1 /\ DOMAIN callers = 1..n
          /\ \A k \in 0..Len(c) : stack[k + 1].path = FileAt(c)[k]
      <3>1. Along(c, stack)
        BY <1>3 DEF Tracks
      <3>2. Len(c) \in Nat /\ n = Len(c) + 1
        BY <1>4, <1>10, <3>1, AlongIs
      <3>3. DOMAIN callers = 1..n
        BY <1>9
      <3>. QED  BY <3>1, <3>2, <3>3 DEF Along
    <2>2. \A i \in 1..n : callers[i].path = stack[i].path
      BY <1>9, <1>11
    <2>3. \A k \in 0..Len(c) : k + 1 \in 1..n /\ callers[k + 1].path = FileAt(c)[k]
      BY <2>1, <2>2
    <2>4. \A i \in 1..n : i - 1 \in 0..Len(c) /\ (i - 1) + 1 = i
      BY <2>1
    <2>5. \A i \in 1..n : callers[i].path = FileAt(c)[i - 1]
      BY <2>3, <2>4
    <2>6. Ancestors(callers) = {callers[i].path : i \in 1..n}
      BY <2>1 DEF Ancestors
    <2>. QED  BY <2>3, <2>4, <2>5, <2>6
  <1>13. CASE stack' = callers /\ status' = "collecting" /\ (path = None \/ path \in Ancestors(callers))
    <2>1. path = None \/ \E k \in 0..Len(c) : path = FileAt(c)[k]
      BY <1>12, <1>13
    <2>2. Tracks(c, callers, out)
      BY <1>3, <1>4, <1>10, <1>11, <2>1, TracksPast
    <2>3. (Reached(stack, out))'
      BY <1>1, <1>13, <2>2, Moves
    <2>. QED  BY <1>13, <2>3 DEF CInv
  <1>14. CASE path # None /\ path \notin Ancestors(callers) /\ Reads(path, prefix, callers)
    <2>1. \A k \in 0..Len(c) : path # FileAt(c)[k]
      BY <1>12, <1>14
    <2>2. CASE project[path] = Malformed /\ status' = "panicked"
      <3>1. c \in Chains /\ path \notin WellFormed
        BY <1>3, <2>2 DEF Tracks, Along, WellFormed
      <3>2. Fails
        BY <1>4, <1>10, <1>14, <2>1, <3>1, FailsAt
      <3>3. Fails'
        BY <1>1, <3>2, FailsSame
      <3>. QED  BY <2>2, <3>3 DEF CInv
    <2> DEFINE call == [path |-> path, prefix |-> prefix, tasks |-> DOMAIN project[path].tasks,
                        includes |-> DOMAIN project[path].includes]
               r == Append(callers, call)
    <2>3. CASE project[path] # Malformed /\ stack' = r /\ status' = "collecting"
      <3>1. path \in WellFormed /\ path \in DOMAIN project
        BY <1>8, <1>14, <2>3 DEF WellFormed
      <3>2. call \in Frame
        <4>1. Top.prefix \in Name /\ ns \in Name
          BY <1>1, <1>4, ProjectIs, TopIs DEF Frame, WellFormed
        <4>2. prefix \in Name
          BY <4>1 DEF prefix, ChildPrefix, Name
        <4>. QED  BY <1>4, <2>3, <3>1, <4>2, ProjectIs DEF Frame
      <3>3. /\ call.path = path /\ call.prefix = prefix /\ call.tasks = DOMAIN project[path].tasks
            /\ call.includes = DOMAIN project[path].includes /\ r = Append(callers, call)
        OBVIOUS
      <3>. HIDE DEF call, r
      <3>4. Tracks(Append(c, ns), r, out)
        <4>1. Opens(call, path, ChildPrefix(stack[n].prefix, ns, project[EndOf(c)].includes[ns]))
          BY <1>10, <3>2, <3>3 DEF Opens
        <4>. QED  BY <1>3, <1>4, <1>10, <1>11, <2>1, <3>1, <3>3, <4>1, TracksInto
      <3>5. stack' = r /\ out' = out
        BY <1>1, <2>3
      <3>6. (Reached(stack, out))'
        BY <1>1, <3>4, <3>5, Moves
      <3>. QED  BY <2>3, <3>6 DEF CInv
    <2>. QED  BY <1>14, <2>2, <2>3 DEF Reads
  <1>. QED  BY <1>7, <1>13, <1>14 DEF collectTasks


LEMMA CompleteMoves ==
  ASSUME UNCHANGED <<project, globs, out>>, NEW l, NEW r, Complete(l, r), left' = l, subtasks' = r
  PROVE  (Complete(left, subtasks))'
  <1>1. Complete(l, r)'
    BY CompleteSame
  <1>. QED  BY <1>1 DEF Complete, Exposed

LEMMA FoundReturn == ASSUME IInv, CInv, Return PROVE CInv'
  <1>1. /\ UNCHANGED <<project, globs, out, subtasks, forwarded>> /\ Collecting
        /\ status = "collecting" /\ Top.tasks = {} /\ Top.includes = {}
        /\ stack' = SubSeq(stack, 1, Depth - 1)
        /\ IF Depth = 1 THEN status' = "sorted" /\ left' = DOMAIN out ELSE UNCHANGED <<status, left>>
    BY DEF Return, Collecting
  <1>2. PICK c : Tracks(c, stack, out)
    BY <1>1 DEF CInv, Reached
  <1> DEFINE n == Len(stack)
             r == SubSeq(stack, 1, n - 1)
  <1>3. n = Len(stack) /\ r = SubSeq(stack, 1, n - 1)
    OBVIOUS
  <1>. HIDE DEF r, n
  <1>4. project \in Projects /\ n = Depth /\ stack[n].tasks = {} /\ stack[n].includes = {}
    BY <1>1, <1>2, <1>3, Innermost
  <1>5. CASE Depth # 1
    <2>1. Reached(r, out)
      <3>1. n # 1
        BY <1>4, <1>5
      <3>. QED  BY <1>2, <1>3, <1>4, <3>1, TracksBack
    <2>2. PICK b : Tracks(b, r, out)
      BY <2>1 DEF Reached
    <2>3. stack' = r /\ out' = out
      BY <1>1, <1>3, <1>4
    <2>4. (Reached(stack, out))'
      BY <1>1, <2>2, <2>3, Moves
    <2>. QED  BY <1>1, <1>5, <2>4 DEF CInv
  <1>6. CASE Depth = 1
    <2>1. n = 1 /\ stack[1].tasks = {} /\ stack[1].includes = {}
      BY <1>4, <1>6
    <2>2. AllRead /\ \E F : Lists(out, F, Found)
      BY <1>2, <1>3, <1>4, <2>1, TracksEnd
    <2>3. subtasks = <<>>
      BY <1>1 DEF IInv
    <2> DEFINE l == DOMAIN out
               G == [k \in {} |-> 0]
    <2>4. Exposed(l, <<>>)
      <3>1. {i \in DOMAIN out \ l : Matches(out[i].name)} = {} /\ DOMAIN <<>> = {} /\ G \in [{} -> {}]
        OBVIOUS
      <3>. HIDE DEF l, G
      <3>. QED  BY <3>1 DEF Exposed, OneToOne
    <2>5. Complete(l, subtasks) /\ left' = l /\ subtasks' = subtasks /\ status' = "sorted"
      BY <1>1, <1>6, <2>2, <2>3, <2>4 DEF Complete
    <2>. HIDE DEF l
    <2>6. (Complete(left, subtasks))'
      BY <1>1, <2>5, CompleteMoves
    <2>. QED  BY <2>5, <2>6 DEF CInv
  <1>. QED  BY <1>5, <1>6

LEMMA FoundExpose == ASSUME IInv, CInv, Expose PROVE CInv'
  <1>1. UNCHANGED <<project, globs, stack, out, forwarded>> /\ status = "sorted"
    BY DEF Expose
  <1>2. PICK i \in left :
          /\ left' = left \ {i}
          /\ IF GlobPanics(out[i].name) THEN status' = "panicked" ELSE UNCHANGED status
          /\ subtasks' = IF Matches(out[i].name) THEN Append(subtasks, out[i]) ELSE subtasks
    BY DEF Expose
  <1>3. Complete(left, subtasks)
    BY <1>1 DEF CInv
  <1>4. i \in DOMAIN out /\ out \in Seq(Entry) /\ subtasks \in Seq(Entry)
    BY DEF IInv, TypeOK
  <1>5. CASE GlobPanics(out[i].name)
    <2>1. PICK F : Lists(out, F, Found)
      BY <1>3 DEF Complete
    <2>2. F[i] \in Found /\ out[i] = F[i][3]
      BY <1>4, <2>1 DEF Lists, OneToOne
    <2>3. Fails
      BY <1>5, <2>2 DEF Fails
    <2>4. Fails'
      BY <1>1, <2>3, FailsSame
    <2>. QED  BY <1>2, <1>5, <2>4 DEF CInv
  <1>6. CASE ~GlobPanics(out[i].name)
    <2> DEFINE M == {j \in DOMAIN out \ left : Matches(out[j].name)}
               N == {j \in DOMAIN out \ (left \ {i}) : Matches(out[j].name)}
               l == left \ {i}
               n == Len(subtasks)
    <2>1. PICK G : OneToOne(G, DOMAIN subtasks, M) /\ \A k \in DOMAIN subtasks : subtasks[k] = out[G[k]]
      BY <1>3 DEF Complete, Exposed
    <2>2. CASE ~Matches(out[i].name)
      <3>1. N = M
        BY <1>4, <2>2
      <3>2. Exposed(l, subtasks)
        <4>. HIDE DEF M
        <4>. QED  BY <2>1, <3>1 DEF Exposed
      <3>3. Complete(l, subtasks) /\ left' = l /\ subtasks' = subtasks
        BY <1>2, <1>3, <2>2, <3>2 DEF Complete
      <3>. HIDE DEF l
      <3>4. (Complete(left, subtasks))'
        BY <1>1, <3>3, CompleteMoves
      <3>. QED  BY <1>1, <1>2, <1>6, <3>4 DEF CInv
    <2>3. CASE Matches(out[i].name)
      <3> DEFINE r == Append(subtasks, out[i])
      <3>1. N = M \cup {i} /\ i \notin M
        BY <1>4, <2>3
      <3>2. /\ n \in Nat /\ DOMAIN subtasks = 1..n /\ DOMAIN r = 1..n + 1 /\ r[n + 1] = out[i]
            /\ \A k \in 1..n : r[k] = subtasks[k]
        <4>1. out[i] \in Entry
          BY <1>4
        <4>. QED  BY <1>4, <4>1
      <3>. HIDE DEF M, N, r, n
      <3>3. PICK H : Extends(H, G, n, i, N)
        <4>1. OneToOne(G, 1..n, M)
          BY <2>1, <3>2
        <4>. QED  BY <3>1, <3>2, <4>1, OneMore
      <3>4. \A k \in 1..n + 1 : r[k] = out[H[k]]
        <4>1. \A k \in 1..n + 1 : k = n + 1 \/ k \in 1..n
          BY <3>2
        <4>. QED  BY <2>1, <3>2, <3>3, <4>1 DEF Extends
      <3>5. Exposed(l, r)
        BY <3>2, <3>3, <3>4 DEF Exposed, N, Extends
      <3>6. Complete(l, r) /\ left' = l /\ subtasks' = r
        BY <1>2, <1>3, <2>3, <3>5 DEF Complete, r
      <3>. HIDE DEF l
      <3>7. (Complete(left, subtasks))'
        BY <1>1, <3>6, CompleteMoves
      <3>. QED  BY <1>1, <1>2, <1>6, <3>7 DEF CInv
    <2>. QED  BY <2>2, <2>3
  <1>. QED  BY <1>5, <1>6

\* Steps that neither find nor expose anything.
LEMMA FoundAside ==
  ASSUME IInv, CInv, UNCHANGED <<project, globs, stack, out, left, subtasks>>,
         \/ status = "start" /\ status' = "done" /\ (Root # None => forwarded' = Args)
         \/ status = "sorted" /\ left = {} /\ status' = "done"
         \/ UNCHANGED status /\ (subtasks # <<>> \/ UNCHANGED forwarded)
  PROVE  CInv'
  <1>1. Complete(left, subtasks) => (Complete(left, subtasks))'
    <2> DEFINE l == left
               r == subtasks
    <2>1. left' = l /\ subtasks' = r
      OBVIOUS
    <2>2. Complete(l, r) <=> Complete(left, subtasks)
      OBVIOUS
    <2>. HIDE DEF l, r
    <2>. QED  BY <2>1, <2>2, CompleteMoves
  <1>2. Reached(stack, out) => (Reached(stack, out))'
    <2>1. ASSUME NEW c, Tracks(c, stack, out) PROVE (Reached(stack, out))'
      <3> DEFINE s == stack
                 o == out
      <3>1. stack' = s /\ out' = o /\ Tracks(c, s, o)
        BY <2>1
      <3>. HIDE DEF s, o
      <3>. QED  BY <3>1, Moves
    <2>. QED  BY <2>1 DEF Reached
  <1>3. Fails => Fails'
    BY FailsSame
  <1>4. Root' = Root
    BY RootSame
  <1>5. status = "start" => subtasks = <<>>
    BY DEF IInv
  <1>. QED  BY <1>1, <1>2, <1>3, <1>4, <1>5 DEF CInv

LEMMA FoundNext == ASSUME IInv, CInv, [Next]_vars PROVE CInv'
  <1>1. ASSUME RunTaskfile PROVE CInv'
    BY <1>1, FoundAside DEF RunTaskfile
  <1>2. ASSUME Finish PROVE CInv'
    BY <1>2, FoundAside DEF Finish
  <1>3. ASSUME Forward PROVE CInv'
    <2>1. PICK i \in DOMAIN subtasks : forwarded' = subtasks[i].name
      BY <1>3 DEF Forward
    <2>2. subtasks # <<>>
      BY <2>1
    <2>. QED  BY <1>3, <2>2, FoundAside DEF Forward
  <1>4. ASSUME UNCHANGED vars PROVE CInv'
    BY <1>4, FoundAside DEF vars
  <1>. QED  BY <1>1, <1>2, <1>3, <1>4, FoundFirst, FoundTask, FoundInclude, FoundReturn, FoundExpose
            DEF Next, Import, Ended

\* What was found and is exposed, each as often as it was found.
LEMMA Counted ==
  ASSUME IInv, NEW l, l = {}, Complete(l, subtasks), NEW e, Matches(e.name)
  PROVE  /\ (\E k \in DOMAIN subtasks : subtasks[k] = e) <=> \E f \in Found : f[3] = e
         /\ Cardinality({k \in DOMAIN subtasks : subtasks[k] = e}) = Cardinality({f \in Found : f[3] = e})
  <1> DEFINE S == {k \in DOMAIN subtasks : subtasks[k] = e}
             T == {f \in Found : f[3] = e}
             M == {j \in DOMAIN out \ l : Matches(out[j].name)}
  <1>1. PICK F : OneToOne(F, DOMAIN out, Found) /\ \A i \in DOMAIN out : out[i] = F[i][3]
    BY DEF Complete, Lists
  <1>2. PICK G : OneToOne(G, DOMAIN subtasks, M) /\ \A k \in DOMAIN subtasks : subtasks[k] = out[G[k]]
    BY DEF Complete, Exposed
  <1> DEFINE H == [k \in S |-> F[G[k]]]
  <1>3. \A k \in DOMAIN subtasks : G[k] \in DOMAIN out
    BY <1>2 DEF OneToOne
  <1>4. \A k \in S : H[k] = F[G[k]] /\ H[k] \in T
    BY <1>1, <1>2, <1>3 DEF OneToOne
  <1>5. ASSUME NEW f \in T PROVE \E k \in S : H[k] = f
    <2>1. PICK i \in DOMAIN out : F[i] = f
      BY <1>1 DEF OneToOne
    <2>2. out[i] = e
      BY <1>1, <2>1
    <2>3. i \in M
      BY <2>2
    <2>4. PICK k \in DOMAIN subtasks : G[k] = i
      BY <1>2, <2>3 DEF OneToOne
    <2>. QED  BY <1>2, <2>1, <2>2, <2>4
  <1>6. \A a, b \in S : H[a] = H[b] => a = b
    <2> SUFFICES ASSUME NEW a \in S, NEW b \in S, H[a] = H[b] PROVE a = b
      OBVIOUS
    <2>1. F[G[a]] = F[G[b]] /\ G[a] \in DOMAIN out /\ G[b] \in DOMAIN out
      BY <1>3
    <2>2. G[a] = G[b]
      BY <1>1, <2>1 DEF OneToOne
    <2>. QED  BY <1>2, <2>2 DEF OneToOne
  <1>7. OneToOne(H, S, T)
    <2>1. H \in [S -> T]
      BY <1>4
    <2>. QED  BY <1>5, <1>6, <2>1 DEF OneToOne
  <1>8. IsFiniteSet(S)
    <2>1. subtasks \in Seq(Entry)
      BY DEF IInv, TypeOK
    <2>2. DOMAIN subtasks = 1..Len(subtasks) /\ Len(subtasks) \in Nat
      BY <2>1
    <2>3. IsFiniteSet(DOMAIN subtasks)
      BY <2>2, FS_Interval
    <2>. QED  BY <2>3, FS_Subset
  <1>9. Cardinality(T) = Cardinality(S)
    <2>. HIDE DEF H, S, T
    <2>. QED  BY <1>7, <1>8, SameNumber
  <1>10. (\E k \in DOMAIN subtasks : subtasks[k] = e) <=> \E f \in Found : f[3] = e
    <2>1. ASSUME NEW k \in DOMAIN subtasks, subtasks[k] = e PROVE \E f \in Found : f[3] = e
      BY <1>4, <2>1
    <2>2. ASSUME NEW f \in Found, f[3] = e PROVE \E k \in DOMAIN subtasks : subtasks[k] = e
      BY <1>5, <2>2
    <2>. QED  BY <2>1, <2>2
  <1>. QED  BY <1>9, <1>10

LEMMA Implied == IInv /\ CInv => ListsEveryChain
  <1> SUFFICES ASSUME IInv, CInv PROVE ListsEveryChain
    OBVIOUS
  <1> DEFINE entries == {f[3] : f \in Found}
  <1>1. ASSUME status = "done", forwarded # Args, Root # None
        PROVE  /\ \A c \in Chains : EndOf(c) \in WellFormed
               /\ {subtasks[i] : i \in DOMAIN subtasks} = {e \in entries : Matches(e.name)}
               /\ \A e \in entries : Matches(e.name) =>
                    Cardinality({i \in DOMAIN subtasks : subtasks[i] = e}) =
                    Cardinality({f \in Found : f[3] = e})
               /\ \A i, k \in DOMAIN subtasks : i < k => ~Precedes(subtasks[k].name, subtasks[i].name)
    <2>1. Complete(left, subtasks) /\ left = {}
      BY <1>1 DEF CInv
    <2>2. \A c \in Chains : EndOf(c) \in WellFormed
      BY <2>1 DEF Complete, AllRead
    <2>3. ASSUME NEW e, Matches(e.name)
          PROVE  /\ (\E k \in DOMAIN subtasks : subtasks[k] = e) <=> \E f \in Found : f[3] = e
                 /\ Cardinality({k \in DOMAIN subtasks : subtasks[k] = e}) =
                    Cardinality({f \in Found : f[3] = e})
      BY <2>1, <2>3, Counted
    <2>4. \A i \in DOMAIN subtasks : Matches(subtasks[i].name)
      BY DEF IInv, OnlyListed
    <2>5. {subtasks[i] : i \in DOMAIN subtasks} = {e \in entries : Matches(e.name)}
      <3>1. ASSUME NEW i \in DOMAIN subtasks PROVE subtasks[i] \in {e \in entries : Matches(e.name)}
        BY <2>3, <2>4
      <3>2. ASSUME NEW e \in entries, Matches(e.name) PROVE \E i \in DOMAIN subtasks : subtasks[i] = e
        BY <2>3, <3>2
      <3>. QED  BY <3>1, <3>2
    <2>6. \A e \in entries : Matches(e.name) =>
            Cardinality({i \in DOMAIN subtasks : subtasks[i] = e}) = Cardinality({f \in Found : f[3] = e})
      BY <2>3
    <2>. QED  BY <2>2, <2>5, <2>6 DEF IInv, Ordered
  <1>2. ASSUME status = "panicked"
        PROVE  \/ \E c \in Chains : EndOf(c) \notin WellFormed
               \/ \E e \in entries : GlobPanics(e.name)
    BY <1>2 DEF CInv, Fails
  <1>. QED  BY <1>1, <1>2 DEF ListsEveryChain

LEMMA CompleteInvariance == Spec => []CInv
  <1>1. Init => CInv
    BY DEF Init, CInv
  <1>2. IInv /\ CInv /\ [Next]_vars => CInv'
    BY FoundNext
  <1>. QED  BY <1>1, <1>2, Invariance, PTL DEF Spec

-----------------------------------------------------------------------------
(***************************************************************************)
(* collectTasks' calls are always a chain of includes from the file found  *)
(* first, and no file is read again inside its own reading: the recursion  *)
(* is never deeper than there are files.                                   *)
(***************************************************************************)
THEOREM Typed == Spec => []TypeOK
  <1>1. IInv => TypeOK
    BY DEF IInv
  <1>. QED  BY <1>1, Invariance, PTL

(***************************************************************************)
(* Every task Tasks returns is one that is not internal, of a file that a  *)
(* chain of includes leads to, under the namespaces of that chain, and the *)
(* globs select it.                                                        *)
(***************************************************************************)
THEOREM OnlyIncludedIsListed == Spec => []OnlyListed
  <1>1. IInv => OnlyListed
    BY DEF IInv
  <1>. QED  BY <1>1, Invariance, PTL

(***************************************************************************)
(* The tasks Tasks returns are in the order of their names, in whatever    *)
(* order the maps of the files gave them.                                  *)
(***************************************************************************)
THEOREM InOrder == Spec => []Ordered
  <1>1. IInv => Ordered
    BY DEF IInv
  <1>. QED  BY <1>1, Invariance, PTL

(***************************************************************************)
(* Whatever the order of the maps, what Tasks returns is what the globs    *)
(* select of the tasks all chains of includes without a cycle lead to,     *)
(* each as often as chains lead to it, in the order of names; and Tasks    *)
(* fails only over a file that is reached, or a glob that is tried.        *)
(***************************************************************************)
THEOREM EveryChainIsListed == Spec => []ListsEveryChain
  <1>1. IInv /\ CInv => ListsEveryChain
    BY Implied
  <1>. QED  BY <1>1, Invariance, CompleteInvariance, PTL

\* No more active calls than files.
Bounded == Len(stack) <= Cardinality(DOMAIN project)

LEMMA ChainIsShort == IInv => Bounded
  <1> SUFFICES ASSUME IInv PROVE Bounded
    OBVIOUS
  <1> DEFINE n == Len(stack)
             f == [i \in 1..n |-> stack[i].path]
  <1>1. project \in Projects /\ n \in Nat /\ DOMAIN stack = 1..n /\ IsChain(stack)
    <2>1. stack \in Seq(Frame)
      BY DEF IInv, TypeOK
    <2>2. n \in Nat /\ DOMAIN stack = 1..n
      BY <2>1
    <2>. QED  BY <2>2 DEF IInv, TypeOK
  <1>. HIDE DEF n
  <1>2. f \in [1..n -> DOMAIN project]
    BY <1>1 DEF IInv, Reading
  <1>3. \A i, k \in 1..n : f[i] = f[k] => i = k
    BY <1>1 DEF IsChain
  <1>4. f \in Injection(1..n, DOMAIN project)
    <2>. HIDE DEF f
    <2>. QED  BY <1>2, <1>3, Fun_IsInj
  <1>5. Cardinality(1..n) = n /\ IsFiniteSet(1..n)
    BY <1>1, FS_Interval
  <1>6. Cardinality(1..n) <= Cardinality(DOMAIN project)
    <2>. HIDE DEF f
    <2>. QED  BY <1>1, <1>4, FilesAreFinite, FS_Injection
  <1>. QED  BY <1>5, <1>6 DEF Bounded, n

(***************************************************************************)
(* "A cycle in the include graph terminates": a call of collectTasks that  *)
(* is active is for a file of its own, so there are no more of them than   *)
(* there are files.                                                        *)
(***************************************************************************)
THEOREM DepthIsBounded == Spec => []Bounded
  BY ChainIsShort, Invariance, PTL
=============================================================================
