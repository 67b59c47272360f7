-------------------------- MODULE ArtifactsProofs --------------------------
(***************************************************************************)
(* Theorems about Artifacts: its type, what an upload that overwrites does *)
(* to other artifacts, and that a download is whole.                       *)
(***************************************************************************)
EXTENDS Artifacts, FiniteSetTheorems, WellFoundedInduction, TLAPS

Elements(s) == {s[k] : k \in DOMAIN s}

(***************************************************************************)
(* The type, job by job.                                                   *)
(***************************************************************************)
Shaped(j) ==
  LET c == client[j] IN
  /\ c \in ClientState
  /\ \A k \in DOMAIN c.found : c.found[k] \in Id
  /\ c.seen \subseteq Id
  /\ c.at \in {"delete", "fetch", "extract"} => c.next \in DOMAIN c.found
  /\ c.at = "extract" => c.entries \subseteq store[c.found[c.next]].files

(***************************************************************************)
(* Which calls get where, and what they have not set when they do.         *)
(***************************************************************************)
Placed(j) ==
  LET c == client[j] IN
  /\ c.at \in {"delete", "upload"} => c.call.op = "upload"
  /\ c.at \in {"list", "delete"} /\ c.call.op = "upload" => c.call.overwrite
  /\ c.at \in {"find-run", "fetch", "extract"} => c.call.op = "download"
  /\ c.at \in {"new", "start", "list", "find-run"} => c.next = 1 /\ c.seen = {}
  /\ c.at # "ok" => c.id = 0

(***************************************************************************)
(* An upload deletes what has its name.  While nothing excuses it, what it *)
(* saw is what it has to delete, from the first on.                        *)
(***************************************************************************)
Replaces(j) ==
  LET c == client[j] IN
  /\ c.at = "delete" => \A k \in DOMAIN c.found : store[c.found[k]].name \in Selects[ArtifactName(j)]
  /\ c.at = "delete" /\ ~c.excused =>
       /\ c.seen \subseteq Elements(c.found)
       /\ \A k \in DOMAIN c.found : k < c.next => ~store[c.found[k]].live
  /\ c.call.op = "upload" /\ c.at \in {"upload", "ok"} /\ ~c.excused =>
       \A i \in c.seen : ~store[i].live

(***************************************************************************)
(* Of the first n artifacts of a download, the last that has a file that   *)
(* can be extracted has brought it.                                        *)
(***************************************************************************)
Brought(j, n, f) ==
  \A k \in 1..n :
    /\ Kind[f] \in {"plain", "nested", "huge"} /\ Carries(j, k, f)
    /\ \A m \in k + 1..n : ~Carries(j, m, f)
    => client[j].disk[f] = client[j].found[k] /\ (Kind[f] # "huge" => f \notin client[j].cut)

(***************************************************************************)
(* A download has brought everything from the artifacts before the one it  *)
(* is at, and from that one what is not left among the entries.            *)
(***************************************************************************)
Unpacks(j) ==
  LET c == client[j] IN
  /\ c.at = "fetch" => \A f \in File : Brought(j, c.next - 1, f)
  /\ c.at = "extract" => \A f \in File \ c.entries : Brought(j, c.next, f)
  /\ c.at = "ok" /\ c.call.op = "download" => \A f \in File : Brought(j, Len(c.found), f)

\* What is true of a job.
Sound(j) == Shaped(j) /\ Placed(j) /\ Replaces(j) /\ Unpacks(j)

\* Whoever deleted an artifact overwrites its name, and has not returned it.
Replaced(i) ==
  \E j \in Job : /\ Overwrites(j) /\ store[i].name \in Selects[ArtifactName(j)]
                 /\ i # client[j].id

Stored ==
  /\ store \in Seq(Artifact)
  /\ Len(store) <= Len(Earlier) + Cardinality({j \in Job : client[j].at \in Ended})
  /\ passed \subseteq Run \ {This}
  /\ faults \in 0..MaxFaults

IInv ==
  /\ Stored
  /\ client \in [Job -> ClientState]
  /\ \A j \in Job : Sound(j)
  /\ \A i \in Id : ~store[i].live => Replaced(i)
-----------------------------------------------------------------------------
(* Lists that match.                                                       *)

(***************************************************************************)
(* Induction up to n, over the members of a set: by the least number that  *)
(* is not one, as the naturals are well founded.                           *)
(***************************************************************************)
LEMMA UpTo ==
  ASSUME NEW n \in Nat, NEW T, 0 \in T, \A m \in 0..n : m \in T /\ m < n => m + 1 \in T
  PROVE  \A m \in 0..n : m \in T
<1> DEFINE R == {p \in Nat \X Nat : p[1] < p[2]}
           S == {m \in 0..n : m \notin T}
<1>1. IsWellFoundedOn(R, Nat)
  BY NatLessThanWellFounded DEF OpToRel
<1> SUFFICES ASSUME S # {} PROVE FALSE
  OBVIOUS
<1>2. PICK m \in S : \A k \in S : ~ (<<k, m>> \in R)
  <2> S \subseteq Nat
    OBVIOUS
  <2> HIDE DEF R, S
  <2> QED BY <1>1, WFMin
<1>3. m \in 0..n /\ m # 0 /\ m - 1 \in 0..n /\ m - 1 < n /\ (m - 1) + 1 = m /\ <<m - 1, m>> \in R
  OBVIOUS
<1> QED BY <1>2, <1>3

LEMMA Appended ==
  ASSUME NEW T, NEW s \in Seq(T), NEW e \in T
  PROVE  Append(s, e) \in Seq(T) /\ Elements(Append(s, e)) = Elements(s) \cup {e}
<1> DEFINE t == Append(s, e)
<1>1. t \in Seq(T) /\ Len(t) = Len(s) + 1 /\ t[Len(s) + 1] = e /\ \A k \in 1..Len(s) : t[k] = s[k]
  OBVIOUS
<1>2. DOMAIN t = 1..Len(s) + 1 /\ DOMAIN s = 1..Len(s) /\ Len(s) \in Nat
  BY <1>1
<1> HIDE DEF t
<1>3. ASSUME NEW x \in Elements(t) PROVE x \in Elements(s) \cup {e}
  <2>1. PICK k \in 1..Len(s) + 1 : x = t[k]
    BY <1>2, <1>3 DEF Elements
  <2> QED BY <2>1, <1>1, <1>2 DEF Elements
<1>4. ASSUME NEW x \in Elements(s) PROVE x \in Elements(t)
  <2>1. PICK k \in 1..Len(s) : x = s[k]
    BY <1>2, <1>4 DEF Elements
  <2> QED BY <2>1, <1>1, <1>2 DEF Elements
<1>5. e \in Elements(t)
  BY <1>1, <1>2 DEF Elements
<1> QED BY <1>1, <1>3, <1>4, <1>5 DEF t

(***************************************************************************)
(* What listWorkflowRunArtifacts keeps of a page: those elements, and no   *)
(* others, whose names match.  The first step is that its loop, a function *)
(* defined by recursion, exists.                                           *)
(***************************************************************************)
LEMMA MatchingKeeps ==
  ASSUME NEW l \in Seq(Id), NEW pattern
  PROVE  /\ Matching(l, pattern) \in Seq(Id)
         /\ Elements(Matching(l, pattern)) = {i \in Elements(l) : store[i].name \in Selects[pattern]}
<1> DEFINE step(g, n) ==
      IF n = 0 THEN <<>>
      ELSE IF store[l[n]].name \in Selects[pattern] THEN Append(g[n - 1], l[n]) ELSE g[n - 1]
           Defined(m) == \E g : g = [n \in 0..m |-> step(g, n)]
           out == CHOOSE g : g = [n \in 0..Len(l) |-> step(g, n)]
           Keeps(n) ==
             /\ out[n] \in Seq(Id)
             /\ Elements(out[n]) = {i \in {l[k] : k \in 1..n} : store[i].name \in Selects[pattern]}
<1>1. Len(l) \in Nat
  OBVIOUS
<1>2. Defined(Len(l))
  <2>1. Defined(0)
    <3>1. [n \in 0..0 |-> <<>>] = [n \in 0..0 |-> step([k \in 0..0 |-> <<>>], n)]
      OBVIOUS
    <3> QED BY <3>1
  <2>2. ASSUME NEW m \in 0..Len(l), Defined(m), m < Len(l)
        PROVE  Defined(m + 1)
    <3>1. PICK g : g = [n \in 0..m |-> step(g, n)]
      BY <2>2
    <3> DEFINE h == [n \in 0..m + 1 |-> IF n = m + 1 THEN step(g, n) ELSE g[n]]
    <3>2. ASSUME NEW n \in 0..m + 1 PROVE h[n] = step(h, n)
      <4>1. n # 0 => n - 1 \in 0..m + 1 /\ n - 1 # m + 1 /\ h[n - 1] = g[n - 1]
        BY <1>1
      <4>2. n # m + 1 => n \in 0..m
        BY <1>1
      <4>3. n # m + 1 => g[n] = step(g, n)
        BY <3>1, <4>2
      <4>4. step(h, n) = step(g, n)
        BY <4>1
      <4>5. h[n] = IF n = m + 1 THEN step(g, n) ELSE g[n]
        OBVIOUS
      <4> HIDE DEF h, step
      <4> QED BY <4>3, <4>4, <4>5
    <3>3. h = [n \in 0..m + 1 |-> h[n]]
      OBVIOUS
    <3>4. h = [n \in 0..m + 1 |-> step(h, n)]
      <4> HIDE DEF h, step
      <4> QED BY <3>2, <3>3
    <3> HIDE DEF h, step
    <3> QED BY <3>4
  <2> DEFINE T == {m \in 0..Len(l) : Defined(m)}
  <2> HIDE DEF Defined
  <2>3. 0 \in T /\ \A m \in 0..Len(l) : m \in T /\ m < Len(l) => m + 1 \in T
    BY <1>1, <2>1, <2>2
  <2>4. \A m \in 0..Len(l) : m \in T
    <3> HIDE DEF T
    <3> QED BY <1>1, <2>3, UpTo
  <2> QED BY <1>1, <2>4
<1>3. out = [n \in 0..Len(l) |-> step(out, n)]
  <2> HIDE DEF step
  <2> QED BY <1>2
<1>4. Matching(l, pattern) = out[Len(l)]
  BY DEF Matching
<1>5. \A n \in 0..Len(l) : out[n] = step(out, n)
  <2> HIDE DEF step, out
  <2> QED BY <1>3
<1> HIDE DEF out
<1>6. Keeps(Len(l))
  <2>1. Keeps(0)
    <3>1. out[0] = <<>>
      BY <1>1, <1>5
    <3> QED BY <3>1 DEF Elements
  <2>2. ASSUME NEW n \in 0..Len(l), Keeps(n), n < Len(l)
        PROVE  Keeps(n + 1)
    <3>1. n + 1 \in DOMAIN l /\ l[n + 1] \in Id /\ (n + 1) - 1 = n
      BY <1>1, <2>2
    <3>2. out[n + 1] = IF store[l[n + 1]].name \in Selects[pattern] THEN Append(out[n], l[n + 1]) ELSE out[n]
      BY <1>1, <1>5, <3>1
    <3>3. {l[k] : k \in 1..n + 1} = {l[k] : k \in 1..n} \cup {l[n + 1]}
      BY <1>1
    <3> DEFINE o == out[n]
               i == l[n + 1]
    <3>4. o \in Seq(Id) /\ i \in Id
      BY <2>2, <3>1
    <3>5. CASE store[i].name \in Selects[pattern]
      <4>1. out[n + 1] = Append(o, i)
        BY <3>2, <3>5
      <4>2. Append(o, i) \in Seq(Id) /\ Elements(Append(o, i)) = Elements(o) \cup {i}
        BY <3>4, Appended
      <4>3. Elements(o) = {a \in {l[k] : k \in 1..n} : store[a].name \in Selects[pattern]}
        BY <2>2
      <4>4. Elements(out[n + 1]) = {a \in {l[k] : k \in 1..n + 1} : store[a].name \in Selects[pattern]}
        <5> HIDE DEF o, i
        <5> QED BY <4>1, <4>2, <4>3, <3>3, <3>5 DEF i
      <4> QED BY <4>1, <4>2, <4>4
    <3>6. CASE store[i].name \notin Selects[pattern]
      BY <2>2, <3>2, <3>3, <3>6
    <3> QED BY <3>5, <3>6
  <2> DEFINE T == {n \in 0..Len(l) : Keeps(n)}
  <2> HIDE DEF Keeps
  <2>3. 0 \in T /\ \A n \in 0..Len(l) : n \in T /\ n < Len(l) => n + 1 \in T
    BY <1>1, <2>1, <2>2
  <2>4. \A n \in 0..Len(l) : n \in T
    <3> HIDE DEF T
    <3> QED BY <1>1, <2>3, UpTo
  <2> QED BY <1>1, <2>4
<1>7. Elements(l) = {l[k] : k \in 1..Len(l)}
  BY DEF Elements
<1> QED BY <1>4, <1>6, <1>7

(***************************************************************************)
(* GitHub lists different artifacts of the run, and all of them unless     *)
(* there are more than it lists.                                           *)
(***************************************************************************)
LEMMA ListingsAre ==
  ASSUME NEW S, IsFiniteSet(S), NEW l \in Listings(S)
  PROVE  /\ l \in Seq(S) /\ Elements(l) \subseteq S
         /\ ~(Len(l) < Cardinality(S)) => Elements(l) = S
<1>1. PICK n \in Nat : l \in [1..n -> S] /\ n <= Cardinality(S)
  BY DEF Listings
<1>2. l \in Seq(S) /\ Len(l) = n /\ DOMAIN l = 1..n
  BY <1>1
<1>3. Elements(l) \subseteq S
  BY <1>1, <1>2 DEF Elements
<1>4. ASSUME ~(Len(l) < Cardinality(S)) PROVE Elements(l) = S
  <2>1. n = Cardinality(S)
    BY <1>1, <1>2, <1>4, FS_CardinalityType
  <2>2. l \in Bijection(1..n, Elements(l))
    BY <1>1, <1>2 DEF Elements, Listings, Bijection, Injection, Surjection, IsInjective
  <2>3. IsFiniteSet(1..n) /\ Cardinality(1..n) = n
    BY FS_Interval
  <2>4. ExistsBijection(1..n, Elements(l))
    BY <2>2 DEF ExistsBijection
  <2>5. Cardinality(Elements(l)) = n
    BY <2>3, <2>4, FS_Bijection
  <2> QED BY <1>3, <2>1, <2>5, FS_Subset
<1> QED BY <1>2, <1>3, <1>4

LEMMA LiveFinite ==
  ASSUME NEW run, store \in Seq(Artifact)
  PROVE  IsFiniteSet(Live(run)) /\ Live(run) \subseteq Id
<1>1. Len(store) \in Nat /\ Id = 1..Len(store)
  BY DEF Id
<1>2. IsFiniteSet(1..Len(store))
  BY <1>1, FS_Interval
<1>3. Live(run) \subseteq 1..Len(store)
  BY <1>1 DEF Live
<1> QED BY <1>1, <1>2, <1>3, FS_Subset
-----------------------------------------------------------------------------
(* What a step of a job does to the others.                                *)

\* Artifacts come and are deleted, and nothing else happens to them.
Grows ==
  /\ store' \in Seq(Artifact)
  /\ Len(store) <= Len(store')
  /\ \A i \in Id : /\ store'[i].run = store[i].run
                   /\ store'[i].name = store[i].name
                   /\ store'[i].files = store[i].files
                   /\ store'[i].live => store[i].live

\* One that is deleted is not what the job's call returned.
Deletes(j) ==
  \A i \in Id : store[i].live /\ ~store'[i].live =>
    /\ Overwrites(j) /\ store[i].name \in Selects[ArtifactName(j)]
    /\ client'[j].id = 0

\* A job that has ended makes no step, and adds an artifact only as it ends.
Moves(j) ==
  /\ client[j].at \notin Ended
  /\ client' = [client EXCEPT ![j] = client'[j]]
  /\ client'[j] \in ClientState
  /\ client'[j].call = client[j].call
  /\ client'[j].id \in {client[j].id, Len(store) + 1}
  /\ Len(store') = Len(store) \/ (Len(store') = Len(store) + 1 /\ client'[j].at \in Ended)
  /\ \A i \in Id' \ Id : store'[i].live
  /\ passed' = passed
  /\ faults' \in 0..MaxFaults

LEMMA StoreStays ==
  ASSUME UNCHANGED store, store \in Seq(Artifact)
  PROVE  /\ Grows /\ Len(store') = Len(store)
         /\ Id' = Id /\ \A i \in Id' \ Id : store'[i].live
         /\ \A j : Deletes(j)
BY DEF Grows, Deletes, Id

LEMMA OneDeleted ==
  ASSUME store \in Seq(Artifact), NEW id \in Id, store' = [store EXCEPT ![id].live = FALSE]
  PROVE  /\ Grows /\ Len(store') = Len(store) /\ Id' = Id
         /\ ~store'[id].live
         /\ \A i \in Id \ {id} : store'[i] = store[i]
<1>1. Len(store) \in Nat /\ Id = 1..Len(store) /\ \A i \in Id : store[i] \in Artifact
  BY DEF Id
<1>2. \A i \in Id : store'[i] = IF i = id THEN [store[id] EXCEPT !.live = FALSE] ELSE store[i]
  BY <1>1
<1>3. [store[id] EXCEPT !.live = FALSE] \in Artifact
  <2> DEFINE a == store[id]
  <2>1. a \in Artifact
    BY <1>1
  <2> HIDE DEF a
  <2>2. [a EXCEPT !.live = FALSE] \in Artifact
    BY <2>1 DEF Artifact
  <2> QED BY <2>2 DEF a
<1>4. store' \in Seq(Artifact) /\ Len(store') = Len(store)
  <2>1. store \in [1..Len(store) -> Artifact]
    OBVIOUS
  <2>2. store' \in [1..Len(store) -> Artifact]
    BY <1>1, <1>3, <2>1
  <2> QED BY <1>1, <2>2
<1>5. /\ store'[id].run = store[id].run /\ store'[id].name = store[id].name
      /\ store'[id].files = store[id].files /\ ~store'[id].live
  BY <1>1, <1>2 DEF Artifact
<1> QED BY <1>1, <1>2, <1>4, <1>5 DEF Grows, Id

LEMMA OneAdded ==
  ASSUME store \in Seq(Artifact), NEW a \in Artifact, a.live, store' = Append(store, a)
  PROVE  /\ Grows /\ Len(store') = Len(store) + 1
         /\ \A i \in Id' \ Id : store'[i].live
         /\ \A j : Deletes(j)
<1>1. Len(store) \in Nat /\ Id = 1..Len(store) /\ Id' = 1..Len(store) + 1
  BY DEF Id
<1>2. \A i \in Id : store'[i] = store[i]
  BY <1>1
<1>3. store'[Len(store) + 1] = a /\ store' \in Seq(Artifact) /\ Len(store') = Len(store) + 1
  OBVIOUS
<1>4. \A i \in Id' \ Id : i = Len(store) + 1
  BY <1>1
<1> QED BY <1>1, <1>2, <1>3, <1>4 DEF Grows, Deletes

\* A job that makes no step is not affected by what becomes of the store.
LEMMA OthersSound ==
  ASSUME NEW j \in Job, Sound(j), Grows, store \in Seq(Artifact), client'[j] = client[j]
  PROVE  Sound(j)'
<1> DEFINE c == client[j]
<1>1. Id \subseteq Id' /\ Id = 1..Len(store) /\ Len(store) \in Nat
  BY DEF Grows, Id
<1>2. \A k \in DOMAIN c.found : c.found[k] \in Id /\ store'[c.found[k]].name = store[c.found[k]].name
                                /\ store'[c.found[k]].files = store[c.found[k]].files
                                /\ (store'[c.found[k]].live => store[c.found[k]].live)
  BY DEF Sound, Shaped, Grows
<1>3. c \in ClientState /\ c.found \in Seq(Nat) /\ c.next \in Nat
  BY DEF Sound, Shaped, ClientState
<1>4. Shaped(j)'
  BY <1>1, <1>2 DEF Sound, Shaped
<1>5. Placed(j)'
  BY DEF Sound, Placed
<1>6. Replaces(j)'
  <2>1. \A i \in c.seen : i \in Id /\ (store'[i].live => store[i].live)
    BY DEF Sound, Shaped, Grows
  <2> QED BY <1>2, <2>1 DEF Sound, Replaces, ArtifactName
<1>7. Unpacks(j)'
  <2>1. \A k \in DOMAIN c.found : \A f : Carries(j, k, f)' <=> Carries(j, k, f)
    BY <1>2 DEF Carries
  <2>2. ASSUME NEW n \in 0..Len(c.found), NEW f, Brought(j, n, f) PROVE Brought(j, n, f)'
    <3>1. \A k \in 1..n : k \in DOMAIN c.found /\ \A m \in k + 1..n : m \in DOMAIN c.found
      BY <1>3
    <3>2. \A k \in 1..n : /\ Carries(j, k, f)' <=> Carries(j, k, f)
                           /\ \A m \in k + 1..n : Carries(j, m, f)' <=> Carries(j, m, f)
      BY <2>1, <3>1
    <3> HIDE DEF c
    <3> QED BY <3>2, <2>2 DEF Brought
  <2>3. c.at \in {"fetch", "extract"} => c.next - 1 \in 0..Len(c.found) /\ c.next \in 0..Len(c.found)
    BY <1>3 DEF Sound, Shaped
  <2>4. Len(c.found) \in 0..Len(c.found)
    BY <1>3
  <2> QED BY <2>2, <2>3, <2>4 DEF Sound, Unpacks
<1> QED BY <1>4, <1>5, <1>6, <1>7 DEF Sound
-----------------------------------------------------------------------------
(* The steps of a job.                                                     *)

LEMMA FaultsCounted ==
  ASSUME IInv, Works \/ Fault
  PROVE  faults' \in 0..MaxFaults
BY ArtifactsAssumption DEF IInv, Stored, Works, Fault

\* A step of j that leaves the store alone.
LEMMA OnlyMoves ==
  ASSUME IInv, NEW j \in Job, NEW state \in ClientState, Becomes(j, state), Works \/ Fault,
         UNCHANGED <<store, passed>>, client[j].at \notin Ended,
         state.call = client[j].call, state.id = client[j].id
  PROVE  client'[j] = state /\ Moves(j) /\ Grows /\ Deletes(j)
<1>1. client'[j] = state /\ client' = [client EXCEPT ![j] = client'[j]]
  BY DEF IInv, Becomes
<1>2. Grows /\ Len(store') = Len(store) /\ Deletes(j) /\ \A i \in Id' \ Id : store'[i].live
  BY StoreStays DEF IInv, Stored
<1> QED BY <1>1, <1>2, FaultsCounted DEF Moves

\* The typed state of a job.
LEMMA StateOf ==
  ASSUME IInv, NEW j \in Job
  PROVE  /\ client[j] \in ClientState /\ Sound(j)
         /\ store \in Seq(Artifact) /\ client[j].call \in UploadCall \cup DownloadCall
BY ArtifactsAssumption DEF IInv, Stored, ClientState

LEMMA NewClientStep ==
  ASSUME IInv, NEW j \in Job, NewClient(j)
  PROVE  Moves(j) /\ Grows /\ Deletes(j) /\ Sound(j)'
<1> DEFINE c == client[j]
<1>1. c \in ClientState /\ Sound(j)
  BY StateOf
<1> SUFFICES ASSUME NEW at \in {"start", "panicked"}, Becomes(j, [c EXCEPT !.at = at]), Works \/ Fault
             PROVE  Moves(j) /\ Grows /\ Deletes(j) /\ Sound(j)'
  BY DEF NewClient, Goes, Panics
<1> DEFINE s == [c EXCEPT !.at = at]
<1>2. s \in ClientState
  BY <1>1 DEF ClientState, Place
<1>3. UNCHANGED <<store, passed>> /\ c.at = "new"
  BY DEF NewClient
<1>4. s.call = c.call /\ s.id = c.id /\ c.at \notin Ended
  BY <1>1, <1>3 DEF ClientState, Ended
<1>5. client'[j] = s /\ Moves(j) /\ Grows /\ Deletes(j)
  <2>1. Becomes(j, s)
    OBVIOUS
  <2> HIDE DEF s
  <2> QED BY <1>2, <1>3, <1>4, <2>1, OnlyMoves
<1>6. Shaped(j)'
  BY <1>1, <1>2, <1>3, <1>5 DEF Sound, Shaped, ClientState, Id
<1>7. Placed(j)'
  BY <1>1, <1>3, <1>5 DEF Sound, Placed, ClientState
<1>8. Replaces(j)' /\ Unpacks(j)'
  BY <1>1, <1>3, <1>5 DEF Replaces, Unpacks, ClientState
<1> QED BY <1>5, <1>6, <1>7, <1>8 DEF Sound

\* A job that fails keeps what it had found.
LEMMA FailureSound ==
  ASSUME IInv, NEW j \in Job, Grows, client[j].at # "ok", client'[j] \in ClientState,
         client'[j].at \in {"error", "panicked"}, client'[j].call = client[j].call,
         client'[j].id = client[j].id, client'[j].found = client[j].found, client'[j].seen = client[j].seen
  PROVE  Sound(j)'
<1>1. Sound(j)
  BY StateOf
<1>2. Id \subseteq Id'
  BY DEF Grows, Id, IInv, Stored
<1>3. Shaped(j)'
  BY <1>1, <1>2 DEF Sound, Shaped
<1>4. Placed(j)'
  BY <1>1 DEF Sound, Placed
<1>5. Replaces(j)' /\ Unpacks(j)'
  BY DEF Replaces, Unpacks
<1> QED BY <1>3, <1>4, <1>5 DEF Sound

\* ... and all of its disjuncts that only fail are alike.
LEMMA Failing ==
  ASSUME IInv, NEW j \in Job, NEW at \in {"error", "panicked"}, Goes(j, at), Works \/ Fault,
         UNCHANGED <<store, passed>>, client[j].at \notin Ended
  PROVE  Moves(j) /\ Grows /\ Deletes(j) /\ Sound(j)'
<1> DEFINE s == [client[j] EXCEPT !.at = at]
<1>1. s \in ClientState /\ s.call = client[j].call /\ s.id = client[j].id /\ s.found = client[j].found
      /\ s.seen = client[j].seen /\ s.at = at
  BY StateOf DEF ClientState, Place
<1>2. Becomes(j, s)
  BY DEF Goes
<1> HIDE DEF s
<1>3. client'[j] = s /\ Moves(j) /\ Grows /\ Deletes(j)
  BY <1>1, <1>2, OnlyMoves
<1>4. client[j].at # "ok"
  BY DEF Ended
<1> QED BY <1>1, <1>3, <1>4, FailureSound

LEMMA EnsureInstalledStep ==
  ASSUME IInv, NEW j \in Job, EnsureInstalled(j)
  PROVE  Moves(j) /\ Grows /\ Deletes(j) /\ Sound(j)'
<1> DEFINE c == client[j]
           at == IF c.call.overwrite THEN "list" ELSE "upload"
           s == [c EXCEPT !.at = at]
<1>1. c \in ClientState /\ Sound(j)
  BY StateOf
<1>2. c.at = "start" /\ c.call.op = "upload" /\ UNCHANGED <<store, passed>> /\ c.at \notin Ended
  BY DEF EnsureInstalled, Ended
<1>3. CASE Fault /\ Panics(j)
  BY <1>2, <1>3, Failing DEF Panics
<1>4. CASE Works /\ Goes(j, at)
  <2>1. s \in ClientState /\ s.call = c.call /\ s.id = c.id
    BY <1>1 DEF ClientState, Place
  <2>2. Becomes(j, s)
    BY <1>4 DEF Goes
  <2>3. client'[j] = s /\ Moves(j) /\ Grows /\ Deletes(j)
    <3> HIDE DEF s
    <3> QED BY <1>2, <1>4, <2>1, <2>2, OnlyMoves
  <2>4. Shaped(j)'
    BY <1>1, <1>2, <2>1, <2>3 DEF Sound, Shaped, ClientState, Id
  <2>5. Placed(j)'
    BY <1>1, <1>2, <2>3 DEF Sound, Placed, ClientState
  <2>6. Replaces(j)'
    BY <1>1, <1>2, <2>3 DEF Sound, Placed, Replaces, ClientState
  <2>7. Unpacks(j)'
    BY <1>1, <1>2, <2>3 DEF Unpacks, ClientState
  <2> QED BY <2>3, <2>4, <2>5, <2>6, <2>7 DEF Sound
<1> QED BY <1>3, <1>4 DEF EnsureInstalled

\* Whatever was listed to be overwritten.
LEMMA ListedSound ==
  ASSUME IInv, NEW j \in Job, NEW found \in Seq(Id), NEW excused \in BOOLEAN, NEW seen \in SUBSET Id,
         client[j].at = "list", client[j].call.op = "upload", Works \/ Fault, UNCHANGED <<store, passed>>,
         \A i \in Elements(found) : store[i].name \in Selects[ArtifactName(j)],
         ~excused => seen \subseteq Elements(found),
         Becomes(j, [client[j] EXCEPT !.found = found, !.at = IF found = <<>> THEN "upload" ELSE "delete",
                                      !.seen = seen, !.excused = excused])
  PROVE  Moves(j) /\ Grows /\ Deletes(j) /\ Sound(j)'
<1> DEFINE c == client[j]
           at == IF found = <<>> THEN "upload" ELSE "delete"
           s == [c EXCEPT !.found = found, !.at = at, !.seen = seen, !.excused = excused]
<1>1. c \in ClientState /\ Sound(j) /\ c.at \notin Ended
  BY StateOf DEF Ended
<1>2. Id \subseteq Nat /\ found \in Seq(Nat) /\ seen \subseteq Nat
  BY StateOf DEF Id
<1>3. s \in ClientState /\ s.call = c.call /\ s.id = c.id /\ s.found = found /\ s.at = at /\ s.seen = seen
      /\ s.excused = excused /\ s.next = c.next
  BY <1>1, <1>2 DEF ClientState, Place
<1>4. client'[j] = s /\ Moves(j) /\ Grows /\ Deletes(j)
  <2>1. Becomes(j, s)
    OBVIOUS
  <2> HIDE DEF s
  <2> QED BY <1>1, <1>3, <2>1, OnlyMoves
<1> HIDE DEF s
<1>5. c.next = 1 /\ c.id = 0 /\ c.call.overwrite /\ Id' = Id
  BY <1>1 DEF Sound, Placed, Id
<1>6. at = "delete" => 1 \in DOMAIN found
  OBVIOUS
<1>7. Shaped(j)'
  <2>1. \A k \in DOMAIN found : found[k] \in Id
    OBVIOUS
  <2> QED BY <1>3, <1>4, <1>5, <1>6, <2>1 DEF Shaped
<1>8. Placed(j)'
  BY <1>3, <1>4, <1>5 DEF Placed
<1>9. Replaces(j)'
  <2>1. ArtifactName(j)' = ArtifactName(j)
    BY <1>3, <1>4 DEF ArtifactName
  <2>2. \A k \in DOMAIN found : found[k] \in Elements(found)
    BY DEF Elements
  <2>3. \A k \in DOMAIN found : ~(k < 1)
    OBVIOUS
  <2>4. at = "upload" /\ ~excused => seen = {}
    BY DEF Elements
  <2> QED BY <1>3, <1>4, <1>5, <2>1, <2>2, <2>3, <2>4 DEF Replaces
<1>10. Unpacks(j)'
  BY <1>3, <1>4 DEF Unpacks
<1> QED BY <1>4, <1>7, <1>8, <1>9, <1>10 DEF Sound

LEMMA ListExistingStep ==
  ASSUME IInv, NEW j \in Job, ListExisting(j)
  PROVE  Moves(j) /\ Grows /\ Deletes(j) /\ Sound(j)'
<1> DEFINE c == client[j]
           seen == {i \in Live(This) : store[i].name \in Selects[ArtifactName(j)]}
           state(found, excused) ==
             [c EXCEPT !.found = found, !.at = IF found = <<>> THEN "upload" ELSE "delete",
                       !.seen = seen, !.excused = excused]
<1>1. c.at = "list" /\ c.call.op = "upload" /\ UNCHANGED <<store, passed>> /\ c.at \notin Ended
  BY DEF ListExisting, Ended
<1>2. IsFiniteSet(Live(This)) /\ seen \in SUBSET Id
  BY LiveFinite, StateOf
<1>3. CASE (Works \/ Fault) /\ Panics(j)
  BY <1>1, <1>3, Failing DEF Panics
<1>4. CASE (Works \/ Fault) /\ Becomes(j, state(<<>>, TRUE))
  <2>1. <<>> \in Seq(Id) /\ \A i \in Elements(<<>>) : FALSE
    BY DEF Elements
  <2> HIDE DEF seen
  <2> QED BY <1>1, <1>2, <1>4, <2>1, ListedSound
<1>5. ASSUME NEW l \in Listings(Live(This)), Works,
             Becomes(j, state(Matching(l, ArtifactName(j)), Len(l) < Cardinality(Live(This))))
      PROVE  Moves(j) /\ Grows /\ Deletes(j) /\ Sound(j)'
  <2> DEFINE found == Matching(l, ArtifactName(j))
             excused == Len(l) < Cardinality(Live(This))
  <2>1. l \in Seq(Id) /\ (~excused => Elements(l) = Live(This))
    BY <1>2, LiveFinite, StateOf, ListingsAre
  <2>2. found \in Seq(Id) /\ Elements(found) = {i \in Elements(l) : store[i].name \in Selects[ArtifactName(j)]}
    BY <2>1, MatchingKeeps
  <2>3. excused \in BOOLEAN /\ (~excused => seen \subseteq Elements(found))
    BY <2>1, <2>2
  <2>4. Becomes(j, state(found, excused))
    BY <1>5
  <2> HIDE DEF found, excused, seen
  <2> QED BY <1>1, <1>2, <1>5, <2>2, <2>3, <2>4, ListedSound
<1>6. \/ (Works \/ Fault) /\ Panics(j)
      \/ (Works \/ Fault) /\ Becomes(j, state(<<>>, TRUE))
      \/ \E l \in Listings(Live(This)) :
           Works /\ Becomes(j, state(Matching(l, ArtifactName(j)), Len(l) < Cardinality(Live(This))))
  BY DEF ListExisting
<1> QED BY <1>3, <1>4, <1>5, <1>6

(***************************************************************************)
(* Deletion: of what was seen, nothing before `next' is left.              *)
(***************************************************************************)
LEMMA DeleteExistingStep ==
  ASSUME IInv, NEW j \in Job, DeleteExisting(j)
  PROVE  Moves(j) /\ Grows /\ Deletes(j) /\ Sound(j)'
<1> DEFINE c == client[j]
           id == c.found[c.next]
           rest == IF c.next < Len(c.found) THEN [c EXCEPT !.next = @ + 1] ELSE [c EXCEPT !.at = "upload"]
<1>1. c \in ClientState /\ Sound(j) /\ store \in Seq(Artifact) /\ c.call \in UploadCall \cup DownloadCall
  BY StateOf
<1>2. c.at = "delete" /\ c.at \notin Ended /\ passed' = passed
  BY DEF DeleteExisting, Ended
<1>3. c.call.op = "upload" /\ c.call.overwrite /\ c.id = 0 /\ c.next \in DOMAIN c.found /\ id \in Id
      /\ c.found \in Seq(Nat)
  BY <1>1, <1>2 DEF Sound, Shaped, Placed, ClientState
<1>4. store[id].name \in Selects[ArtifactName(j)]
  BY <1>1, <1>2, <1>3 DEF Sound, Replaces
<1>5. client' = [client EXCEPT ![j] = client'[j]]
  BY DEF DeleteExisting, Becomes, Panics, Goes, IInv
<1>6. CASE store' = [store EXCEPT ![id].live = FALSE] \/ UNCHANGED store
  <2>1. Grows /\ Len(store') = Len(store) /\ Id' = Id
    BY <1>1, <1>3, <1>6, OneDeleted, StoreStays
  <2>2. \A i \in Id : store[i].live /\ ~store'[i].live => i = id
    BY <1>1, <1>3, <1>6, OneDeleted
  <2>3. Overwrites(j)
    BY <1>3 DEF Overwrites
  <2>4. ASSUME client'[j].id = 0 PROVE Deletes(j)
    BY <1>4, <2>2, <2>3, <2>4 DEF Deletes
  <2>5. ASSUME NEW s \in ClientState, client'[j] = s, s.call = c.call, s.id = 0
        PROVE  Moves(j) /\ Grows /\ Deletes(j)
    BY <1>2, <1>3, <1>5, <2>1, <2>4, <2>5, FaultsCounted DEF Moves, DeleteExisting
  <2>6. CASE Panics(j)
    <3> DEFINE s == [c EXCEPT !.at = "panicked"]
    <3>1. s \in ClientState /\ s.call = c.call /\ s.id = c.id /\ s.found = c.found /\ s.seen = c.seen
          /\ s.at = "panicked"
      BY <1>1 DEF ClientState, Place
    <3>2. client'[j] = s
      BY <2>6 DEF Panics, Goes, Becomes, IInv
    <3> HIDE DEF s
    <3> QED BY <1>2, <1>3, <2>1, <2>5, <3>1, <3>2, FailureSound
  <2>7. ASSUME NEW excused \in BOOLEAN, client'[j] = [rest EXCEPT !.excused = excused],
               ~excused => ~c.excused /\ store' = [store EXCEPT ![id].live = FALSE]
        PROVE  Moves(j) /\ Grows /\ Deletes(j) /\ Sound(j)'
    <3> DEFINE s == [rest EXCEPT !.excused = excused]
    <3>1. /\ s \in ClientState /\ s.call = c.call /\ s.id = 0 /\ s.found = c.found /\ s.seen = c.seen
          /\ s.excused = excused
          /\ \/ s.at = "delete" /\ s.next = c.next + 1 /\ c.next < Len(c.found)
             \/ s.at = "upload" /\ s.next = c.next /\ c.next = Len(c.found)
      <4>1. CASE c.next < Len(c.found)
        <5>1. rest = [c EXCEPT !.next = c.next + 1] /\ c.next + 1 \in Nat
          BY <1>1, <4>1 DEF ClientState
        <5>2. s = [[c EXCEPT !.next = c.next + 1] EXCEPT !.excused = excused]
          BY <5>1
        <5> HIDE DEF s, rest
        <5> QED BY <1>1, <1>2, <1>3, <4>1, <5>1, <5>2 DEF ClientState, Place
      <4>2. CASE ~(c.next < Len(c.found))
        <5>1. c.next = Len(c.found)
          BY <1>3, <4>2
        <5>2. s = [[c EXCEPT !.at = "upload"] EXCEPT !.excused = excused]
          BY <4>2
        <5> HIDE DEF s, rest
        <5> QED BY <1>1, <1>2, <1>3, <5>1, <5>2 DEF ClientState, Place
      <4> QED BY <4>1, <4>2
    <3>2. client'[j] = s
      BY <2>7
    <3> HIDE DEF s, rest
    <3>3. Shaped(j)'
      <4>1. s.at = "delete" => s.next \in DOMAIN s.found
        BY <1>3, <3>1
      <4> QED BY <1>1, <2>1, <3>1, <3>2, <4>1 DEF Sound, Shaped
    <3>4. Placed(j)'
      BY <1>1, <1>3, <3>1, <3>2 DEF Sound, Placed
    <3>5. Replaces(j)'
      <4>1. ArtifactName(j)' = ArtifactName(j)
        BY <3>1, <3>2 DEF ArtifactName
      <4>2. \A k \in DOMAIN c.found : /\ store'[c.found[k]].name \in Selects[ArtifactName(j)]
                                      /\ store'[c.found[k]].live => store[c.found[k]].live
        BY <1>1, <1>2, <2>1 DEF Sound, Shaped, Replaces, Grows
      <4>3. ASSUME ~excused
            PROVE  /\ c.seen \subseteq Elements(c.found)
                   /\ \A k \in DOMAIN c.found : k < c.next + 1 => ~store'[c.found[k]].live
        <5>1. ~c.excused /\ ~store'[id].live
          BY <1>1, <1>3, <2>7, <4>3, OneDeleted
        <5>2. /\ c.seen \subseteq Elements(c.found)
              /\ \A k \in DOMAIN c.found : k < c.next => ~store[c.found[k]].live
          BY <1>1, <1>2, <5>1 DEF Sound, Replaces
        <5>3. \A k \in DOMAIN c.found : k < c.next + 1 => k < c.next \/ k = c.next
          BY <1>3
        <5> QED BY <4>2, <5>1, <5>2, <5>3
      <4>4. ASSUME ~excused, s.at = "upload" PROVE \A i \in c.seen : ~store'[i].live
        <5>1. \A k \in DOMAIN c.found : k < c.next + 1
          BY <1>3, <3>1, <4>4
        <5> QED BY <4>3, <4>4, <5>1 DEF Elements
      <4> QED BY <3>1, <3>2, <4>1, <4>2, <4>3, <4>4 DEF Replaces
    <3>6. Unpacks(j)'
      BY <3>1, <3>2 DEF Unpacks
    <3> QED BY <2>5, <3>1, <3>2, <3>3, <3>4, <3>5, <3>6 DEF Sound
  <2>8. \/ store' = [store EXCEPT ![id].live = FALSE] /\ client'[j] = rest
        \/ client'[j] = [rest EXCEPT !.excused = TRUE]
        \/ Panics(j)
    BY DEF DeleteExisting, Becomes, IInv
  <2>9. rest = [rest EXCEPT !.excused = c.excused] /\ c.excused \in BOOLEAN
    BY <1>1 DEF ClientState
  <2> QED BY <2>6, <2>7, <2>8, <2>9
<1> QED BY <1>6 DEF DeleteExisting

LEMMA UploadStep ==
  ASSUME IInv, NEW j \in Job, Upload(j)
  PROVE  Moves(j) /\ Grows /\ Deletes(j) /\ Sound(j)'
<1> DEFINE c == client[j]
           files == listMatchingFiles(c.call)
           a == [run |-> This, name |-> ArtifactName(j), files |-> files, live |-> TRUE]
           ok == [c EXCEPT !.at = "ok", !.id = Len(store) + 1]
<1>1. c \in ClientState /\ Sound(j) /\ store \in Seq(Artifact) /\ c.call \in UploadCall \cup DownloadCall
  BY StateOf
<1>2. c.at = "upload" /\ c.at \notin Ended /\ passed' = passed
  BY DEF Upload, Ended
<1>3. c.call \in UploadCall /\ c.call.op = "upload" /\ c.id = 0
  BY <1>1, <1>2 DEF Sound, Placed, UploadCall, DownloadCall
<1>4. a \in Artifact
  <2>1. files \subseteq File
    BY <1>3 DEF listMatchingFiles, UploadCall
  <2>2. ArtifactName(j) \in Name
    BY <1>3, ArtifactsAssumption DEF ArtifactName, UploadCall
  <2> QED BY <2>1, <2>2, ArtifactsAssumption DEF Artifact
<1>5. CASE UNCHANGED store
  <2>1. ASSUME NEW at \in {"error", "panicked"}, Goes(j, at)
        PROVE  Moves(j) /\ Grows /\ Deletes(j) /\ Sound(j)'
    <3>1. Works \/ Fault
      BY DEF Upload
    <3> QED BY <1>2, <1>5, <2>1, <3>1, Failing
  <2>2. store # Append(store, a)
    BY <1>1
  <2>3. Goes(j, "error") \/ Goes(j, "panicked")
    BY <1>5, <2>2 DEF Upload, Panics
  <2> QED BY <2>1, <2>3
<1>6. CASE store' = Append(store, a)
  <2>1. Grows /\ Len(store') = Len(store) + 1 /\ Deletes(j) /\ \A i \in Id' \ Id : store'[i].live
    <3>1. a.live
      OBVIOUS
    <3> HIDE DEF a
    <3> QED BY <1>1, <1>4, <1>6, <3>1, OneAdded
  <2>2. ASSUME NEW s \in ClientState, Becomes(j, s), s.at \in Ended, s.call = c.call, s.id \in {c.id, Len(store) + 1}
        PROVE  client'[j] = s /\ Moves(j)
    <3>1. client'[j] = s /\ client' = [client EXCEPT ![j] = client'[j]]
      BY <2>2 DEF Becomes, IInv
    <3>2. Works \/ Fault
      BY DEF Upload
    <3> QED BY <1>2, <2>1, <2>2, <3>1, <3>2, FaultsCounted DEF Moves
  <2>3. ASSUME NEW at \in {"error", "panicked"}, Goes(j, at)
        PROVE  Moves(j) /\ Grows /\ Deletes(j) /\ Sound(j)'
    <3> DEFINE s == [c EXCEPT !.at = at]
    <3>1. s \in ClientState /\ s.call = c.call /\ s.id = c.id /\ s.found = c.found /\ s.seen = c.seen
          /\ s.at = at /\ s.at \in Ended
      BY <1>1 DEF ClientState, Place, Ended
    <3>2. Becomes(j, s)
      BY <2>3 DEF Goes
    <3> HIDE DEF s
    <3>3. client'[j] = s /\ Moves(j)
      BY <2>2, <3>1, <3>2
    <3> QED BY <1>2, <2>1, <3>1, <3>3, FailureSound
  <2>4. CASE Becomes(j, ok)
    <3>1. ok \in ClientState /\ ok.call = c.call /\ ok.id = Len(store) + 1 /\ ok.found = c.found
          /\ ok.seen = c.seen /\ ok.excused = c.excused /\ ok.at = "ok" /\ ok.at \in Ended
      <4>1. Len(store) + 1 \in Nat
        BY <1>1
      <4> QED BY <1>1, <4>1 DEF ClientState, Place, Ended
    <3> HIDE DEF ok
    <3>2. client'[j] = ok /\ Moves(j)
      BY <2>2, <2>4, <3>1
    <3>3. Id \subseteq Id' /\ \A i \in Id : store'[i].live => store[i].live
      BY <1>1, <2>1 DEF Grows, Id
    <3>4. Shaped(j)'
      BY <1>1, <3>1, <3>2, <3>3 DEF Sound, Shaped
    <3>5. Placed(j)'
      BY <1>3, <3>1, <3>2 DEF Placed
    <3>6. Replaces(j)'
      BY <1>1, <1>2, <1>3, <3>1, <3>2, <3>3 DEF Sound, Shaped, Replaces
    <3>7. Unpacks(j)'
      BY <1>3, <3>1, <3>2 DEF Unpacks
    <3> QED BY <2>1, <3>2, <3>4, <3>5, <3>6, <3>7 DEF Sound
  <2>5. store # Append(store, a) /\ Len(Append(store, a)) = Len(store) + 1
    BY <1>1
  <2>6. Goes(j, "error") \/ Goes(j, "panicked") \/ Becomes(j, ok)
    BY <1>6, <2>5 DEF Upload, Panics
  <2> QED BY <2>3, <2>4, <2>6
<1>7. UNCHANGED store \/ store' = Append(store, a)
  BY DEF Upload
<1> QED BY <1>5, <1>6, <1>7
-----------------------------------------------------------------------------
(* Downloads.                                                              *)

\* What a download has before it has listed anything.
LEMMA BeforeListing ==
  ASSUME IInv, NEW j \in Job, client[j].call.op = "download", client[j].at \in {"start", "find-run"},
         NEW s \in ClientState, Becomes(j, s), Works, UNCHANGED <<store, passed>>,
         s.at \in {"find-run", "list"}, s.call = client[j].call, s.id = client[j].id,
         s.found = client[j].found, s.seen = client[j].seen, s.next = client[j].next
  PROVE  Moves(j) /\ Grows /\ Deletes(j) /\ Sound(j)'
<1>1. Sound(j) /\ client[j].at \notin Ended
  BY StateOf DEF Ended
<1>2. client'[j] = s /\ Moves(j) /\ Grows /\ Deletes(j)
  BY <1>1, OnlyMoves
<1>3. Id' = Id
  BY DEF Id
<1>4. Shaped(j)'
  BY <1>1, <1>2, <1>3 DEF Sound, Shaped
<1>5. Placed(j)'
  BY <1>1, <1>2 DEF Sound, Placed
<1>6. Replaces(j)' /\ Unpacks(j)'
  BY <1>2 DEF Replaces, Unpacks
<1> QED BY <1>2, <1>4, <1>5, <1>6 DEF Sound

LEMMA StartDownloadStep ==
  ASSUME IInv, NEW j \in Job, StartDownload(j)
  PROVE  Moves(j) /\ Grows /\ Deletes(j) /\ Sound(j)'
<1> DEFINE c == client[j]
<1>1. c \in ClientState /\ c.call \in UploadCall \cup DownloadCall
  BY StateOf
<1>2. c.at = "start" /\ c.call.op = "download" /\ Works /\ UNCHANGED <<store, passed>>
  BY DEF StartDownload
<1>3. CASE c.call.run = None
  <2> DEFINE s == [c EXCEPT !.at = "find-run"]
  <2>1. s \in ClientState /\ s.at = "find-run" /\ s.call = c.call /\ s.id = c.id /\ s.found = c.found
        /\ s.seen = c.seen /\ s.next = c.next
    BY <1>1 DEF ClientState, Place
  <2>2. Becomes(j, s)
    BY <1>3 DEF StartDownload, Goes
  <2> HIDE DEF s
  <2> QED BY <1>2, <2>1, <2>2, BeforeListing
<1>4. CASE c.call.run # None
  <2> DEFINE s == [c EXCEPT !.at = "list", !.run = c.call.run]
  <2>1. c.call.run \in Run \cup {0}
    BY <1>1, <1>2, <1>4 DEF UploadCall, DownloadCall
  <2>2. s \in ClientState /\ s.at = "list" /\ s.call = c.call /\ s.id = c.id /\ s.found = c.found
        /\ s.seen = c.seen /\ s.next = c.next
    BY <1>1, <2>1 DEF ClientState, Place
  <2>3. Becomes(j, s)
    BY <1>4 DEF StartDownload
  <2> HIDE DEF s
  <2> QED BY <1>2, <2>2, <2>3, BeforeListing
<1> QED BY <1>3, <1>4

LEMMA LatestWorkflowRunStep ==
  ASSUME IInv, NEW j \in Job, LatestWorkflowRun(j)
  PROVE  Moves(j) /\ Grows /\ Deletes(j) /\ Sound(j)'
<1> DEFINE c == client[j]
<1>1. c \in ClientState /\ Sound(j)
  BY StateOf
<1>2. c.at = "find-run" /\ c.at \notin Ended /\ UNCHANGED <<store, passed>> /\ c.call.op = "download"
  BY <1>1 DEF LatestWorkflowRun, Ended, Sound, Placed
<1>3. ASSUME NEW r \in passed, Works, Becomes(j, [c EXCEPT !.at = "list", !.run = r])
      PROVE  Moves(j) /\ Grows /\ Deletes(j) /\ Sound(j)'
  <2> DEFINE s == [c EXCEPT !.at = "list", !.run = r]
  <2>1. r \in Run \cup {0}
    BY DEF IInv, Stored
  <2>2. s \in ClientState /\ s.at = "list" /\ s.call = c.call /\ s.id = c.id /\ s.found = c.found
        /\ s.seen = c.seen /\ s.next = c.next
    BY <1>1, <2>1 DEF ClientState, Place
  <2>3. Becomes(j, s)
    BY <1>3
  <2> HIDE DEF s
  <2> QED BY <1>2, <1>3, <2>2, <2>3, BeforeListing
<1>4. ASSUME NEW at \in {"error", "panicked"}, Goes(j, at), Works \/ Fault
      PROVE  Moves(j) /\ Grows /\ Deletes(j) /\ Sound(j)'
  BY <1>2, <1>4, Failing
<1> QED BY <1>3, <1>4 DEF LatestWorkflowRun, Panics

\* While a download is under way all that can go wrong is what it has unpacked.
LEMMA DownloadSound ==
  ASSUME IInv, NEW j \in Job, client[j].call.op = "download", client[j].at \notin Ended,
         NEW s \in ClientState, Becomes(j, s), Works, UNCHANGED <<store, passed>>,
         s.at \in {"fetch", "extract", "ok"}, s.call = client[j].call, s.id = client[j].id,
         s.seen = client[j].seen, s.found \in Seq(Id), s.at # "ok" => s.next \in DOMAIN s.found,
         s.at = "extract" => s.entries \subseteq store[s.found[s.next]].files,
         Unpacks(j)'
  PROVE  Moves(j) /\ Grows /\ Deletes(j) /\ Sound(j)'
<1>1. Sound(j) /\ client[j].at # "ok"
  BY StateOf DEF Ended
<1>2. client'[j] = s /\ Moves(j) /\ Grows /\ Deletes(j)
  BY OnlyMoves
<1>3. Id' = Id /\ \A k \in DOMAIN s.found : s.found[k] \in Id
  BY DEF Id
<1>4. Shaped(j)'
  BY <1>1, <1>2, <1>3 DEF Sound, Shaped
<1>5. Placed(j)'
  BY <1>1, <1>2 DEF Sound, Placed
<1>6. Replaces(j)'
  BY <1>2 DEF Replaces
<1> QED BY <1>2, <1>4, <1>5, <1>6 DEF Sound

\* Between two steps of a download what counts is where files went.
LEMMA BroughtStays ==
  ASSUME NEW j \in Job, UNCHANGED store, client'[j].found = client[j].found,
         NEW n \in Nat, NEW f, client'[j].disk[f] = client[j].disk[f],
         f \in client'[j].cut => f \in client[j].cut, Brought(j, n, f)
  PROVE  Brought(j, n, f)'
BY DEF Brought, Carries

LEMMA ListArtifactsStep ==
  ASSUME IInv, NEW j \in Job, ListArtifacts(j)
  PROVE  Moves(j) /\ Grows /\ Deletes(j) /\ Sound(j)'
<1> DEFINE c == client[j]
<1>1. c \in ClientState /\ Sound(j) /\ store \in Seq(Artifact)
  BY StateOf
<1>2. c.at = "list" /\ c.at \notin Ended /\ UNCHANGED <<store, passed>> /\ c.call.op = "download"
  BY DEF ListArtifacts, Ended
<1>3. ASSUME NEW l \in Listings(Live(c.run)), Works,
             Becomes(j, [c EXCEPT !.found = Matching(l, c.call.name),
                                  !.at = IF Matching(l, c.call.name) = <<>> THEN "ok" ELSE "fetch"])
      PROVE  Moves(j) /\ Grows /\ Deletes(j) /\ Sound(j)'
  <2> DEFINE found == Matching(l, c.call.name)
             at == IF found = <<>> THEN "ok" ELSE "fetch"
             s == [c EXCEPT !.found = found, !.at = at]
  <2>1. found \in Seq(Id)
    <3>1. l \in Seq(Id)
      BY <1>1, LiveFinite, ListingsAre
    <3> QED BY <3>1, MatchingKeeps
  <2>2. found \in Seq(Nat) /\ (found # <<>> => 1 \in DOMAIN found) /\ (found = <<>> => Len(found) = 0)
    <3>1. Id \subseteq Nat
      BY <1>1 DEF Id
    <3> HIDE DEF found
    <3>2. Len(found) \in Nat /\ found \in [1..Len(found) -> Id]
      BY <2>1
    <3>4. found \in [1..Len(found) -> Nat]
      BY <3>1, <3>2
    <3>5. found \in Seq(Nat)
      BY <3>2, <3>4
    <3>3. found # <<>> => 1 \in DOMAIN found
      BY <2>1
    <3> QED BY <3>3, <3>5
  <2>3. Becomes(j, s)
    BY <1>3
  <2> HIDE DEF found
  <2>4. s \in ClientState /\ s.at = at /\ s.call = c.call /\ s.id = c.id /\ s.found = found
        /\ s.seen = c.seen /\ s.next = c.next
    BY <1>1, <2>2 DEF ClientState, Place
  <2>5. c.next = 1
    BY <1>1, <1>2 DEF Sound, Placed
  <2>6. client'[j] = s
    BY <2>3 DEF Becomes, IInv
  <2> HIDE DEF s
  <2>7. \A f : Brought(j, 0, f)'
    BY DEF Brought
  <2>8. Unpacks(j)'
    <3>1. at = "ok" => Len(found) = 0
      BY <2>2
    <3>2. c.next - 1 = 0 /\ at \in {"ok", "fetch"}
      BY <2>5
    <3> QED BY <2>4, <2>6, <2>7, <3>1, <3>2 DEF Unpacks
  <2> QED BY <1>2, <1>3, <2>1, <2>2, <2>3, <2>4, <2>5, <2>8, DownloadSound
<1>4. ASSUME NEW at \in {"error", "panicked"}, Goes(j, at), Works \/ Fault
      PROVE  Moves(j) /\ Grows /\ Deletes(j) /\ Sound(j)'
  BY <1>2, <1>4, Failing
<1> QED BY <1>3, <1>4 DEF ListArtifacts, Panics

LEMMA FetchStep ==
  ASSUME IInv, NEW j \in Job, Fetch(j)
  PROVE  Moves(j) /\ Grows /\ Deletes(j) /\ Sound(j)'
<1> DEFINE c == client[j]
           id == c.found[c.next]
           temps == c.temps \cup {id}
<1>1. c \in ClientState /\ Sound(j) /\ store \in Seq(Artifact)
  BY StateOf
<1>2. c.at = "fetch" /\ c.at \notin Ended /\ UNCHANGED <<store, passed>> /\ c.call.op = "download"
  BY <1>1 DEF Fetch, Ended, Sound, Placed
<1>3. c.next \in DOMAIN c.found /\ id \in Id /\ c.found \in Seq(Id) /\ Id \subseteq Nat
  <2>1. c.next \in DOMAIN c.found /\ c.found \in Seq(Nat) /\ \A k \in DOMAIN c.found : c.found[k] \in Id
    BY <1>1, <1>2 DEF Sound, Shaped, ClientState
  <2>2. Id \subseteq Nat
    BY <1>1 DEF Id
  <2> QED BY <2>1, <2>2
<1>4. store[id].files \subseteq File
  <2>1. store[id] \in Artifact
    BY <1>1, <1>3 DEF Id
  <2> QED BY <2>1 DEF Artifact
<1>5. ASSUME NEW at \in {"error", "panicked"}, Works \/ Fault,
             Becomes(j, [c EXCEPT !.temps = temps, !.at = at])
      PROVE  Moves(j) /\ Grows /\ Deletes(j) /\ Sound(j)'
  <2> DEFINE s == [c EXCEPT !.temps = temps, !.at = at]
  <2>1. s \in ClientState /\ s.at = at /\ s.call = c.call /\ s.id = c.id /\ s.found = c.found /\ s.seen = c.seen
    BY <1>1, <1>3 DEF ClientState, Place
  <2>2. Becomes(j, s)
    BY <1>5
  <2> HIDE DEF s
  <2>3. client'[j] = s /\ Moves(j) /\ Grows /\ Deletes(j)
    BY <1>2, <1>5, <2>1, <2>2, OnlyMoves
  <2> QED BY <1>2, <2>1, <2>3, FailureSound
<1>6. CASE Works /\ Becomes(j, [c EXCEPT !.temps = temps, !.at = "extract", !.entries = store[id].files])
  <2> DEFINE s == [c EXCEPT !.temps = temps, !.at = "extract", !.entries = store[id].files]
  <2>1. s \in ClientState /\ s.at = "extract" /\ s.call = c.call /\ s.id = c.id /\ s.found = c.found
        /\ s.seen = c.seen /\ s.next = c.next /\ s.entries = store[id].files /\ s.disk = c.disk /\ s.cut = c.cut
    BY <1>1, <1>3, <1>4 DEF ClientState, Place
  <2>2. Becomes(j, s)
    BY <1>6
  <2> HIDE DEF s
  <2>3. client'[j] = s
    BY <2>2 DEF Becomes, IInv
  <2>4. ASSUME NEW f \in File \ s.entries PROVE Brought(j, c.next, f)'
    <3>1. Brought(j, c.next - 1, f)
      BY <1>1, <1>2 DEF Sound, Unpacks
    <3>2. ~Carries(j, c.next, f)
      BY <2>1, <2>4 DEF Carries
    <3>3. \A k \in 1..c.next : Carries(j, k, f) => k \in 1..c.next - 1
                               /\ \A m \in k + 1..c.next - 1 : m \in k + 1..c.next
      BY <1>3, <3>2
    <3>4. Brought(j, c.next, f)
      BY <3>1, <3>3 DEF Brought
    <3>5. c.next \in Nat
      BY <1>3
    <3> QED BY <1>2, <2>1, <2>3, <3>4, <3>5, BroughtStays
  <2>5. Unpacks(j)'
    BY <2>1, <2>3, <2>4 DEF Unpacks
  <2> QED BY <1>2, <1>3, <1>6, <2>1, <2>2, <2>5, DownloadSound
<1>7. CASE Works /\ Panics(j)
  BY <1>2, <1>7, Failing DEF Panics
<1> QED BY <1>5, <1>6, <1>7 DEF Fetch

LEMMA ExtractEntryStep ==
  ASSUME IInv, NEW j \in Job, ExtractEntry(j)
  PROVE  Moves(j) /\ Grows /\ Deletes(j) /\ Sound(j)'
<1> DEFINE c == client[j]
           id == c.found[c.next]
<1>1. c \in ClientState /\ Sound(j) /\ store \in Seq(Artifact)
  BY StateOf
<1>2. c.at = "extract" /\ c.at \notin Ended /\ UNCHANGED <<store, passed>> /\ c.call.op = "download"
  BY <1>1 DEF ExtractEntry, Ended, Sound, Placed
<1>3. c.next \in DOMAIN c.found /\ id \in Id /\ c.found \in Seq(Id) /\ Id \subseteq Nat
  <2>1. c.next \in DOMAIN c.found /\ c.found \in Seq(Nat) /\ \A k \in DOMAIN c.found : c.found[k] \in Id
    BY <1>1, <1>2 DEF Sound, Shaped, ClientState
  <2>2. Id \subseteq Nat
    BY <1>1 DEF Id
  <2> QED BY <2>1, <2>2
<1>4. c.entries \subseteq store[id].files /\ c.entries \subseteq File
  BY <1>1, <1>2 DEF Sound, Shaped, ClientState
<1>5. PICK f \in c.entries : ExtractEntry(j)!2!(f)
  BY DEF ExtractEntry
<1> DEFINE rest == [c EXCEPT !.entries = c.entries \ {f}]
           cut == IF Kind[f] = "huge" THEN c.cut \cup {f} ELSE c.cut \ {f}
           disk == [c.disk EXCEPT ![f] = id]
<1>6. f \in File /\ f \in store[id].files
  BY <1>4
<1>7. \A g \in File \ c.entries : Brought(j, c.next, g)
  BY <1>1, <1>2 DEF Sound, Unpacks
<1>8. CASE Kind[f] \in {"directory", "outside"} /\ Works /\ Becomes(j, rest)
  <2>1. rest \in ClientState /\ rest.at = "extract" /\ rest.call = c.call /\ rest.id = c.id
        /\ rest.found = c.found /\ rest.seen = c.seen /\ rest.next = c.next /\ rest.entries = c.entries \ {f}
        /\ rest.disk = c.disk /\ rest.cut = c.cut
    BY <1>1, <1>2 DEF ClientState
  <2> HIDE DEF rest
  <2>2. client'[j] = rest
    BY <1>8 DEF Becomes, IInv
  <2>3. ASSUME NEW g \in File \ rest.entries PROVE Brought(j, c.next, g)'
    <3>1. Brought(j, c.next, g)
      BY <1>7, <1>8, <2>1, <2>3 DEF Brought
    <3>2. c.next \in Nat
      BY <1>3
    <3> QED BY <1>2, <2>1, <2>2, <3>1, <3>2, BroughtStays
  <2>4. Unpacks(j)'
    BY <2>1, <2>2, <2>3 DEF Unpacks
  <2> QED BY <1>2, <1>3, <1>4, <1>8, <2>1, <2>4, DownloadSound
<1>9. CASE Works /\ Goes(j, "error")
  BY <1>2, <1>9, Failing
<1>10. CASE Works
            /\ Becomes(j, [rest EXCEPT !.disk[f] = id, !.cut = IF Kind[f] = "huge" THEN @ \cup {f} ELSE @ \ {f}])
  <2> DEFINE s == [c EXCEPT !.entries = c.entries \ {f}, !.disk = disk, !.cut = cut]
  <2>1. s = [rest EXCEPT !.disk[f] = id, !.cut = IF Kind[f] = "huge" THEN @ \cup {f} ELSE @ \ {f}]
    BY <1>1 DEF ClientState
  <2>2. disk \in [File -> Nat] /\ cut \subseteq File /\ \A g \in File : disk[g] = IF g = f THEN id ELSE c.disk[g]
    BY <1>1, <1>3, <1>6 DEF ClientState
  <2> HIDE DEF disk, cut
  <2>3. s \in ClientState /\ s.at = "extract" /\ s.call = c.call /\ s.id = c.id
        /\ s.found = c.found /\ s.seen = c.seen /\ s.next = c.next /\ s.entries = c.entries \ {f}
        /\ s.disk = disk /\ s.cut = cut
    BY <1>1, <1>2, <2>2 DEF ClientState
  <2>4. Becomes(j, s)
    BY <1>10, <2>1
  <2> HIDE DEF s, rest
  <2>5. client'[j] = s
    BY <2>4 DEF Becomes, IInv
  <2>6. c.next \in Nat
    BY <1>3
  <2>7. ASSUME NEW g \in File \ s.entries PROVE Brought(j, c.next, g)'
    <3>1. CASE g = f
      <4>1. Carries(j, c.next, f)' /\ \A k \in 1..c.next : k = c.next \/ c.next \in k + 1..c.next
        BY <1>2, <1>6, <2>3, <2>5, <2>6 DEF Carries
      <4>2. disk[f] = id /\ (Kind[f] # "huge" => f \notin cut)
        BY <1>6, <2>2 DEF cut
      <4> QED BY <2>3, <2>5, <3>1, <4>1, <4>2 DEF Brought
    <3>2. CASE g # f
      <4>1. Brought(j, c.next, g)
        BY <1>7, <2>3, <2>7, <3>2
      <4>2. disk[g] = c.disk[g] /\ (g \in cut => g \in c.cut)
        BY <2>2, <2>7, <3>2 DEF cut
      <4> QED BY <1>2, <2>3, <2>5, <2>6, <4>1, <4>2, BroughtStays
    <3> QED BY <3>1, <3>2
  <2>8. Unpacks(j)'
    BY <2>3, <2>5, <2>7 DEF Unpacks
  <2> QED BY <1>2, <1>3, <1>4, <1>10, <2>3, <2>4, <2>8, DownloadSound
<1>11. CASE /\ Fault
            /\ Becomes(j, [[rest EXCEPT !.disk[f] = id, !.cut = IF Kind[f] = "huge" THEN @ \cup {f} ELSE @ \ {f}]
                             EXCEPT !.cut = @ \cup {f}, !.at = "error"])
  <2> DEFINE s == [c EXCEPT !.entries = c.entries \ {f}, !.disk = disk, !.cut = cut \cup {f}, !.at = "error"]
  <2>1. Becomes(j, s)
    BY <1>1, <1>11 DEF ClientState
  <2>2. disk \in [File -> Nat] /\ cut \cup {f} \subseteq File
    BY <1>1, <1>3, <1>6 DEF ClientState
  <2> HIDE DEF disk, cut
  <2>3. s \in ClientState /\ s.at = "error" /\ s.call = c.call /\ s.id = c.id /\ s.found = c.found /\ s.seen = c.seen
    BY <1>1, <1>2, <2>2 DEF ClientState, Place
  <2> HIDE DEF s
  <2>4. client'[j] = s /\ Moves(j) /\ Grows /\ Deletes(j)
    BY <1>2, <1>11, <2>1, <2>3, OnlyMoves
  <2> QED BY <1>2, <2>3, <2>4, FailureSound
<1> QED BY <1>5, <1>8, <1>9, <1>10, <1>11

LEMMA NextArtifactStep ==
  ASSUME IInv, NEW j \in Job, NextArtifact(j)
  PROVE  Moves(j) /\ Grows /\ Deletes(j) /\ Sound(j)'
<1> DEFINE c == client[j]
<1>1. c \in ClientState /\ Sound(j) /\ store \in Seq(Artifact)
  BY StateOf
<1>2. c.at = "extract" /\ c.entries = {} /\ c.at \notin Ended /\ Works /\ UNCHANGED <<store, passed>>
      /\ c.call.op = "download"
  BY <1>1 DEF NextArtifact, Ended, Sound, Placed
<1>3. c.next \in DOMAIN c.found /\ c.found \in Seq(Id) /\ c.next \in Nat /\ Len(c.found) \in Nat
  <2>1. c.next \in DOMAIN c.found /\ c.found \in Seq(Nat) /\ \A k \in DOMAIN c.found : c.found[k] \in Id
    BY <1>1, <1>2 DEF Sound, Shaped, ClientState
  <2> HIDE DEF c
  <2>2. DOMAIN c.found = 1..Len(c.found) /\ Len(c.found) \in Nat
    BY <2>1
  <2>3. c.found \in Seq(Id)
    BY <2>1, <2>2
  <2> QED BY <2>1, <2>2, <2>3
<1>4. PICK n \in Nat : n = c.next
  BY <1>3
<1>5. ASSUME NEW s \in ClientState, Becomes(j, s), s.found = c.found, s.disk = c.disk, s.cut = c.cut,
             (s.at = "fetch" /\ s.next - 1 = n) \/ (s.at = "ok" /\ Len(c.found) = n)
      PROVE  Unpacks(j)'
  <2>1. client'[j] = s
    BY <1>5 DEF Becomes, IInv
  <2>2. ASSUME NEW f \in File PROVE Brought(j, n, f)'
    <3>1. Brought(j, n, f)
      BY <1>1, <1>2, <1>4 DEF Sound, Unpacks
    <3>2. client'[j].found = c.found /\ client'[j].disk[f] = c.disk[f] /\ client'[j].cut = c.cut
      BY <1>5, <2>1
    <3> QED BY <1>2, <3>1, <3>2, BroughtStays
  <2>3. CASE s.at = "fetch" /\ s.next - 1 = n
    BY <2>1, <2>2, <2>3 DEF Unpacks
  <2>4. CASE s.at = "ok" /\ Len(c.found) = n
    BY <1>5, <2>1, <2>2, <2>4 DEF Unpacks
  <2> QED BY <1>5, <2>3, <2>4
<1>6. CASE c.next < Len(c.found)
  <2> DEFINE s == [c EXCEPT !.next = c.next + 1, !.at = "fetch"]
  <2>1. s \in ClientState /\ s.at = "fetch" /\ s.call = c.call /\ s.id = c.id /\ s.found = c.found
        /\ s.seen = c.seen /\ s.next = c.next + 1 /\ s.disk = c.disk /\ s.cut = c.cut
    <3>1. c.next + 1 \in Nat
      BY <1>3
    <3> QED BY <1>1, <3>1 DEF ClientState, Place
  <2>2. Becomes(j, s)
    BY <1>6 DEF NextArtifact
  <2> HIDE DEF s
  <2>3. s.next \in DOMAIN s.found /\ s.next - 1 = c.next
    BY <1>3, <1>6, <2>1
  <2>4. s.at = "fetch" /\ s.next - 1 = n
    BY <1>4, <2>1, <2>3
  <2>5. Unpacks(j)'
    BY <1>5, <2>1, <2>2, <2>4
  <2> QED BY <1>2, <1>3, <2>1, <2>2, <2>3, <2>5, DownloadSound
<1>7. CASE ~(c.next < Len(c.found))
  <2> DEFINE s == [c EXCEPT !.at = "ok"]
  <2>1. s \in ClientState /\ s.at = "ok" /\ s.call = c.call /\ s.id = c.id /\ s.found = c.found
        /\ s.seen = c.seen /\ s.disk = c.disk /\ s.cut = c.cut
    BY <1>1, <1>3 DEF ClientState, Place
  <2>2. Becomes(j, s)
    BY <1>1, <1>7 DEF NextArtifact
  <2> HIDE DEF s
  <2>3. Len(c.found) = c.next
    BY <1>3, <1>7
  <2>4. Unpacks(j)'
    BY <1>4, <1>5, <2>1, <2>2, <2>3
  <2> QED BY <1>2, <1>3, <2>1, <2>2, <2>4, DownloadSound
<1> QED BY <1>6, <1>7
-----------------------------------------------------------------------------
(* The invariant.                                                          *)

LEMMA InitEstablishes == Init => IInv
<1> SUFFICES ASSUME Init PROVE IInv
  OBVIOUS
<1>1. store = Earlier /\ Earlier \in Seq(Artifact) /\ \A i \in Id : store[i].live
  BY ArtifactsAssumption DEF Init, Id
<1>2. \A j \in Job : \E c \in Calls : client[j] =
        [at |-> "new", call |-> c, run |-> 0, seen |-> {}, found |-> <<>>, next |-> 1, entries |-> {},
         disk |-> [f \in File |-> 0], cut |-> {}, temps |-> {}, id |-> 0, excused |-> FALSE]
  BY DEF Init
<1>3. ASSUME NEW j \in Job PROVE client[j] \in ClientState /\ Sound(j)
  <2>1. PICK c \in Calls : client[j] =
          [at |-> "new", call |-> c, run |-> 0, seen |-> {}, found |-> <<>>, next |-> 1, entries |-> {},
           disk |-> [f \in File |-> 0], cut |-> {}, temps |-> {}, id |-> 0, excused |-> FALSE]
    BY <1>2
  <2>2. <<>> \in Seq(Nat) /\ DOMAIN <<>> = {} /\ [f \in File |-> 0] \in [File -> Nat]
    OBVIOUS
  <2>3. client[j] \in ClientState
    BY <2>1, <2>2 DEF ClientState, Place
  <2>4. Shaped(j)
    BY <2>1, <2>2, <2>3 DEF Shaped
  <2>5. Placed(j) /\ Replaces(j) /\ Unpacks(j)
    BY <2>1 DEF Placed, Replaces, Unpacks
  <2> QED BY <2>3, <2>4, <2>5 DEF Sound
<1>4. client \in [Job -> ClientState]
  <2>1. client = [j \in Job |-> client[j]]
    BY DEF Init
  <2> QED BY <1>3, <2>1
<1>5. Stored
  <2>1. {j \in Job : client[j].at \in Ended} = {}
    <3>1. ASSUME NEW j \in Job PROVE client[j].at = "new"
      <4>1. PICK c \in Calls : client[j] =
              [at |-> "new", call |-> c, run |-> 0, seen |-> {}, found |-> <<>>, next |-> 1, entries |-> {},
               disk |-> [f \in File |-> 0], cut |-> {}, temps |-> {}, id |-> 0, excused |-> FALSE]
        BY <1>2
      <4> QED BY <4>1
    <3> QED BY <3>1 DEF Ended
  <2>2. Len(store) <= Len(Earlier) + Cardinality({j \in Job : client[j].at \in Ended})
    <3>1. Len(Earlier) <= Len(Earlier) + 0
      BY <1>1
    <3> QED BY <1>1, <2>1, <3>1, FS_EmptySet
  <2> QED BY <1>1, <2>2, ArtifactsAssumption DEF Init, Stored
<1> QED BY <1>1, <1>3, <1>4, <1>5 DEF IInv

\* Each job adds at most one artifact, as it ends.
LEMMA StoredStep ==
  ASSUME IInv, NEW j \in Job, Moves(j), Grows
  PROVE  Stored'
<1> DEFINE E == {k \in Job : client[k].at \in Ended}
           F == {k \in Job : client'[k].at \in Ended}
<1>1. \A k \in Job \ {j} : client'[k] = client[k]
  BY DEF Moves, IInv
<1>2. j \notin E /\ (F = E \/ F = E \cup {j}) /\ (client'[j].at \in Ended => F = E \cup {j})
  BY <1>1 DEF Moves
<1>3. IsFiniteSet(E) /\ Cardinality(E) \in Nat
  BY ArtifactsAssumption, FS_Subset, FS_CardinalityType
<1>4. Cardinality(E \cup {j}) = Cardinality(E) + 1
  BY <1>2, <1>3, FS_AddElement
<1>5. Len(store) <= Len(Earlier) + Cardinality(E) /\ Len(store) \in Nat /\ Len(Earlier) \in Nat
  BY ArtifactsAssumption DEF IInv, Stored
<1>6. Len(store') <= Len(Earlier) + Cardinality(F)
  <2> HIDE DEF E, F
  <2>1. /\ Cardinality(F) \in Nat /\ Cardinality(E) <= Cardinality(F)
        /\ client'[j].at \in Ended => Cardinality(F) = Cardinality(E) + 1
    <3>1. Cardinality(E) \in Nat /\ Cardinality(E) + 1 \in Nat /\ Cardinality(E) <= Cardinality(E) + 1
          /\ Cardinality(E) <= Cardinality(E)
      BY <1>3
    <3>2. CASE F = E \cup {j}
      BY <1>4, <3>1, <3>2
    <3>3. CASE F = E /\ client'[j].at \notin Ended
      BY <3>1, <3>3
    <3> QED BY <1>2, <3>2, <3>3
  <2>2. CASE Len(store') = Len(store)
    BY <1>3, <1>5, <2>1, <2>2
  <2>3. CASE Len(store') = Len(store) + 1 /\ client'[j].at \in Ended
    BY <1>3, <1>5, <2>1, <2>3
  <2> QED BY <2>2, <2>3 DEF Moves
<1> QED BY <1>6 DEF Stored, Grows, Moves, IInv

LEMMA MovePreserves ==
  ASSUME IInv, NEW j \in Job, Moves(j), Grows, Deletes(j), Sound(j)'
  PROVE  IInv'
<1>1. store \in Seq(Artifact) /\ Len(store) \in Nat /\ Id = 1..Len(store)
  BY DEF IInv, Stored, Id
<1>2. \A k \in Job \ {j} : client'[k] = client[k]
  BY DEF Moves, IInv
<1>3. client' \in [Job -> ClientState]
  BY DEF Moves, IInv
<1>4. ASSUME NEW k \in Job PROVE Sound(k)'
  <2>1. CASE k = j
    BY <2>1
  <2>2. CASE k # j
    <3>1. client'[k] = client[k] /\ Sound(k)
      BY <1>2, <2>2 DEF IInv
    <3> QED BY <1>1, <3>1, OthersSound
  <2> QED BY <2>1, <2>2
<1>5. \A k \in Job : client'[k].call = client[k].call /\ client'[k].id \in {client[k].id, Len(store) + 1}
  BY <1>2 DEF Moves
<1>6. ASSUME NEW i \in Id', ~store'[i].live PROVE Replaced(i)'
  <2>1. i \in Id /\ i # 0 /\ i # Len(store) + 1
    BY <1>1, <1>6 DEF Moves
  <2>2. store'[i].name = store[i].name
    BY <2>1 DEF Grows
  <2>3. \A k \in Job : (Overwrites(k) <=> Overwrites(k)') /\ ArtifactName(k)' = ArtifactName(k)
    BY <1>5 DEF Overwrites, ArtifactName
  <2>4. CASE store[i].live
    <3>1. Overwrites(j) /\ store[i].name \in Selects[ArtifactName(j)] /\ client'[j].id = 0
      BY <1>6, <2>1, <2>4 DEF Deletes
    <3> QED BY <2>1, <2>2, <2>3, <3>1 DEF Replaced
  <2>5. CASE ~store[i].live
    <3>1. PICK k \in Job : /\ Overwrites(k) /\ store[i].name \in Selects[ArtifactName(k)]
                           /\ i # client[k].id
      BY <2>1, <2>5 DEF IInv, Replaced
    <3>2. i # client'[k].id
      BY <1>5, <2>1, <3>1
    <3> QED BY <2>2, <2>3, <3>1, <3>2 DEF Replaced
  <2> QED BY <2>4, <2>5
<1> QED BY <1>3, <1>4, <1>6, StoredStep DEF IInv

LEMMA StepPreserves ==
  ASSUME IInv, NEW j \in Job, Step(j)
  PROVE  IInv'
<1>1. Moves(j) /\ Grows /\ Deletes(j) /\ Sound(j)'
  <2>1. CASE NewClient(j)
    BY <2>1, NewClientStep
  <2>2. CASE EnsureInstalled(j)
    BY <2>2, EnsureInstalledStep
  <2>3. CASE ListExisting(j)
    BY <2>3, ListExistingStep
  <2>4. CASE DeleteExisting(j)
    BY <2>4, DeleteExistingStep
  <2>5. CASE Upload(j)
    BY <2>5, UploadStep
  <2>6. CASE StartDownload(j)
    BY <2>6, StartDownloadStep
  <2>7. CASE LatestWorkflowRun(j)
    BY <2>7, LatestWorkflowRunStep
  <2>8. CASE ListArtifacts(j)
    BY <2>8, ListArtifactsStep
  <2>9. CASE Fetch(j)
    BY <2>9, FetchStep
  <2>10. CASE ExtractEntry(j)
    BY <2>10, ExtractEntryStep
  <2>11. CASE NextArtifact(j)
    BY <2>11, NextArtifactStep
  <2> QED BY <2>1, <2>2, <2>3, <2>4, <2>5, <2>6, <2>7, <2>8, <2>9, <2>10, <2>11 DEF Step
<1> QED BY <1>1, MovePreserves

LEMMA NextPreserves == IInv /\ [Next]_vars => IInv'
<1> SUFFICES ASSUME IInv, [Next]_vars PROVE IInv'
  OBVIOUS
<1>1. ASSUME UNCHANGED <<store, client, faults>>, passed' \subseteq Run \ {This}
      PROVE  IInv'
  <2>1. Stored' /\ Id' = Id
    BY <1>1 DEF IInv, Stored, Id
  <2>2. \A j \in Job : Sound(j)'
    BY <1>1, OthersSound, StoreStays DEF IInv, Stored
  <2>3. \A i \in Id' : ~store'[i].live => Replaced(i)'
    BY <1>1, <2>1 DEF IInv, Replaced, Overwrites, ArtifactName
  <2> QED BY <1>1, <2>1, <2>2, <2>3 DEF IInv
<1>2. CASE \E j \in Job : Step(j)
  BY <1>2, StepPreserves
<1>3. CASE Pass
  BY <1>1, <1>3 DEF Pass, IInv, Stored
<1>4. CASE UNCHANGED vars
  BY <1>1, <1>4 DEF vars, IInv, Stored
<1> QED BY <1>2, <1>3, <1>4 DEF Next, Done

LEMMA Invariance == Spec => []IInv
BY InitEstablishes, NextPreserves, PTL DEF Spec
-----------------------------------------------------------------------------
(***************************************************************************)
(* The types of the store and of every job's call, and that each job adds  *)
(* at most one artifact.                                                   *)
(***************************************************************************)
THEOREM Typed == Spec => []TypeOK
<1>1. IInv => TypeOK
  <2> SUFFICES ASSUME IInv PROVE TypeOK
    OBVIOUS
  <2>1. Len(store) <= Len(Earlier) + Cardinality(Job)
    <3> DEFINE E == {j \in Job : client[j].at \in Ended}
    <3>1. Cardinality(E) <= Cardinality(Job) /\ Cardinality(E) \in Nat /\ Cardinality(Job) \in Nat
      BY ArtifactsAssumption, FS_Subset, FS_CardinalityType
    <3>2. Len(store) <= Len(Earlier) + Cardinality(E) /\ Len(store) \in Nat /\ Len(Earlier) \in Nat
      BY ArtifactsAssumption DEF IInv, Stored
    <3> QED BY <3>1, <3>2
  <2>2. \A j \in Job : Shaped(j)
    BY DEF IInv, Sound
  <2> QED BY <2>1, <2>2 DEF IInv, Stored, TypeOK, Shaped
<1> QED BY <1>1, Invariance, PTL

(***************************************************************************)
(* A download that returns without an error has brought every file that    *)
(* can be extracted, whatever other jobs uploaded or deleted meanwhile     *)
(* (github/api.go, DownloadArtifactDir).                                   *)
(***************************************************************************)
THEOREM DownloadsAreWhole == Spec => []DownloadIsWhole
<1>1. IInv => DownloadIsWhole
  <2> SUFFICES ASSUME IInv, NEW j \in Job, client[j].call.op = "download", client[j].at = "ok",
                      NEW k \in DOMAIN client[j].found, NEW f \in File,
                      Kind[f] \in {"plain", "nested", "huge"}, Carries(j, k, f),
                      \A m \in k + 1..Len(client[j].found) : ~Carries(j, m, f)
               PROVE  client[j].disk[f] = client[j].found[k] /\ (Kind[f] # "huge" => f \notin client[j].cut)
    BY DEF DownloadIsWhole
  <2>1. Brought(j, Len(client[j].found), f)
    BY DEF IInv, Sound, Unpacks
  <2>2. k \in 1..Len(client[j].found)
    <3>1. client[j].found \in Seq(Nat)
      BY DEF IInv, ClientState
    <3> QED BY <3>1
  <2> QED BY <2>1, <2>2 DEF Brought
<1> QED BY <1>1, Invariance, PTL

(***************************************************************************)
(* An upload that overwrites has replaced, once it returns, what it saw;   *)
(* what has gone was overwritten by a call that did not return it          *)
(* (github/artifact_upload.go, UploadArtifactDir).                         *)
(***************************************************************************)
THEOREM OnlyItsNameIsOverwritten == Spec => []OverwritesItsName
<1>1. IInv => OverwritesItsName
  <2> SUFFICES ASSUME IInv PROVE OverwritesItsName
    OBVIOUS
  <2>1. ASSUME NEW j \in Job, Overwrites(j), client[j].at = "ok", ~client[j].excused
        PROVE  client[j].seen \cap Live(This) = {}
    BY <2>1 DEF IInv, Sound, Replaces, Overwrites, Live
  <2>2. \A i \in Id : ~store[i].live => Replaced(i)
    BY DEF IInv
  <2> QED BY <2>1, <2>2 DEF OverwritesItsName, Replaced
<1> QED BY <1>1, Invariance, PTL
=============================================================================
