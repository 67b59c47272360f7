----------------------------- MODULE Artifacts -----------------------------
(***************************************************************************)
(* Artifacts of GitHub Actions (github/api.go, artifact_upload.go): the    *)
(* jobs of a workflow run upload files with UploadArtifactDir, which may   *)
(* overwrite, and they or later ones download them with                    *)
(* DownloadArtifactDir and DownloadBranchArtifactDir.                      *)
(*                                                                         *)
(* The artifacts are GitHub's and shared; what GitHub answers, and what    *)
(* the node program does with @actions/artifact, is external.  Every       *)
(* request is a step: another job may move before the next one.  GitHub    *)
(* may refuse a request, which is an error, and the connection may fail,   *)
(* which is a panic in fetch.                                              *)
(***************************************************************************)
EXTENDS Naturals, Sequences, FiniteSets

CONSTANTS
  Job,         \* the jobs, each of which makes a call of go-make
  Calls,       \* the calls they may make
  Name,        \* names of artifacts
  Pattern,     \* what the names are looked for with; names among them
  Selects,     \* the names that a pattern matches
  Malformed,   \* a pattern or glob that is malformed, and matches nothing
  DefaultName, \* the name of a job's directory with its matrix suffix
  File,        \* the files and directories in artifacts
  Kind,        \* where a file is, and what makes it special
  Run,         \* the workflow runs of a branch, in the order they were created
  This,        \* the run the jobs belong to
  Earlier,     \* the artifacts there are before, of other origin
  PageSize,    \* how many artifacts GitHub lists
  MaxFaults,   \* bound: requests that are refused or fail
  None         \* an option that is not given

\* A sibling is in a directory beside the target whose name begins with the target's.
Kinds == {"plain", "nested", "huge", "directory", "outside", "sibling"}

UploadCall ==
  [op : {"upload"}, name : Name \cup {None}, overwrite : BOOLEAN, dir : SUBSET File,
   files : SUBSET File, glob : {None, Malformed} \cup SUBSET File,
   runID : {0, This}]

DownloadCall ==
  [op : {"download"}, name : Pattern, run : {None} \cup Run, target : BOOLEAN,
   dirs : SUBSET {"nested", "sibling"}]

Artifact == [run : Run, name : Name, files : SUBSET File, live : BOOLEAN]

ASSUME ArtifactsAssumption ==
  /\ IsFiniteSet(Job)
  /\ Calls \subseteq UploadCall \cup DownloadCall
  /\ Name \subseteq Pattern /\ Malformed \in Pattern /\ Selects \in [Pattern -> SUBSET Name]
  /\ DefaultName \in [Job -> Name] /\ Kind \in [File -> Kinds]
  /\ Run \subseteq Nat \ {0} /\ This \in Run
  /\ Earlier \in Seq(Artifact) /\ \A i \in DOMAIN Earlier : Earlier[i].live
  /\ PageSize \in Nat /\ MaxFaults \in Nat

VARIABLES
  store,   \* the artifacts ever created; an artifact's id is its place
  passed,  \* the runs that were successful
  client,  \* the state of each job's call
  faults   \* how many faults there were

vars == <<store, passed, client, faults>>

Id == DOMAIN store
Live(run) == {i \in Id : store[i].run = run /\ store[i].live}

Place == {"new", "start", "list", "delete", "upload", "find-run", "fetch", "extract", "ok", "error", "panicked"}
Ended == {"ok", "error", "panicked"}

(***************************************************************************)
(* `found' are the artifacts listed, of which `next' is dealt with now;    *)
(* `entries' are what is left of its archive; `disk' says from which       *)
(* artifact a file of an archive on the disk is, and `temps' whose archives  *)
(* were left there.                                                        *)
(***************************************************************************)
ClientState ==
  [at : Place, call : Calls, run : Run \cup {0}, seen : SUBSET Nat, found : Seq(Nat), next : Nat,
   entries : SUBSET File, disk : [File -> Nat], cut : SUBSET File, temps : SUBSET Nat,
   id : Nat, excused : BOOLEAN]

ArtifactName(j) == IF client[j].call.name = None THEN DefaultName[j] ELSE client[j].call.name

Init ==
  /\ store = Earlier
  /\ passed \in SUBSET (Run \ {This})
  /\ client \in [Job ->
       {[at |-> "new", call |-> c, run |-> 0, seen |-> {}, found |-> <<>>, next |-> 1, entries |-> {},
         disk |-> [f \in File |-> 0], cut |-> {}, temps |-> {}, id |-> 0, excused |-> FALSE] : c \in Calls}]
  /\ faults = 0

Works == UNCHANGED faults
Fault == faults < MaxFaults /\ faults' = faults + 1

Becomes(j, state) == client' = [client EXCEPT ![j] = state]
Goes(j, to) == Becomes(j, [client[j] EXCEPT !.at = to])
Panics(j) == Goes(j, "panicked")

\* The orders in which GitHub may list a set of artifacts, up to a page of them.
Listings(S) ==
  {l \in UNION {[1..n -> S] : n \in {m \in 0..PageSize : m <= Cardinality(S)}} :
     /\ \A i, k \in DOMAIN l : i # k => l[i] # l[k]
     /\ Len(l) < PageSize => {l[i] : i \in DOMAIN l} = S}

\* Fault: what is overwritten is whatever GitHub lists.
MatchingAny(l, pattern) == l

\* listWorkflowRunArtifacts keeps those of a page whose names the pattern matches.
Matching(l, pattern) ==
  LET out[n \in 0..Len(l)] ==
        IF n = 0 THEN <<>>
        ELSE IF store[l[n]].name \in Selects[pattern] THEN Append(out[n - 1], l[n]) ELSE out[n - 1]
  IN  out[Len(l)]

\* nameMatches panics at a malformed pattern, once there is a name to match.
Matches(l, pattern) == l = <<>> \/ pattern # Malformed

\* NewClient and Payload: the event file may be unreadable, or gh have no token.
NewClient(j) ==
  /\ client[j].at = "new"
  /\ \/ Works /\ Goes(j, "start")
     \/ Fault /\ Panics(j)
  /\ UNCHANGED <<store, passed>>
-----------------------------------------------------------------------------
(* UploadArtifactDir.                                                      *)

\* ensureActionsArtifactInstalled asks npm, installs the latest package, or else a known one.
EnsureInstalled(j) ==
  /\ client[j].at = "start" /\ client[j].call.op = "upload"
  /\ \/ Works /\ Goes(j, IF client[j].call.overwrite THEN "list" ELSE "upload")
     \/ Fault /\ Panics(j)
  /\ UNCHANGED <<store, passed>>

\* What is to be overwritten.  A refused listing, as that of a run 0 is, counts as empty.
ListExisting(j) ==
  /\ client[j].at = "list" /\ client[j].call.op = "upload"
  /\ LET listed(l) ==
           [client[j] EXCEPT !.found = l, !.at = IF l = <<>> THEN "upload" ELSE "delete",
              !.seen = {i \in Live(This) : store[i].name \in Selects[ArtifactName(j)]}]
     IN  \/ /\ client[j].call.runID = This
            /\ Works
            /\ \E l \in Listings(Live(This)) :
                 IF Matches(l, ArtifactName(j))
                 THEN Becomes(j, [listed(Matching(l, ArtifactName(j))) EXCEPT
                                    !.excused = Len(l) < Cardinality(Live(This))])
                 ELSE Panics(j)
         \/ client[j].call.runID = 0 /\ Works /\ Becomes(j, [listed(<<>>) EXCEPT !.excused = TRUE])
         \/ Fault /\ Becomes(j, [listed(<<>>) EXCEPT !.excused = TRUE])
         \/ Fault /\ Panics(j)
  /\ UNCHANGED <<store, passed>>

\* Fault: the first artifact deleted is the last.
DeleteFirst(j) ==
  /\ client[j].at = "delete"
  /\ LET id == client[j].found[client[j].next]
         rest == [client[j] EXCEPT !.at = "upload"]
     IN  \/ Works /\ store' = [store EXCEPT ![id].live = FALSE] /\ Becomes(j, rest)
         \/ Fault /\ UNCHANGED store /\ Becomes(j, [rest EXCEPT !.excused = TRUE])
         \/ Fault /\ store' \in {store, [store EXCEPT ![id].live = FALSE]} /\ Panics(j)
  /\ UNCHANGED passed

\* One of them is deleted; that GitHub refuses it is logged.
DeleteExisting(j) ==
  /\ client[j].at = "delete"
  /\ LET id == client[j].found[client[j].next]
         rest == IF client[j].next < Len(client[j].found)
                 THEN [client[j] EXCEPT !.next = @ + 1] ELSE [client[j] EXCEPT !.at = "upload"]
     IN  \/ Works /\ store' = [store EXCEPT ![id].live = FALSE] /\ Becomes(j, rest)
         \/ Fault /\ UNCHANGED store /\ Becomes(j, [rest EXCEPT !.excused = TRUE])
         \/ Fault /\ store' \in {store, [store EXCEPT ![id].live = FALSE]} /\ Panics(j)
  /\ UNCHANGED passed

\* listMatchingFiles: the files named, and those in the directory the glob matches, all of
\* them by default.
listMatchingFiles(call) ==
  call.files \cup
  (CASE call.glob \notin {None, Malformed} -> call.glob \cap call.dir
     [] call.glob = None /\ call.files = {} -> call.dir
     [] OTHER -> {})

(***************************************************************************)
(* A malformed glob is a panic.  The node program: GitHub takes an         *)
(* artifact if the run has none of that name; a failure here may come      *)
(* after that, and what is printed then need not be an id, which is an     *)
(* error.                                                                  *)
(***************************************************************************)
Upload(j) ==
  /\ client[j].at = "upload"
  /\ LET call == client[j].call
         files == listMatchingFiles(call)
         taken == \E i \in Live(This) : store[i].name = ArtifactName(j)
         added == Append(store, [run |-> This, name |-> ArtifactName(j), files |-> files, live |-> TRUE])
     IN  \/ call.glob = Malformed /\ Works /\ Panics(j) /\ UNCHANGED store
         \/ call.glob # Malformed /\ files = {} /\ Works /\ Goes(j, "error") /\ UNCHANGED store
         \/ /\ call.glob # Malformed /\ files # {}
            /\ \/ taken \/ ~(files \subseteq call.dir)
            /\ Works /\ Panics(j) /\ UNCHANGED store
         \/ /\ call.glob # Malformed /\ files # {} /\ ~taken /\ files \subseteq call.dir
            /\ \/ Works /\ store' = added
                  /\ Becomes(j, [client[j] EXCEPT !.at = "ok", !.id = Len(added)])
               \/ Fault /\ store' = added /\ Goes(j, "error")
               \/ Fault /\ store' \in {store, added} /\ Panics(j)
  /\ UNCHANGED passed
-----------------------------------------------------------------------------
(* DownloadArtifactDir and DownloadBranchArtifactDir.                      *)

StartDownload(j) ==
  /\ client[j].at = "start" /\ client[j].call.op = "download"
  /\ IF client[j].call.run = None THEN Goes(j, "find-run")
     ELSE Becomes(j, [client[j] EXCEPT !.at = "list", !.run = client[j].call.run])
  /\ Works /\ UNCHANGED <<store, passed>>

\* LatestWorkflowRun: the first of the branch's successful runs, latest first.
LatestWorkflowRun(j) ==
  /\ client[j].at = "find-run"
  /\ \/ \E r \in passed : /\ \A q \in passed : q <= r
                          /\ Works /\ Becomes(j, [client[j] EXCEPT !.at = "list", !.run = r])
     \/ passed = {} /\ Works /\ Goes(j, "error")
     \/ Fault /\ (Goes(j, "error") \/ Panics(j))
  /\ UNCHANGED <<store, passed>>

\* After the listing the directory above the target is made, which need not exist.
ListArtifacts(j) ==
  /\ client[j].at = "list" /\ client[j].call.op = "download"
  /\ \/ /\ Works
        /\ \E l \in Listings(Live(client[j].run)) :
             LET found == Matching(l, client[j].call.name) IN
             IF Matches(l, client[j].call.name)
             THEN Becomes(j, [client[j] EXCEPT !.found = found, !.at = IF found = <<>> THEN "ok" ELSE "fetch"])
             ELSE Panics(j)
     \/ Fault /\ (Goes(j, "error") \/ Panics(j))
  /\ UNCHANGED <<store, passed>>

\* Fault: an artifact that was deleted is passed over.
FetchTolerant(j) ==
  /\ client[j].at = "fetch"
  /\ LET id == client[j].found[client[j].next]
         with == [client[j] EXCEPT !.temps = @ \cup {id}]
     IN  \/ ~client[j].call.target /\ Works /\ Panics(j)
         \/ /\ client[j].call.target
            /\ \/ Works /\ store[id].live /\ Becomes(j, [with EXCEPT !.at = "extract", !.entries = store[id].files])
               \/ Works /\ ~store[id].live /\ Becomes(j, [with EXCEPT !.at = "extract", !.entries = {}])
               \/ Fault /\ \E at \in {"error", "panicked"} : Becomes(j, [with EXCEPT !.at = at])
  /\ UNCHANGED <<store, passed>>

(***************************************************************************)
(* The archive goes to a temporary file in the target directory, where it  *)
(* stays; without the directory that is a panic, as is an archive that     *)
(* does not arrive whole.  An artifact that was deleted is refused.        *)
(***************************************************************************)
Fetch(j) ==
  /\ client[j].at = "fetch"
  /\ LET id == client[j].found[client[j].next]
         with == [client[j] EXCEPT !.temps = @ \cup {id}]
     IN  \/ ~client[j].call.target /\ Works /\ Panics(j)
         \/ /\ client[j].call.target
            /\ \/ Works /\ store[id].live /\ Becomes(j, [with EXCEPT !.at = "extract", !.entries = store[id].files])
               \/ Works /\ ~store[id].live /\ Becomes(j, [with EXCEPT !.at = "error"])
               \/ Fault /\ \E at \in {"error", "panicked"} : Becomes(j, [with EXCEPT !.at = at])
  /\ UNCHANGED <<store, passed>>

(***************************************************************************)
(* extractArtifactEntry, for the archive's entries in any order:           *)
(* directories are left out, as are entries outside of the target, save    *)
(* that a sibling's path has the target's as a prefix; nothing makes the   *)
(* directory a nested one or a sibling is in; of a huge one the first 2 GB *)
(* are written, and that is no error.                                      *)
(***************************************************************************)
ExtractEntry(j) ==
  /\ client[j].at = "extract"
  /\ \E f \in client[j].entries :
       LET id == client[j].found[client[j].next]
           rest == [client[j] EXCEPT !.entries = @ \ {f}]
           written == [rest EXCEPT !.disk[f] = id, !.cut = IF Kind[f] = "huge" THEN @ \cup {f} ELSE @ \ {f}]
       IN  \/ Kind[f] \in {"directory", "outside"} /\ Works /\ Becomes(j, rest)
           \/ Kind[f] \in {"nested", "sibling"} \ client[j].call.dirs /\ Works /\ Goes(j, "error")
           \/ /\ Kind[f] \in {"plain", "huge"} \cup client[j].call.dirs
              /\ \/ Works /\ Becomes(j, written)
                 \/ Fault /\ Becomes(j, [written EXCEPT !.cut = @ \cup {f}, !.at = "error"])
  /\ UNCHANGED <<store, passed>>

\* Fault: off by one.
NextArtifactOff(j) ==
  /\ client[j].at = "extract" /\ client[j].entries = {}
  /\ Becomes(j, IF client[j].next <= Len(client[j].found)
                THEN [client[j] EXCEPT !.next = @ + 1, !.at = "fetch"] ELSE [client[j] EXCEPT !.at = "ok"])
  /\ Works /\ UNCHANGED <<store, passed>>

NextArtifact(j) ==
  /\ client[j].at = "extract" /\ client[j].entries = {}
  /\ Becomes(j, IF client[j].next < Len(client[j].found)
                THEN [client[j] EXCEPT !.next = @ + 1, !.at = "fetch"] ELSE [client[j] EXCEPT !.at = "ok"])
  /\ Works /\ UNCHANGED <<store, passed>>

\* Other runs of the branch come to an end.
Pass ==
  /\ \E r \in Run \ (passed \cup {This}) : passed' = passed \cup {r}
  /\ UNCHANGED <<store, client, faults>>

Step(j) ==
  \/ NewClient(j) \/ EnsureInstalled(j) \/ ListExisting(j) \/ DeleteExisting(j)
  \/ Upload(j) \/ StartDownload(j) \/ LatestWorkflowRun(j) \/ ListArtifacts(j) \/ Fetch(j) \/ ExtractEntry(j)
  \/ NextArtifact(j)

Done == (\A j \in Job : client[j].at \in Ended) /\ UNCHANGED vars

Next == (\E j \in Job : Step(j)) \/ Pass \/ Done

Spec == Init /\ [][Next]_vars
-----------------------------------------------------------------------------
TypeOK ==
  /\ store \in Seq(Artifact) /\ Len(store) <= Len(Earlier) + Cardinality(Job)
  /\ passed \subseteq Run \ {This}
  /\ client \in [Job -> ClientState]
  /\ faults \in 0..MaxFaults
  /\ \A j \in Job :
       LET c == client[j] IN
       /\ \A k \in DOMAIN c.found : c.found[k] \in Id
       /\ c.at \in {"delete", "fetch", "extract"} => c.next \in DOMAIN c.found
       /\ c.at = "extract" => c.entries \subseteq store[c.found[c.next]].files

(***************************************************************************)
(* DownloadArtifactDir "downloads an artifact and extracts it to the       *)
(* targetDir".  A download that returns no error has in the target every   *)
(* file inside it that any artifact listed has, from the last of them that *)
(* has it, whatever was overwritten meanwhile; none is cut short, save     *)
(* those over 2 GB.                                                        *)
(***************************************************************************)
Carries(j, k, f) == f \in store[client[j].found[k]].files

DownloadIsWhole ==
  \A j \in Job : client[j].call.op = "download" /\ client[j].at = "ok" =>
    \A k \in DOMAIN client[j].found, f \in File :
      /\ Kind[f] \in {"plain", "nested", "huge"} /\ Carries(j, k, f)
      /\ \A m \in k + 1..Len(client[j].found) : ~Carries(j, m, f)
      => client[j].disk[f] = client[j].found[k] /\ (Kind[f] # "huge" => f \notin client[j].cut)

(***************************************************************************)
(* An upload that overwrites replaces, once it returns, all artifacts of   *)
(* its name that were there when it looked, if GitHub listed and deleted   *)
(* what it was asked to; and no artifact goes but for an upload that       *)
(* overwrites its name, which is never its own: what an upload returned is *)
(* there until another one overwrites it.                                  *)
(***************************************************************************)
Overwrites(j) == client[j].call.op = "upload" /\ client[j].call.overwrite

OverwritesItsName ==
  /\ \A j \in Job :
       Overwrites(j) /\ client[j].at = "ok" /\ ~client[j].excused => client[j].seen \cap Live(This) = {}
  /\ \A i \in Id : ~store[i].live =>
       \E j \in Job : /\ Overwrites(j) /\ store[i].name \in Selects[ArtifactName(j)]
                      /\ i # client[j].id
=============================================================================
