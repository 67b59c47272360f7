-------------------------- MODULE ReleaseTrigger --------------------------
(***************************************************************************)
(* Those that call GetChangelog.  The task release (tasks/release/         *)
(* workflow.go) knows no version: it gets one with the changelog, has the  *)
(* user confirm it and triggers the release workflow for it.  The tasks    *)
(* that publish a tag (release.go, tasks/goreleaser/release.go) ask for    *)
(* the changelog of that tag and publish it.                               *)
(***************************************************************************)
EXTENDS ChangelogCache

CONSTANT Unreleased  \* the version chronicle reports when there is none: "(Unreleased)"

ASSUME UnreleasedAssumption == Unreleased \in Versions

VARIABLES
  task,       \* where the task is
  confirmed,  \* the version the user has confirmed
  triggered   \* the versions the workflow was triggered for, or published

taskVars == <<task, confirmed, triggered>>
allVars == <<vars, taskVars>>

\* What the task does before it calls GetChangelog changes nothing here but that
\* GITHUB_TOKEN is set.
TriggerInit ==
  /\ Init
  /\ task = "changelog"
  /\ confirmed = None
  /\ triggered = {}

\* GetChangelog, or it has returned or panicked.
Changelog ==
  /\ task = "changelog"
  /\ Step
  /\ UNCHANGED taskVars

\* The changelog is there, and a version to release; without one the process exits.
Returned ==
  /\ task = "changelog" /\ at = "done"
  /\ task' = CASE answer.source = "error" -> "failed"
               [] answer.version \in {None, Unreleased} /\ asked = None -> "failed"
               [] OTHER -> IF asked = None THEN "confirm" ELSE "trigger"
  /\ UNCHANGED <<vars, confirmed, triggered>>

\* Confirm asks until it is told y or n.
Confirm ==
  /\ task = "confirm"
  /\ \/ task' = "trigger" /\ confirmed' = answer.version
     \/ task' = "failed" /\ UNCHANGED confirmed
  /\ UNCHANGED <<vars, triggered>>

\* gh workflow run, or what publishes the tag; it may fail with or without effect,
\* and what follows may fail.
Trigger ==
  /\ task = "trigger"
  /\ \/ triggered' = triggered \cup {answer.version} /\ task' \in {"ended", "failed"}
     \/ task' = "failed" /\ UNCHANGED triggered
  /\ UNCHANGED <<vars, confirmed>>

TaskStep == Changelog \/ Returned \/ Confirm \/ Trigger

Finished == task \in {"ended", "failed"} /\ UNCHANGED allVars

Next == TaskStep \/ Finished

Spec == TriggerInit /\ [][Next]_allVars

\* The task is one goroutine; requests time out, sleeps and commands end, and the
\* user answers y or n in the end.
FairSpec == Spec /\ WF_allVars(TaskStep)
-----------------------------------------------------------------------------
TypeOK ==
  /\ asked \in Versions \cup {None}
  /\ artifact \in Artifact
  /\ at \in {"setup", "token", "manifest", "markdown", "version", "sleep", "hit", "generate", "done"}
  /\ attempt \in 1..Attempts
  /\ depth \in 0..MaxDepth
  /\ last \in Failure \cup {"none"}
  /\ trouble \in BOOLEAN /\ blocked \in BOOLEAN
  /\ files \in [changelog : Source, version : Source]
  /\ answer \in Answer
  /\ task \in {"changelog", "confirm", "trigger", "ended", "failed"}
  /\ confirmed \in Versions \cup {None}
  /\ triggered \subseteq Versions

(***************************************************************************)
(* GetChangelog keeps its promise: cached notes if they can be used,       *)
(* generated ones otherwise, and a version with every cached one.          *)
(***************************************************************************)
Promise == INSTANCE Changelog

ImplementsChangelog == Promise!Spec

(***************************************************************************)
(* What is triggered or published is what the files hold, written in this  *)
(* call and not left by an earlier one, and what the user confirmed.       *)
(***************************************************************************)
TriggeredAsShown ==
  triggered # {} =>
    /\ triggered = {answer.version}
    /\ files.changelog = answer.source
    /\ asked = None => /\ files.version = answer.source
                       /\ confirmed = answer.version
                       /\ answer.version \notin {None, Unreleased}
    /\ asked # None => answer.version = asked

(***************************************************************************)
(* "definitive client responses (a missing artifact, auth problems) and    *)
(* structural misses" (isRetryable) fall back with no further request.     *)
(***************************************************************************)
DefinitiveFallsBack == last \in {"4xx", "miss"} => at \in {"generate", "done"}

\* Every call of GetChangelog, and the task with it, ends.
Terminates == <>(task \in {"ended", "failed"})
=============================================================================
