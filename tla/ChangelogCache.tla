-------------------------- MODULE ChangelogCache --------------------------
(***************************************************************************)
(* GetChangelog (tasks/release/changelog_cache.go): pull the changelog     *)
(* published for the commit from the OCI registry, retrying what may pass, *)
(* and generate it with chronicle otherwise.                               *)
(*                                                                         *)
(* The registry is external: it holds one artifact or none for the commit, *)
(* and each request to it may fail in every way a request can.             *)
(***************************************************************************)
EXTENDS Naturals

CONSTANTS
  Attempts,  \* cacheFetchAttempts
  MaxDepth,  \* maxManifestDepth
  None,      \* no version
  Versions   \* the versions a changelog may be for

ASSUME CacheAssumption ==
  Attempts \in Nat \ {0} /\ MaxDepth \in Nat /\ None \notin Versions

VARIABLES
  asked,     \* the argument of GetChangelog, None for ""
  artifact,  \* what the registry has for the commit (never changes)
  at,        \* where the call is
  attempt,   \* fetchCachedChangelog: the attempt under way
  depth,     \* getManifest: how many indexes were followed
  last,      \* why the last attempt failed
  trouble,   \* history: a request failed, or none could be made
  blocked,   \* history: something other than the cache failed
  files,     \* where the contents of CHANGELOG.md and VERSION come from
  answer     \* what GetChangelog returned

registryVars == <<asked, artifact>>
vars == <<asked, artifact, at, attempt, depth, last, trouble, blocked, files, answer>>

(***************************************************************************)
(* An artifact: how many indexes lead to its manifest, what its markdown   *)
(* layer holds, and its version layer, if it has one.                      *)
(***************************************************************************)
Artifact ==
  [indexes : 0..MaxDepth, notes : {"missing", "no layer", "empty", "text"},
   layer : BOOLEAN, version : Versions \cup {None}]

\* Errors of an attempt: of the transport, by status, of decoding, a chain of
\* indexes that is too long, and a structural miss.
Failure == {"transport", "4xx", "429", "5xx", "garbled", "depth", "miss"}

\* Fault: statuses of a client's error are retried too.
RetryAllButMisses(e) == e # "miss"

isRetryable(e) == e \notin {"miss", "4xx"}

Source == {"old", "cache", "chronicle"}
Answer == [source : {"pending", "cache", "chronicle", "error"}, version : Versions \cup {None}]

Init ==
  /\ asked \in Versions \cup {None}
  /\ artifact \in {a \in Artifact : ~a.layer => a.version = None}
  /\ at = "setup"
  /\ attempt = 1
  /\ depth = 0
  /\ last = "none"
  /\ trouble = FALSE
  /\ blocked = FALSE
  /\ files = [changelog |-> "old", version |-> "old"]
  /\ answer = [source |-> "pending", version |-> None]

result == <<blocked, files, answer>>

\* GetChangelog panics.
Panics ==
  /\ at' = "done"
  /\ blocked' = TRUE
  /\ answer' = [answer EXCEPT !.source = "error"]
-----------------------------------------------------------------------------
(* fetchCachedChangelog.                                                   *)

Setup ==
  /\ at = "setup"
  /\ at' = "token"
  /\ UNCHANGED <<registryVars, attempt, depth, last, trouble, result>>

\* No project name, or no commit: the cache is given up.
SetupFails ==
  /\ at = "setup"
  /\ at' = "generate"
  /\ trouble' = TRUE
  /\ UNCHANGED <<registryVars, attempt, depth, last, result>>

\* gh is needed for a token and cannot be installed.
NoTool ==
  /\ at = "setup"
  /\ Panics
  /\ UNCHANGED <<registryVars, attempt, depth, last, trouble, files>>

\* Fault: one attempt too many.
AttemptFailsOneMore(e) ==
  /\ last' = e
  /\ trouble' = (trouble \/ e # "miss")
  /\ at' = IF isRetryable(e) /\ attempt <= Attempts THEN "sleep" ELSE "generate"
  /\ UNCHANGED <<registryVars, attempt, depth, result>>

\* The attempt fails: pull returns an error.
AttemptFails(e) ==
  /\ last' = e
  /\ trouble' = (trouble \/ e # "miss")
  /\ at' = IF isRetryable(e) /\ attempt < Attempts THEN "sleep" ELSE "generate"
  /\ UNCHANGED <<registryVars, attempt, depth, result>>

\* Where an attempt goes when a request is answered.
Goes(to) ==
  /\ at' = to
  /\ UNCHANGED <<registryVars, attempt, depth, last, trouble, result>>

\* Any request: it fails below HTTP, or the registry answers with an error.
RequestFails ==
  /\ at \in {"token", "manifest", "markdown", "version"}
  /\ at = "manifest" => depth < MaxDepth
  /\ \/ \E e \in {"transport", "4xx", "429", "5xx"} : AttemptFails(e)
     \/ at \in {"token", "manifest"} /\ AttemptFails("garbled")

Authenticate == at = "token" /\ Goes("manifest")

\* getManifest follows indexes to their first child, to a bound.
FollowIndex ==
  /\ at = "manifest"
  /\ artifact.notes # "missing"
  /\ depth < MaxDepth /\ depth < artifact.indexes
  /\ depth' = depth + 1
  /\ UNCHANGED <<registryVars, at, attempt, last, trouble, result>>

TooDeep ==
  /\ at = "manifest"
  /\ depth = MaxDepth
  /\ AttemptFails("depth")

GetManifest ==
  /\ at = "manifest"
  /\ depth < MaxDepth /\ depth = artifact.indexes
  /\ \/ artifact.notes \in {"empty", "text"} /\ Goes("markdown")
     \/ artifact.notes = "no layer" /\ AttemptFails("miss")

GetMarkdown ==
  /\ at = "markdown"
  /\ \/ artifact.notes = "text" /\ Goes(IF artifact.layer THEN "version" ELSE "hit")
     \/ artifact.notes = "empty" /\ AttemptFails("miss")

GetVersion == at = "version" /\ Goes("hit")

\* Fault: the attempt is not counted.
SleepUncounted ==
  /\ at = "sleep"
  /\ at' = "token"
  /\ depth' = 0
  /\ UNCHANGED <<registryVars, attempt, last, trouble, result>>

\* The time it takes, doubled each time, is left out.
Sleep ==
  /\ at = "sleep"
  /\ attempt' = attempt + 1
  /\ depth' = 0
  /\ at' = "token"
  /\ UNCHANGED <<registryVars, last, trouble, result>>
-----------------------------------------------------------------------------
(* GetChangelog: what the cache gave is used, or the fallback.             *)

\* A version is needed and the artifact has none.
LacksVersion ==
  /\ at = "hit"
  /\ asked = None /\ artifact.version = None
  /\ Goes("generate")

\* Fault: a version that is missing is not noticed.
UseCacheAnyway ==
  /\ at = "hit"
  /\ at' = "done"
  /\ files' = [changelog |-> "cache",
               version |-> IF artifact.version # None THEN "cache" ELSE files.version]
  /\ answer' = [source |-> "cache", version |-> IF asked # None THEN asked ELSE artifact.version]
  /\ UNCHANGED <<registryVars, attempt, depth, last, trouble, blocked>>

\* writeAndShow; the caller's version is preferred.
UseCache ==
  /\ at = "hit"
  /\ asked # None \/ artifact.version # None
  /\ at' = "done"
  /\ files' = [changelog |-> "cache",
               version |-> IF artifact.version # None THEN "cache" ELSE files.version]
  /\ answer' = [source |-> "cache", version |-> IF asked # None THEN asked ELSE artifact.version]
  /\ UNCHANGED <<registryVars, attempt, depth, last, trouble, blocked>>

\* Writing CHANGELOG.md fails, or VERSION after it.
WriteFails ==
  /\ at = "hit"
  /\ asked # None \/ artifact.version # None
  /\ \/ UNCHANGED files
     \/ artifact.version # None /\ files' = [files EXCEPT !.changelog = "cache"]
  /\ Panics
  /\ UNCHANGED <<registryVars, attempt, depth, last, trouble>>

\* Fault: only the changelog is generated, whoever asks.
GenerateNotes ==
  /\ at = "generate"
  /\ at' = "done"
  /\ files' = [files EXCEPT !.changelog = "chronicle"]
  /\ \E v \in Versions \cup {None} :
       /\ asked # None => v = asked
       /\ answer' = [source |-> "chronicle", version |-> v]
  /\ UNCHANGED <<registryVars, attempt, depth, last, trouble, blocked>>

\* fallbackChangelog: chronicle writes the changelog, up to the tag asked for; or
\* also computes the version and writes it, to be read back, and it may be empty.
Generate ==
  /\ at = "generate"
  /\ at' = "done"
  /\ files' = [changelog |-> "chronicle",
               version |-> IF asked = None THEN "chronicle" ELSE files.version]
  /\ \E v \in Versions \cup {None} :
       /\ asked # None => v = asked
       /\ answer' = [source |-> "chronicle", version |-> v]
  /\ UNCHANGED <<registryVars, attempt, depth, last, trouble, blocked>>

\* chronicle, gh or reading VERSION fails.
GenerateFails ==
  /\ at = "generate"
  /\ files' \in {files, [files EXCEPT !.changelog = "chronicle"]}
  /\ Panics
  /\ UNCHANGED <<registryVars, attempt, depth, last, trouble>>

Fetch ==
  \/ Setup \/ SetupFails \/ NoTool \/ RequestFails \/ Authenticate \/ FollowIndex \/ TooDeep
  \/ GetManifest \/ GetMarkdown \/ GetVersion \/ Sleep

Step ==
  \/ Fetch \/ LacksVersion \/ UseCache \/ WriteFails \/ Generate \/ GenerateFails
=============================================================================
