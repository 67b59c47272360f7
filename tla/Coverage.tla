------------------------------ MODULE Coverage ------------------------------
(***************************************************************************)
(* One task of gotest.Tasks (tasks/gotest/test.go): go test writes a cover *)
(* profile, rows for files that are gone are scrubbed from it, the report  *)
(* is made and held against the threshold, and the temporary directory is  *)
(* removed.  Meanwhile files of the module come and go.                    *)
(*                                                                         *)
(* A row of a profile stands for one statement of a file; what the         *)
(* commands of go do is external.  Percentages are in tenths.              *)
(***************************************************************************)
EXTENDS Integers, Sequences, FiniteSets

CONSTANTS
  Source,      \* the module's source files
  Outside,     \* for the rows of other modules
  Thresholds,  \* CoverageThreshold, where 0 is none
  MaxRows      \* bound on the rows of a profile

ASSUME CoverageAssumption ==
  Outside \notin Source /\ Thresholds \subseteq Nat /\ MaxRows \in Nat

VARIABLES
  cfg,      \* the task's Config
  at,       \* where the task is
  result,   \* what has become of it
  path,     \* the coverage file: none, in a temporary directory, the caller's
  dir,      \* that directory
  written,  \* the profile as go test wrote it
  rows,     \* the rows of it that the file has now
  next,     \* scrubCoverLines: the next row
  exists,   \* scrubCoverLines: the files looked up, and whether they exist
  kept,     \* scrubCoverLines: the rows kept
  report,   \* the total found in the report
  cut,      \* history: the rewriting of the profile failed
  disk      \* the files there are

scrub == <<next, exists, kept>>
vars == <<cfg, at, result, path, dir, written, rows, scrub, report, cut, disk>>

Config == [coverage : BOOLEAN, file : BOOLEAN, threshold : Thresholds]

Row == [src : Source \cup {Outside}, hit : BOOLEAN]

NoTotal == -1

Missing == {f \in DOMAIN exists : ~exists[f]}

\* What `go tool cover -func' says is covered of the rows R, rounded to a tenth of a percent.
Percent(R) ==
  LET hits == Cardinality({k \in R : written[k].hit})
  IN  IF R = {} THEN 0 ELSE (2000 * hits + Cardinality(R)) \div (2 * Cardinality(R))

Init ==
  /\ cfg \in Config
  /\ at = "tasks" /\ result = "running"
  /\ path = "none" /\ dir = "none"
  /\ written = <<>> /\ rows = {}
  /\ next = 1 /\ exists = <<>> /\ kept = {}
  /\ report = NoTotal /\ cut = FALSE
  /\ disk \in SUBSET Source

-----------------------------------------------------------------------------
\* A panic, or the end of runTests: what is deferred comes next.
Throws == at' = "cleanup" /\ result' = "failed"
Returns == at' = "cleanup" /\ result' = "passed"
Goes(to) == at' = to /\ UNCHANGED result

\* Tasks rejects a threshold without coverage before anything runs.
Tasks ==
  /\ at = "tasks"
  /\ IF cfg.threshold > 0 /\ ~cfg.coverage THEN Throws ELSE Goes("resolve")
  /\ UNCHANGED <<cfg, path, dir, written, rows, scrub, report, cut, disk>>

\* The temporary directory may not be made, or its path not be made absolute.
resolveCoverageFile ==
  /\ at = "resolve"
  /\ IF cfg.coverage /\ ~cfg.file
     THEN path' \in {"temp", "none"} /\ dir' \in (IF path' = "temp" THEN {"made"} ELSE {"none", "made"})
     ELSE path' = (IF cfg.coverage THEN "callers" ELSE "none") /\ UNCHANGED dir
  /\ Goes("test")
  /\ UNCHANGED <<cfg, written, rows, scrub, report, cut, disk>>

(***************************************************************************)
(* `go list' or `go test' may fail.  Results from go's cache come with the *)
(* rows of files that are gone.                                            *)
(***************************************************************************)
Test ==
  /\ at = "test"
  /\ \/ /\ Throws
        /\ UNCHANGED <<written, rows>>
     \/ /\ path = "none" /\ Returns
        /\ UNCHANGED <<written, rows>>
     \/ /\ path # "none" /\ Goes("process")
        /\ written' \in UNION {[1..n -> Row] : n \in 0..MaxRows}
        /\ rows' = DOMAIN written'
  /\ UNCHANGED <<cfg, path, dir, scrub, report, cut, disk>>

\* Only a file of its own is scrubbed, and only if go.mod and the profile can be read:
\* without a go.mod there is no module, one that is damaged is a panic.
Scrubs ==
  /\ at = "process"
  /\ Goes("report") \/ (path = "temp" /\ (Goes("scrub") \/ Throws))
  /\ UNCHANGED <<cfg, path, dir, written, rows, scrub, report, cut, disk>>

\* Fault: every row is looked up.
ScrubRowUncached ==
  /\ at = "scrub" /\ next \in DOMAIN written
  /\ LET src == written[next].src IN
       IF src = Outside THEN UNCHANGED exists /\ kept' = kept \cup {next}
       ELSE /\ exists' = [f \in DOMAIN exists \cup {src} |-> IF f = src THEN f \in disk ELSE exists[f]]
            /\ kept' = IF src \in disk THEN kept \cup {next} ELSE kept
  /\ next' = next + 1
  /\ UNCHANGED <<cfg, at, result, path, dir, written, rows, report, cut, disk>>

\* Fault: rows of other modules are looked up as well.
ScrubRowAny ==
  /\ at = "scrub" /\ next \in DOMAIN written
  /\ LET src == written[next].src IN
     /\ exists' = IF src \in DOMAIN exists THEN exists
                  ELSE [f \in DOMAIN exists \cup {src} |-> IF f = src THEN f \in disk ELSE exists[f]]
     /\ kept' = IF exists'[src] THEN kept \cup {next} ELSE kept
  /\ next' = next + 1
  /\ UNCHANGED <<cfg, at, result, path, dir, written, rows, report, cut, disk>>

\* scrubCoverLines: a row is kept unless its file, looked up the first time, is missing.
ScrubRow ==
  /\ at = "scrub" /\ next \in DOMAIN written
  /\ LET src == written[next].src IN
     /\ exists' = IF src \in DOMAIN exists \cup {Outside} THEN exists
                  ELSE [f \in DOMAIN exists \cup {src} |-> IF f = src THEN f \in disk ELSE exists[f]]
     /\ kept' = IF src = Outside \/ exists'[src] THEN kept \cup {next} ELSE kept
  /\ next' = next + 1
  /\ UNCHANGED <<cfg, at, result, path, dir, written, rows, report, cut, disk>>

\* The profile is rewritten if rows were dropped; when that fails, which is logged and no
\* more, the file is as it was or holds part of what was to be written.
Rewrite ==
  /\ at = "scrub" /\ next \notin DOMAIN written
  /\ \/ rows' = (IF Missing = {} THEN rows ELSE kept) /\ UNCHANGED cut
     \/ /\ Missing # {}
        /\ rows' \in {rows} \cup {{k \in kept : k < n} : n \in DOMAIN written}
        /\ cut' = TRUE
  /\ Goes("report")
  /\ UNCHANGED <<cfg, path, dir, written, scrub, report, disk>>

\* `go tool cover -func' needs the files of all rows; the total may not be found in what it says.
Report ==
  /\ at = "report"
  /\ \/ Throws /\ UNCHANGED report
     \/ /\ \A k \in rows : written[k].src \in disk \cup {Outside}
        /\ report' \in {Percent(rows), NoTotal}
        /\ Goes("enforce")
  /\ UNCHANGED <<cfg, path, dir, written, rows, scrub, cut, disk>>

\* Fault: without a total there is nothing to enforce.
EnforceIfFound ==
  /\ at = "enforce"
  /\ IF cfg.threshold > 0 /\ report # NoTotal /\ report < cfg.threshold THEN Throws ELSE Goes("upload")
  /\ UNCHANGED <<cfg, path, dir, written, rows, scrub, report, cut, disk>>

enforceCoverageThreshold ==
  /\ at = "enforce"
  /\ IF cfg.threshold > 0 /\ (report = NoTotal \/ report < cfg.threshold) THEN Throws ELSE Goes("upload")
  /\ UNCHANGED <<cfg, path, dir, written, rows, scrub, report, cut, disk>>

\* Whether and how the upload ends makes no difference.
uploadCoverage ==
  /\ at = "upload"
  /\ Returns
  /\ UNCHANGED <<cfg, path, dir, written, rows, scrub, report, cut, disk>>

\* The deferred removal of the directory: a failure is logged.
Cleanup ==
  /\ at = "cleanup"
  /\ at' = "done"
  /\ dir' \in IF dir = "made" THEN {"none", "left"} ELSE {dir}
  /\ UNCHANGED <<cfg, result, path, written, rows, scrub, report, cut, disk>>

\* The files of the module are created and removed by others.
Edit ==
  /\ at # "done"
  /\ \E f \in Source : disk' \in {disk \cup {f}, disk \ {f}}
  /\ UNCHANGED <<cfg, at, result, path, dir, written, rows, scrub, report, cut>>

Step ==
  \/ Tasks \/ resolveCoverageFile \/ Test \/ Scrubs \/ ScrubRow \/ Rewrite
  \/ Report \/ enforceCoverageThreshold \/ uploadCoverage \/ Cleanup

Next == Step \/ Edit \/ (at = "done" /\ UNCHANGED vars)

Spec == Init /\ [][Next]_vars
-----------------------------------------------------------------------------
TypeOK ==
  /\ cfg \in Config
  /\ at \in {"tasks", "resolve", "test", "process", "scrub", "report", "enforce", "upload",
             "cleanup", "done"}
  /\ result \in {"running", "passed", "failed"}
  /\ path \in {"none", "temp", "callers"} /\ dir \in {"none", "made", "left"}
  /\ written \in Seq(Row) /\ rows \subseteq DOMAIN written
  /\ next \in 1..Len(written) + 1 /\ kept \subseteq 1..next - 1
  /\ exists \in UNION {[S -> BOOLEAN] : S \in SUBSET Source}
  /\ report \in Nat \cup {NoTotal} /\ cut \in BOOLEAN
  /\ disk \subseteq Source

\* What is left of the profile without the files that were found missing.
Surviving == {k \in DOMAIN written : written[k].src \notin Missing}

(***************************************************************************)
(* "Drops entries for files that no longer exist", and nothing else: a     *)
(* file loses all its rows or none, though it may come or go while they    *)
(* are looked at.                                                          *)
(***************************************************************************)
DropsWholeFiles ==
  at \in {"report", "enforce", "upload"} /\ ~cut => rows = Surviving

(***************************************************************************)
(* "When the caller supplied an explicit path, leave their file untouched":*)
(* it has all that go test wrote.                                          *)
(***************************************************************************)
CallersFileUntouched == path = "callers" => rows = DOMAIN written

(***************************************************************************)
(* CoverageThreshold "requires at least" that much "to pass": a task that  *)
(* has passed was measured, on all rows of files that were there, and      *)
(* reached it, to the tenth that is printed.  This holds if the temporary  *)
(* directory could be made and the profile rewritten.                      *)
(***************************************************************************)
PassIsEarned ==
  result = "passed" /\ cfg.threshold > 0 /\ path # "none" /\ ~cut =>
    report = Percent(Surviving) /\ report >= cfg.threshold

(***************************************************************************)
(* The temporary directory is removed however the task ends, or at least   *)
(* tried to.                                                               *)
(***************************************************************************)
CleansUp == at = "done" => dir # "made"
=============================================================================
