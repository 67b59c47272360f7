--------------------------- MODULE CoverageProofs ---------------------------
(***************************************************************************)
(* For any files, profiles and thresholds, and whatever happens to the     *)
(* files meanwhile: what passes was measured on the rows of whole files.   *)
(***************************************************************************)
EXTENDS Coverage, FiniteSetTheorems, TLAPS

Looked(k) == written[k].src \in DOMAIN exists \cup {Outside}

Keeps(k) == written[k].src = Outside \/ exists[written[k].src]

Typed ==
  /\ written \in Seq(Row) /\ rows \subseteq DOMAIN written
  /\ next \in 1..Len(written) + 1
  /\ exists \in UNION {[S -> BOOLEAN] : S \in SUBSET Source}
  /\ cfg \in Config /\ cut \in BOOLEAN /\ dir \in {"none", "made", "left"}

\* Before the profile is there, and before it is looked at.
Untouched ==
  at \in {"tasks", "resolve", "test", "process"} =>
    /\ exists = <<>> /\ next = 1 /\ kept = {} /\ ~cut
    /\ rows = DOMAIN written

\* The rows passed so far are kept if their files were found.
Scrubbing ==
  at = "scrub" =>
    /\ rows = DOMAIN written /\ ~cut
    /\ \A k \in 1..next - 1 : Looked(k)
    /\ kept = {k \in 1..next - 1 : Keeps(k)}

Passing == at \in {"report", "enforce", "upload"} \/ (result = "passed" /\ path # "none")

Ended == at \in {"cleanup", "done"}

IInv ==
  /\ Typed
  /\ Untouched
  /\ Scrubbing
  /\ Passing /\ ~cut => rows = Surviving
  /\ at \in {"enforce", "upload"} => report \in {Percent(rows), NoTotal}
  /\ (at = "upload" \/ (result = "passed" /\ path # "none")) /\ cfg.threshold > 0 =>
       report = Percent(rows) /\ report >= cfg.threshold
  /\ path = "callers" => at # "scrub" /\ rows = DOMAIN written
  /\ at \in {"process", "scrub", "report", "enforce", "upload"} => path # "none"
  /\ ~Ended => result = "running"
  /\ CleansUp
-----------------------------------------------------------------------------
LEMMA InitInv == Init => IInv
  <1> SUFFICES ASSUME Init PROVE IInv
    OBVIOUS
  <1>1. Typed
    <2>1. exists \in UNION {[S -> BOOLEAN] : S \in SUBSET Source}
      <3>1. exists \in [{} -> BOOLEAN]
        BY DEF Init
      <3>. QED  BY <3>1
    <2>2. written \in Seq(Row) /\ Len(written) = 0 /\ DOMAIN written = {}
      BY DEF Init
    <2>3. rows \subseteq DOMAIN written /\ next \in 1..Len(written) + 1
      BY <2>2 DEF Init
    <2>. QED  BY <2>1, <2>2, <2>3 DEF Init, Typed
  <1>. QED  BY <1>1 DEF Init, IInv, Untouched, Scrubbing, Passing, Ended, CleansUp

LEMMA EditStep == ASSUME IInv, Edit PROVE IInv'
  BY DEF IInv, Edit, Typed, Untouched, Scrubbing, Passing, Ended, CleansUp, Looked, Keeps,
         Surviving, Missing, Percent, scrub

\* A share of a finite set of rows is a natural number of tenths.
LEMMA PercentType == ASSUME Typed PROVE Percent(rows) \in Nat
  <1>1. IsFiniteSet(rows)
    <2>1. DOMAIN written = 1..Len(written) /\ Len(written) \in Nat
      BY DEF Typed
    <2>2. IsFiniteSet(1..Len(written))
      BY <2>1, FS_Interval
    <2>3. rows \in SUBSET (1..Len(written))
      BY <2>1 DEF Typed
    <2>. QED  BY <2>2, <2>3, FS_Subset
  <1>2. Cardinality(rows) \in Nat /\ (rows # {} => Cardinality(rows) # 0)
    BY <1>1, FS_CardinalityType, FS_EmptySet
  <1>3. Cardinality({k \in rows : written[k].hit}) \in Nat
    BY <1>1, FS_Subset, FS_CardinalityType
  <1>4. ASSUME NEW a \in Nat, NEW m \in Nat, m > 0 PROVE a \div m \in Nat
    BY <1>4, Z3
  <1>5. CASE rows = {}
    BY <1>5 DEF Percent
  <1>6. CASE rows # {}
    <2> DEFINE n == Cardinality(rows)
               a == 2000 * Cardinality({k \in rows : written[k].hit}) + n
    <2>1. a \in Nat /\ 2 * n \in Nat /\ 2 * n > 0
      BY <1>2, <1>3, <1>6
    <2>2. a \div (2 * n) \in Nat
      <3> HIDE DEF a, n
      <3>. QED  BY <2>1, <1>4
    <2>. QED  BY <1>6, <2>2 DEF Percent
  <1>. QED  BY <1>5, <1>6

\* Most steps leave the profile and what is known of its files alone.
LEMMA Same ==
  ASSUME UNCHANGED <<cfg, written, rows, scrub, cut>>
  PROVE  /\ UNCHANGED <<cfg, written, rows, next, exists, kept, cut, Surviving, Percent(rows)>>
         /\ Typed /\ dir' \in {"none", "made", "left"} => Typed'
         /\ Scrubbing /\ UNCHANGED at => Scrubbing'
  BY DEF scrub, Surviving, Missing, Percent, Typed, Scrubbing, Looked, Keeps

\* Steps up to the profile, and those that end the task.
LEMMA TasksStep == ASSUME IInv, Tasks PROVE IInv'
  <1>1. Typed' /\ Scrubbing'
    BY Same DEF IInv, Tasks, Throws, Goes, Scrubbing, Typed
  <1>. QED
    BY <1>1, Same DEF IInv, Tasks, Throws, Goes, Untouched, Passing, Ended, CleansUp

LEMMA ResolveStep == ASSUME IInv, resolveCoverageFile PROVE IInv'
  <1>1. UNCHANGED <<cfg, written, rows, scrub, cut, result>> /\ at' = "test"
        /\ dir' \in {"none", "made", "left"}
    BY DEF IInv, resolveCoverageFile, Goes, Typed
  <1>2. Typed' /\ Scrubbing'
    BY <1>1, Same DEF IInv, Scrubbing
  <1>. QED
    BY <1>1, <1>2, Same DEF IInv, resolveCoverageFile, Untouched, Passing, Ended, CleansUp

LEMMA UploadStep == ASSUME IInv, uploadCoverage PROVE IInv'
  <1>1. Typed' /\ Scrubbing'
    BY Same DEF IInv, uploadCoverage, Returns, Scrubbing, Typed
  <1>. QED
    BY <1>1, Same DEF IInv, uploadCoverage, Returns, Untouched, Passing, Ended, CleansUp

LEMMA CleanupStep == ASSUME IInv, Cleanup PROVE IInv'
  <1>1. Typed' /\ Scrubbing'
    <2>1. dir' \in {"none", "made", "left"}
      BY DEF IInv, Cleanup, Typed
    <2>. QED  BY <2>1, Same DEF IInv, Cleanup, Scrubbing
  <1>. QED
    BY <1>1, Same DEF IInv, Cleanup, Untouched, Passing, Ended, CleansUp, Typed

LEMMA TestStep == ASSUME IInv, Test PROVE IInv'
  <1>1. CASE UNCHANGED <<written, rows>> /\ (Throws \/ (path = "none" /\ Returns))
    <2>1. Typed' /\ Scrubbing'
      BY <1>1, Same DEF IInv, Test, Throws, Returns, Scrubbing, Typed
    <2>. QED
      BY <1>1, <2>1, Same DEF IInv, Test, Throws, Returns, Untouched, Passing, Ended, CleansUp
  <1>2. CASE /\ path # "none" /\ Goes("process")
             /\ written' \in UNION {[1..n -> Row] : n \in 0..MaxRows}
             /\ rows' = DOMAIN written'
    <2>1. written' \in Seq(Row) /\ DOMAIN written' = 1..Len(written') /\ Len(written') \in Nat
      <3>1. PICK n \in 0..MaxRows : written' \in [1..n -> Row]
        BY <1>2
      <3>2. n \in Nat
        BY CoverageAssumption DEF CoverageAssumption
      <3>. QED  BY <3>1, <3>2
    <2>2. next = 1 /\ UNCHANGED <<cfg, dir, next, exists, kept, cut, path>> /\ at' = "process"
      BY <1>2 DEF IInv, Test, Goes, Untouched, scrub
    <2>3. Typed'
      BY <1>2, <2>1, <2>2 DEF IInv, Typed
    <2>4. Untouched'
      BY <1>2, <2>2 DEF IInv, Test, Untouched
    <2>. QED  BY <1>2, <2>2, <2>3, <2>4 DEF IInv, Test, Goes, Scrubbing, Passing, Ended, CleansUp
  <1>3. \/ UNCHANGED <<written, rows>> /\ (Throws \/ (path = "none" /\ Returns))
        \/ /\ path # "none" /\ Goes("process")
           /\ written' \in UNION {[1..n -> Row] : n \in 0..MaxRows}
           /\ rows' = DOMAIN written'
    BY DEF Test
  <1>. QED  BY <1>1, <1>2, <1>3, Zenon

LEMMA ScrubsStep == ASSUME IInv, Scrubs PROVE IInv'
  <1>1. exists = <<>> /\ next = 1 /\ kept = {} /\ ~cut /\ rows = DOMAIN written
    BY DEF IInv, Scrubs, Untouched
  <1>2. Surviving = rows
    <2>1. DOMAIN exists = {}
      BY <1>1
    <2>2. Missing = {}
      BY <2>1 DEF Missing
    <2>. QED  BY <1>1, <2>2 DEF Surviving
  <1>3. Typed'
    BY Same DEF IInv, Scrubs, Throws, Goes, Typed
  <1>4. Scrubbing'
    <2>1. 1..next - 1 = {}
      BY <1>1
    <2>2. UNCHANGED <<written, rows, next, exists, kept, cut>>
      BY DEF Scrubs, scrub
    <2>. QED  BY <1>1, <2>1, <2>2 DEF Scrubbing
  <1>. QED
    BY <1>1, <1>2, <1>3, <1>4, Same DEF IInv, Scrubs, Throws, Goes, Untouched, Passing, Ended, CleansUp

LEMMA RewriteStep == ASSUME IInv, Rewrite PROVE IInv'
  <1>1. next = Len(written) + 1 /\ DOMAIN written = 1..next - 1
    BY DEF IInv, Rewrite, Typed
  <1>2. kept = Surviving
    <2>1. ASSUME NEW k \in DOMAIN written PROVE Keeps(k) <=> written[k].src \notin Missing
      <3>1. Looked(k)
        BY <1>1 DEF IInv, Rewrite, Scrubbing
      <3>2. Outside \notin DOMAIN exists
        BY CoverageAssumption DEF IInv, Typed, CoverageAssumption
      <3>. QED  BY <3>1, <3>2 DEF Looked, Keeps, Missing
    <2>. QED  BY <1>1, <2>1 DEF IInv, Rewrite, Scrubbing, Surviving
  <1>3. Missing = {} => Surviving = DOMAIN written
    BY DEF Surviving
  <1>4. UNCHANGED <<cfg, dir, path, written, next, exists, kept, result, Surviving>> /\ at' = "report"
    BY DEF Rewrite, Goes, scrub, Surviving, Missing
  <1>5. cut' \in BOOLEAN /\ rows' \subseteq DOMAIN written /\ (~cut' => rows' = Surviving)
    BY <1>1, <1>2, <1>3 DEF IInv, Rewrite, Scrubbing, Surviving, Typed
  <1>6. Typed'
    BY <1>4, <1>5 DEF IInv, Typed
  <1>. QED
    BY <1>4, <1>5, <1>6 DEF IInv, Rewrite, Untouched, Scrubbing, Passing, Ended, CleansUp

LEMMA ScrubRowStep == ASSUME IInv, ScrubRow PROVE IInv'
  <1>0. PICK i \in Nat : i = next
    BY DEF IInv, Typed
  <1> DEFINE src == written[i].src
  <1>1. at = "scrub" /\ i \in 1..Len(written) /\ DOMAIN written = 1..Len(written)
        /\ Len(written) \in Nat
    BY <1>0 DEF IInv, ScrubRow, Typed
  <1>2. UNCHANGED <<cfg, at, result, path, dir, written, rows, cut>> /\ next' = i + 1
    BY <1>0 DEF ScrubRow
  <1>3. src \in Source \cup {Outside} /\ Outside \notin Source
    <2>1. written[i] \in Row
      BY <1>1 DEF IInv, Typed
    <2>. QED  BY <2>1, CoverageAssumption DEF Row, CoverageAssumption
  <1>4. PICK S \in SUBSET Source : exists \in [S -> BOOLEAN]
    BY DEF IInv, Typed
  <1>5. /\ exists' \in UNION {[T -> BOOLEAN] : T \in SUBSET Source}
        /\ DOMAIN exists' = IF src = Outside THEN S ELSE S \cup {src}
        /\ \A f \in S : exists'[f] = exists[f]
    <2>1. CASE src \in S \cup {Outside}
      BY <1>3, <1>4, <2>1, <1>0 DEF ScrubRow
    <2>2. CASE src \notin S \cup {Outside}
      <3>1. exists' = [f \in S \cup {src} |-> IF f = src THEN f \in disk ELSE exists[f]]
        <4>1. src \notin DOMAIN exists \cup {Outside} /\ DOMAIN exists = S
          BY <1>4, <2>2
        <4>. QED  BY <1>0, <4>1 DEF ScrubRow
      <3>2. src \in Source /\ S \cup {src} \in SUBSET Source
        BY <1>3, <2>2
      <3>3. \A f \in S \cup {src} : (IF f = src THEN f \in disk ELSE exists[f]) \in BOOLEAN
        <4>1. \A f \in S : exists[f] \in BOOLEAN
          BY <1>4
        <4>2. ASSUME NEW f \in S \cup {src}
              PROVE  (IF f = src THEN f \in disk ELSE exists[f]) \in BOOLEAN
          <5>1. CASE f = src
            <6>1. (f \in disk) \in BOOLEAN
              OBVIOUS
            <6>. QED  BY <5>1, <6>1, Zenon
          <5>2. CASE f # src
            BY <4>1, <5>2, Zenon
          <5>. QED  BY <5>1, <5>2, Zenon
        <4>. QED  BY <4>2, Zenon
      <3>4. exists' \in [S \cup {src} -> BOOLEAN]
        BY <3>1, <3>3, Zenon
      <3>. QED  BY <1>4, <2>2, <3>1, <3>2, <3>4
    <2>. QED  BY <2>1, <2>2
  <1>6. Typed'
    <2>1. next' \in 1..Len(written') + 1
      BY <1>1, <1>2
    <2>. QED  BY <1>2, <1>5, <2>1 DEF IInv, Typed
  <1>7. \A k \in 1..next' - 1 : k = i \/ k \in 1..i - 1
    BY <1>1, <1>2
  <1>8. \A k \in 1..i - 1 : Looked(k)' /\ (Keeps(k)' <=> Keeps(k))
    <2>1. \A k \in 1..i - 1 : Looked(k)
      BY <1>0, <1>1 DEF IInv, Scrubbing
    <2>. QED  BY <1>2, <1>4, <1>5, <2>1 DEF Looked, Keeps
  <1>9. Looked(i)' /\ kept' = IF Keeps(i)' THEN kept \cup {i} ELSE kept
    BY <1>0, <1>1, <1>2, <1>3, <1>4, <1>5 DEF ScrubRow, Looked, Keeps
  <1>10. Scrubbing'
    <2>1. kept = {k \in 1..i - 1 : Keeps(k)}
      BY <1>0, <1>1 DEF IInv, Scrubbing
    <2>2. 1..next' - 1 = (1..i - 1) \cup {i}
      BY <1>1, <1>2
    <2>3. kept' = {k \in 1..next' - 1 : Keeps(k)'}
      BY <1>8, <1>9, <2>1, <2>2
    <2>4. \A k \in 1..next' - 1 : Looked(k)'
      BY <1>8, <1>9, <2>2
    <2>. QED  BY <1>1, <1>2, <2>3, <2>4 DEF IInv, Scrubbing
  <1>. QED
    BY <1>1, <1>2, <1>6, <1>10 DEF IInv, Untouched, Passing, Ended, CleansUp

LEMMA ReportStep == ASSUME IInv, Report PROVE IInv'
  <1>1. Typed' /\ Scrubbing'
    BY Same DEF IInv, Report, Throws, Goes, Scrubbing, Typed
  <1>. QED
    BY <1>1, Same DEF IInv, Report, Throws, Goes, Untouched, Passing, Ended, CleansUp

LEMMA EnforceStep == ASSUME IInv, enforceCoverageThreshold PROVE IInv'
  <1>1. Percent(rows) \in Nat /\ cfg.threshold \in Nat
    BY PercentType, CoverageAssumption DEF IInv, Typed, Config, CoverageAssumption
  <1>2. UNCHANGED Percent(rows)
    BY DEF enforceCoverageThreshold, Percent
  <1>3. UNCHANGED Surviving
    BY DEF enforceCoverageThreshold, Surviving, Missing, scrub
  <1>4. at' = "upload" /\ cfg.threshold > 0 => report = Percent(rows) /\ report >= cfg.threshold
    BY <1>1 DEF IInv, enforceCoverageThreshold, Throws, Goes, NoTotal
  <1>. QED
    BY <1>2, <1>3, <1>4 DEF IInv, enforceCoverageThreshold, Throws, Goes, Typed, Untouched, Scrubbing,
         Passing, Ended, CleansUp, scrub

LEMMA Invariance == Spec => []IInv
  <1>1. IInv /\ [Next]_vars => IInv'
    <2> SUFFICES ASSUME IInv, [Next]_vars PROVE IInv'
      OBVIOUS
    <2>1. CASE UNCHANGED vars
      <3>1. Typed' /\ Scrubbing'
        BY <2>1, Same DEF vars, IInv, Typed
      <3>. QED  BY <2>1, <3>1, Same DEF vars, IInv, Untouched, Passing, Ended, CleansUp
    <2>2. CASE Next
      BY <2>1, <2>2, TasksStep, ResolveStep, TestStep, ScrubsStep, ScrubRowStep, RewriteStep,
         ReportStep, EnforceStep, UploadStep, CleanupStep, EditStep DEF Next, Step
    <2>. QED  BY <2>1, <2>2
  <1>. QED  BY InitInv, <1>1, PTL DEF Spec
-----------------------------------------------------------------------------
(***************************************************************************)
(* Where the task, its file and the loop over the rows may be: the rows    *)
(* kept have been passed, and a report is a number or lacks its total.     *)
(***************************************************************************)
THEOREM TypeCorrect == Spec => []TypeOK
  <1> DEFINE Places ==
        /\ at \in {"tasks", "resolve", "test", "process", "scrub", "report", "enforce", "upload",
                  "cleanup", "done"}
        /\ result \in {"running", "passed", "failed"} /\ path \in {"none", "temp", "callers"}
        /\ kept \subseteq 1..next - 1 /\ report \in Nat \cup {NoTotal} /\ disk \subseteq Source
  <1>1. Init => Places
    BY DEF Init, NoTotal
  <1>2. IInv /\ Places /\ [Next]_vars => Places'
    <2> SUFFICES ASSUME IInv, Places, [Next]_vars PROVE Places'
      OBVIOUS
    <2>1. next \in Nat
      BY DEF IInv, Typed
    <2>2. CASE ScrubRow
      <3>1. kept' \subseteq kept \cup {next} /\ next' = next + 1
        BY <2>2 DEF ScrubRow
      <3>2. UNCHANGED <<at, result, path, report, disk>> /\ next \in 1..Len(written)
        BY <2>2 DEF ScrubRow, IInv, Typed
      <3>. QED  BY <2>1, <3>1, <3>2
    <2>3. CASE Report
      BY <2>3, PercentType DEF Report, Throws, Goes, scrub, IInv
    <2>4. CASE Edit
      BY <2>4 DEF Edit, scrub
    <2>5. CASE Tasks \/ resolveCoverageFile \/ Test \/ Scrubs \/ Rewrite
      BY <2>5 DEF Tasks, resolveCoverageFile, Test, Scrubs, Rewrite, Throws, Returns, Goes, scrub
    <2>6. CASE enforceCoverageThreshold \/ uploadCoverage \/ Cleanup
      BY <2>6 DEF enforceCoverageThreshold, uploadCoverage, Cleanup, Throws, Returns, Goes, scrub
    <2>7. CASE UNCHANGED vars
      BY <2>7 DEF vars, scrub
    <2>. QED  BY <2>2, <2>3, <2>4, <2>5, <2>6, <2>7 DEF Next, Step
  <1>3. IInv /\ Places => TypeOK
    BY DEF IInv, Typed, TypeOK
  <1>. HIDE DEF Places
  <1>. QED  BY <1>1, <1>2, <1>3, Invariance, PTL DEF Spec

(***************************************************************************)
(* A scrubbed profile has lost all rows of the files found missing, and no *)
(* other, whatever happens to the files meanwhile.                         *)
(***************************************************************************)
THEOREM WholeFilesAreDropped == Spec => []DropsWholeFiles
  <1>1. IInv => DropsWholeFiles
    BY DEF IInv, DropsWholeFiles, Passing
  <1>. QED  BY <1>1, Invariance, PTL

(***************************************************************************)
(* A coverage file the caller named has all that go test wrote.            *)
(***************************************************************************)
THEOREM CallersFileIsKept == Spec => []CallersFileUntouched
  <1>1. IInv => CallersFileUntouched
    BY DEF IInv, CallersFileUntouched
  <1>. QED  BY <1>1, Invariance, PTL

(***************************************************************************)
(* A task with a threshold that has passed was measured and reached it,    *)
(* for any files, profile and threshold.                                   *)
(***************************************************************************)
THEOREM PassesAreEarned == Spec => []PassIsEarned
  <1>1. IInv => PassIsEarned
    BY DEF IInv, PassIsEarned, Passing
  <1>. QED  BY <1>1, Invariance, PTL

(***************************************************************************)
(* However a task ends, it has tried to remove its temporary directory.    *)
(***************************************************************************)
THEOREM TemporaryIsRemoved == Spec => []CleansUp
  <1>1. IInv => CleansUp
    BY DEF IInv
  <1>. QED  BY <1>1, Invariance, PTL
=============================================================================
