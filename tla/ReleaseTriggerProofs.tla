----------------------- MODULE ReleaseTriggerProofs -----------------------
(***************************************************************************)
(* Whatever the registry holds and whichever requests fail, for any number *)
(* of attempts and any depth: the call of GetChangelog keeps the promise   *)
(* of Changelog, falls back at once from what will not pass, and what is   *)
(* triggered is what the user has seen.                                    *)
(***************************************************************************)
EXTENDS ReleaseTrigger, TLAPS

(***************************************************************************)
(* TypeOK in parts, with what bounds the attempts.                         *)
(***************************************************************************)
Types ==
  /\ TypeOK
  /\ at = "sleep" => attempt < Attempts

(***************************************************************************)
(* What an attempt has found when it is where it is.                       *)
(***************************************************************************)
Found ==
  /\ at # "done" => answer = [source |-> "pending", version |-> None]
  /\ at \in {"version", "hit"} => artifact.notes = "text"
  /\ at = "generate" => ~Promise!Usable \/ trouble
  /\ DefinitiveFallsBack

(***************************************************************************)
(* An answer is what this call has written.                                *)
(***************************************************************************)
Written ==
  at = "done" /\ answer.source # "error" =>
    /\ files.changelog = answer.source
    /\ IF asked = None THEN files.version = answer.source ELSE answer.version = asked

(***************************************************************************)
(* The task is past GetChangelog only with an answer it can use, and       *)
(* triggers once, what was confirmed.                                      *)
(***************************************************************************)
Good ==
  /\ at = "done" /\ answer.source # "error"
  /\ asked = None => answer.version \notin {None, Unreleased}

Proceeds ==
  /\ task \in {"confirm", "trigger"} => Good /\ triggered = {}
  /\ task = "trigger" /\ asked = None => confirmed = answer.version
  /\ task = "changelog" => triggered = {}
  /\ triggered # {} => /\ Good /\ triggered = {answer.version}
                       /\ asked = None => confirmed = answer.version

-----------------------------------------------------------------------------
LEMMA InitEstablishes == TriggerInit => Types /\ Found /\ Written /\ Proceeds
  <1> SUFFICES ASSUME TriggerInit PROVE Types /\ Found /\ Written /\ Proceeds
    OBVIOUS
  <1> USE DEF TriggerInit, Init
  <1>1. files \in [changelog : Source, version : Source] /\ answer \in Answer
    BY DEF Source, Answer
  <1>2. artifact \in Artifact
    OBVIOUS
  <1>3. Types
    <2>1. attempt \in 1..Attempts /\ depth \in 0..MaxDepth
      BY CacheAssumption
    <2>. HIDE DEF TriggerInit, Init
    <2>2. /\ asked \in Versions \cup {None} /\ confirmed = None /\ triggered = {}
          /\ at = "setup" /\ last = "none" /\ trouble = FALSE /\ blocked = FALSE /\ task = "changelog"
      BY DEF TriggerInit, Init
    <2>. QED  BY <1>1, <1>2, <2>1, <2>2 DEF Types, TypeOK
  <1>4. Found /\ Written /\ Proceeds
    BY DEF Found, Written, Proceeds, DefinitiveFallsBack
  <1>. QED  BY <1>3, <1>4

\* A failed attempt, of whatever cause, leaves a state of the right types.
LEMMA AttemptFailsTypes ==
  ASSUME NEW e \in Failure, AttemptFails(e), Types, UNCHANGED taskVars
  PROVE  Types'
  BY CacheAssumption
     DEF AttemptFails, Types, TypeOK, isRetryable, registryVars, result, taskVars, Failure

\* Types is an invariant: attempts and depth stay within their bounds.
LEMMA TypesStep == Types /\ Written /\ Proceeds /\ [Next]_allVars => Types'
  <1> SUFFICES ASSUME Types, Written, Proceeds, [Next]_allVars PROVE Types'
    OBVIOUS
  <1> USE CacheAssumption DEF Types, TypeOK
  <1>1. CASE Changelog
    <2> UNCHANGED taskVars
      BY <1>1 DEF Changelog
    <2>1. CASE Setup
      BY <2>1 DEF Setup, registryVars, result, taskVars
    <2>2. CASE SetupFails
      BY <2>2 DEF SetupFails, registryVars, result, taskVars
    <2>3. CASE NoTool
      BY <2>3 DEF NoTool, Panics, Answer, registryVars, result, taskVars
    <2>4. CASE RequestFails
      BY <2>4, AttemptFailsTypes DEF RequestFails, Failure
    <2>5. CASE Authenticate
      BY <2>5 DEF Authenticate, Goes, registryVars, result, taskVars
    <2>6. CASE FollowIndex
      BY <2>6 DEF FollowIndex, registryVars, result, taskVars
    <2>7. CASE TooDeep
      BY <2>7, AttemptFailsTypes DEF TooDeep, Failure
    <2>8. CASE GetManifest
      <3>1. CASE Goes("markdown")
        BY <3>1 DEF Goes, registryVars, result, taskVars
      <3>2. CASE AttemptFails("miss")
        BY <3>2, AttemptFailsTypes DEF Failure
      <3>. QED  BY <2>8, <3>1, <3>2 DEF GetManifest
    <2>9. CASE GetMarkdown
      <3>1. CASE Goes(IF artifact.layer THEN "version" ELSE "hit")
        BY <3>1 DEF Goes, registryVars, result, taskVars
      <3>2. CASE AttemptFails("miss")
        BY <3>2, AttemptFailsTypes DEF Failure
      <3>. QED  BY <2>9, <3>1, <3>2 DEF GetMarkdown
    <2>10. CASE GetVersion
      BY <2>10 DEF GetVersion, Goes, registryVars, result, taskVars
    <2>11. CASE Sleep
      BY <2>11 DEF Sleep, registryVars, result, taskVars
    <2>12. CASE LacksVersion
      BY <2>12 DEF LacksVersion, Goes, registryVars, result, taskVars
    <2>13. CASE UseCache
      <3>1. files' \in [changelog : Source, version : Source]
        BY <2>13 DEF UseCache, Source
      <3>2. (IF asked # None THEN asked ELSE artifact.version) \in Versions \cup {None}
        BY DEF Artifact
      <3>3. answer' \in Answer
        BY <2>13, <3>2 DEF UseCache, Answer
      <3>. QED  BY <2>13, <3>1, <3>3 DEF UseCache, registryVars, taskVars
    <2>14. CASE WriteFails
      BY <2>14 DEF WriteFails, Panics, Source, Answer, registryVars, taskVars
    <2>15. CASE Generate
      BY <2>15 DEF Generate, Source, Answer, registryVars, taskVars
    <2>16. CASE GenerateFails
      BY <2>16 DEF GenerateFails, Panics, Source, Answer, registryVars, taskVars
    <2>. QED
      BY <1>1, <2>1, <2>2, <2>3, <2>4, <2>5, <2>6, <2>7, <2>8, <2>9, <2>10, <2>11, <2>12, <2>13,
         <2>14, <2>15, <2>16 DEF Changelog, Step, Fetch
  <1>2. CASE Returned
    BY <1>2 DEF Returned, vars
  <1>3. CASE Confirm
    BY <1>3 DEF Confirm, vars, Answer
  <1>4. CASE Trigger
    <2>1. answer.version \in Versions
      BY <1>4, UnreleasedAssumption DEF Trigger, Proceeds, Good, Written, Answer
    <2>. QED  BY <1>4, <2>1 DEF Trigger, vars
  <1>5. CASE UNCHANGED allVars
    BY <1>5 DEF allVars, vars, taskVars
  <1>. QED  BY <1>1, <1>2, <1>3, <1>4, <1>5 DEF Next, TaskStep, Finished

-----------------------------------------------------------------------------
\* A failed attempt falls back at once from what will not pass, and has cause to
\* when it falls back.
LEMMA AttemptFailsFound ==
  ASSUME NEW e \in Failure, AttemptFails(e), Found, at \notin {"sleep", "done"},
         e = "miss" => ~Promise!Usable
  PROVE  Found'
  BY DEF AttemptFails, Found, DefinitiveFallsBack, isRetryable, registryVars, result, Failure,
         Promise!Usable

\* Found is an invariant.
LEMMA FoundStep == Types /\ Found /\ [Next]_allVars => Found'
  <1> SUFFICES ASSUME Types, Found, [Next]_allVars PROVE Found'
    OBVIOUS
  <1>1. CASE Changelog
    <2> UNCHANGED taskVars
      BY <1>1 DEF Changelog
    <2>1. CASE RequestFails \/ TooDeep
      BY <2>1, AttemptFailsFound DEF RequestFails, TooDeep, Failure
    <2>2. CASE GetManifest
      <3>1. CASE Goes("markdown")
        BY <2>2, <3>1 DEF GetManifest, Goes, Found, DefinitiveFallsBack, registryVars, result
      <3>2. CASE artifact.notes = "no layer" /\ AttemptFails("miss")
        BY <2>2, <3>2, AttemptFailsFound DEF GetManifest, Failure, Promise!Usable
      <3>. QED  BY <2>2, <3>1, <3>2 DEF GetManifest
    <2>3. CASE GetMarkdown
      <3>1. CASE artifact.notes = "text" /\ Goes(IF artifact.layer THEN "version" ELSE "hit")
        BY <2>3, <3>1 DEF GetMarkdown, Goes, Found, DefinitiveFallsBack, registryVars, result
      <3>2. CASE artifact.notes = "empty" /\ AttemptFails("miss")
        BY <2>3, <3>2, AttemptFailsFound DEF GetMarkdown, Failure, Promise!Usable
      <3>. QED  BY <2>3, <3>1, <3>2 DEF GetMarkdown
    <2>4. CASE Setup \/ SetupFails \/ Authenticate \/ FollowIndex \/ GetVersion \/ Sleep
      BY <2>4 DEF Setup, SetupFails, Authenticate, FollowIndex, GetVersion, Sleep, Goes, Found,
                  DefinitiveFallsBack, registryVars, result
    <2>5. CASE LacksVersion
      BY <2>5 DEF LacksVersion, Goes, Found, DefinitiveFallsBack, registryVars, result,
                  Promise!Usable
    <2>6. CASE NoTool \/ UseCache \/ WriteFails \/ Generate \/ GenerateFails
      BY <2>6 DEF NoTool, UseCache, WriteFails, Generate, GenerateFails, Panics, Found,
                  DefinitiveFallsBack, registryVars
    <2>. QED
      BY <1>1, <2>1, <2>2, <2>3, <2>4, <2>5, <2>6 DEF Changelog, Step, Fetch
  <1>2. CASE UNCHANGED vars
    BY <1>2 DEF vars, Found, DefinitiveFallsBack, Promise!Usable
  <1>. QED
    BY <1>1, <1>2 DEF Next, TaskStep, Finished, Returned, Confirm, Trigger, allVars

\* Written is an invariant: both files are written before there is an answer.
LEMMA WrittenStep == Types /\ Found /\ Written /\ [Next]_allVars => Written'
  <1> SUFFICES ASSUME Types, Found, Written, [Next]_allVars PROVE Written'
    OBVIOUS
  <1>1. CASE Changelog
    <2>1. CASE at' # "done"
      BY <2>1 DEF Written
    <2>2. CASE UseCache
      BY <2>2 DEF UseCache, Written, registryVars
    <2>3. CASE Generate
      BY <2>3 DEF Generate, Written, registryVars
    <2>4. CASE NoTool \/ WriteFails \/ GenerateFails
      <3>1. answer'.source = "error"
        BY <2>4 DEF NoTool, WriteFails, GenerateFails, Panics, Found
      <3>. QED  BY <3>1 DEF Written
    <2>5. CASE (Fetch /\ ~NoTool) \/ LacksVersion
      BY <2>5 DEF Fetch, Setup, SetupFails, RequestFails, AttemptFails, Authenticate, FollowIndex,
                  TooDeep, GetManifest, GetMarkdown, GetVersion, Sleep, LacksVersion, Goes, Written
    <2>. QED  BY <1>1, <2>2, <2>3, <2>4, <2>5 DEF Changelog, Step
  <1>2. CASE UNCHANGED vars
    BY <1>2 DEF vars, Written
  <1>. QED
    BY <1>1, <1>2 DEF Next, TaskStep, Finished, Returned, Confirm, Trigger, allVars

\* Proceeds is an invariant.
LEMMA ProceedsStep == Types /\ Written /\ Proceeds /\ [Next]_allVars => Proceeds'
  <1> SUFFICES ASSUME Types, Written, Proceeds, [Next]_allVars PROVE Proceeds'
    OBVIOUS
  <1>1. CASE Changelog
    BY <1>1 DEF Changelog, Proceeds, Good, taskVars
  <1>2. CASE Returned
    BY <1>2 DEF Returned, Proceeds, Good, Written, vars, Types, TypeOK
  <1>3. CASE Confirm
    BY <1>3 DEF Confirm, Proceeds, Good, vars
  <1>4. CASE Trigger
    BY <1>4 DEF Trigger, Proceeds, Good, vars
  <1>5. CASE UNCHANGED allVars
    BY <1>5 DEF allVars, vars, taskVars, Proceeds, Good
  <1>. QED  BY <1>1, <1>2, <1>3, <1>4, <1>5 DEF Next, TaskStep, Finished

IInv == Types /\ Found /\ Written /\ Proceeds

LEMMA Invariance == Spec => []IInv
  <1>1. TriggerInit => IInv
    BY InitEstablishes DEF IInv
  <1>2. IInv /\ [Next]_allVars => IInv'
    BY TypesStep, FoundStep, WrittenStep, ProceedsStep DEF IInv
  <1>. QED  BY <1>1, <1>2, PTL DEF Spec
-----------------------------------------------------------------------------
(***************************************************************************)
(* The state has its types: an attempt is never made beyond the last, nor  *)
(* an index followed beyond the depth allowed.                             *)
(***************************************************************************)
THEOREM Typed == Spec => []TypeOK
  <1>1. IInv => TypeOK
    BY DEF IInv, Types
  <1>. QED  BY <1>1, Invariance, PTL

(***************************************************************************)
(* "definitive client responses ... and structural misses" fall back with  *)
(* no further request (isRetryable).                                       *)
(***************************************************************************)
THEOREM NoUselessRetry == Spec => []DefinitiveFallsBack
  <1>1. IInv => DefinitiveFallsBack
    BY DEF IInv, Found
  <1>. QED  BY <1>1, Invariance, PTL

(***************************************************************************)
(* What is triggered or published is what this call has written and, by    *)
(* the task release, what the user has confirmed.                          *)
(***************************************************************************)
THEOREM TriggersWhatWasShown == Spec => []TriggeredAsShown
  <1>1. IInv => TriggeredAsShown
    BY DEF IInv, Written, Proceeds, Good, TriggeredAsShown
  <1>. QED  BY <1>1, Invariance, PTL

(***************************************************************************)
(* GetChangelog keeps its promise: every step of it is a step of Changelog *)
(* or changes nothing Changelog speaks of.                                 *)
(***************************************************************************)
THEOREM KeepsItsPromise == Spec => ImplementsChangelog
  <1>1. TriggerInit => Promise!Init
    BY DEF TriggerInit, Init, Promise!Init, Promise!Pending
  <1>2. IInv /\ [Next]_allVars => [Promise!Next]_(Promise!vars)
    <2> SUFFICES ASSUME IInv, Next PROVE [Promise!Next]_(Promise!vars)
      BY DEF allVars, vars, Promise!vars
    <2> USE DEF Promise!vars, Promise!Pending
    <2>1. CASE UNCHANGED vars
      BY <2>1 DEF vars
    <2>2. CASE (Fetch /\ ~NoTool) \/ LacksVersion
      <3>1. answer = Promise!Pending
        BY <2>2 DEF IInv, Found, Fetch, Setup, SetupFails, RequestFails, AttemptFails, Authenticate,
                    FollowIndex, TooDeep, GetManifest, GetMarkdown, GetVersion, Sleep, LacksVersion
      <3>2. UNCHANGED <<asked, artifact, blocked, answer>> /\ trouble' \in {trouble, TRUE}
        BY <2>2 DEF IInv, Types, TypeOK, Fetch, Setup, SetupFails, RequestFails, AttemptFails,
                    Authenticate, FollowIndex, TooDeep, GetManifest, GetMarkdown, GetVersion, Sleep,
                    LacksVersion, Goes, registryVars, result
      <3>. QED  BY <3>1, <3>2 DEF Promise!Next, Promise!Disturb
    <2>3. CASE UseCache
      BY <2>3 DEF IInv, Found, UseCache, Promise!Next, Promise!UseCache, Promise!Usable, registryVars
    <2>4. CASE Generate
      BY <2>4 DEF IInv, Found, Generate, Promise!Next, Promise!Generate, registryVars
    <2>5. CASE NoTool \/ WriteFails \/ GenerateFails
      BY <2>5 DEF IInv, Found, NoTool, WriteFails, GenerateFails, Panics, Promise!Next, Promise!Fail,
                  registryVars
    <2>. QED
      BY <2>1, <2>2, <2>3, <2>4, <2>5
         DEF Next, TaskStep, Finished, Changelog, Step, Returned, Confirm, Trigger, allVars
  <1>. QED  BY <1>1, <1>2, Invariance, PTL DEF Spec, ImplementsChangelog, Promise!Spec
=============================================================================
