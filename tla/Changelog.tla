----------------------------- MODULE Changelog -----------------------------
(***************************************************************************)
(* What GetChangelog promises (tasks/release/changelog_cache.go): the      *)
(* release notes published for the commit if they can be had and are       *)
(* usable, or else notes generated here; an error only when generating, or *)
(* something beside the cache, fails.                                      *)
(***************************************************************************)
CONSTANTS
  None,      \* no changelog, no version
  Versions   \* the versions a changelog may be for

VARIABLES
  asked,     \* the version the caller knows, or None
  artifact,  \* what the cache holds for the commit
  trouble,   \* a request to the cache has failed, or could not be made
  blocked,   \* something beside the cache has failed
  answer     \* what GetChangelog answered

vars == <<asked, artifact, trouble, blocked, answer>>

\* The version layer may be missing when the caller knows the version.
Usable == artifact.notes = "text" /\ (asked # None \/ artifact.version # None)

Pending == [source |-> "pending", version |-> None]

Init ==
  /\ answer = Pending
  /\ trouble = FALSE
  /\ blocked = FALSE

Disturb ==
  /\ answer = Pending
  /\ trouble' \in {trouble, TRUE} /\ blocked' \in {blocked, TRUE}
  /\ UNCHANGED <<asked, artifact, answer>>

UseCache ==
  /\ answer = Pending
  /\ Usable
  /\ answer' = [source |-> "cache", version |-> IF asked # None THEN asked ELSE artifact.version]
  /\ UNCHANGED <<asked, artifact, trouble, blocked>>

Generate ==
  /\ answer = Pending
  /\ ~Usable \/ trouble
  /\ \E v \in Versions \cup {None} :
       /\ asked # None => v = asked
       /\ answer' = [source |-> "chronicle", version |-> v]
  /\ UNCHANGED <<asked, artifact, trouble, blocked>>

Fail ==
  /\ answer = Pending
  /\ blocked'
  /\ answer' = [source |-> "error", version |-> None]
  /\ UNCHANGED <<asked, artifact, trouble>>

Next == Disturb \/ UseCache \/ Generate \/ Fail

Spec == Init /\ [][Next]_vars
=============================================================================
