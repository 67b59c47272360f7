--------------------------- MODULE ReleaseProofs ---------------------------
(***************************************************************************)
(* For any number of jobs, attempts and faults, and any configuration: the *)
(* attempt that creates the GitHub release is the one whose tag is on the  *)
(* remote; the configuration is restored, the credentials are confined and *)
(* the tag is pushed with the given one.                                   *)
(***************************************************************************)
EXTENDS Release, TLAPS

Looping == {"save-user", "set-user", "restore-user", "save-push", "set-push", "restore-push"}

WellFormed(s) == s \in JobState /\ (s.at \in Looping => s.todo # <<>>)

(***************************************************************************)
(* Between CreateTag and the push a job's clone has the tag of its attempt, *)
(* and from the push on the remote has it, unless a panic is on its way.   *)
(***************************************************************************)
Tagged ==
  {"rev-parse", "find-local", "save-push", "discover", "agent", "ssh-add", "set-push", "check-remote", "push"}

Owns(j, s, r) ==
  /\ s.at \in Tagged => s.tag = <<j, s.attempt>>
  /\ s.at = "restore-user" => s.panics \/ s.tag = <<j, s.attempt>>
  /\ s.at \in {"kill-agent", "restore-push"} => s.panics \/ r = <<j, s.attempt>>
  /\ s.at \in {"changelog", "publish"} => r = <<j, s.attempt>>
  /\ s.at # "idle" => s.attempt > 0

IInv ==
  /\ TypeOK
  /\ \A j \in Job : Owns(j, job[j], remote)
  /\ PublisherMadeTheTag

LEMMA KeysAtType ==
  ASSUME TypeOK, NEW j \in Job, NEW at \in Place
  PROVE  KeysAt(j, at) \in Seq(Key) /\ (at \in Looping => KeysAt(j, at) # <<>>)
  <1>1. UserKeys \in Seq(Key) /\ UserKeys # <<>>
    BY DEF UserKeys, Key
  <1>2. PushKeys(job[j].method) \in Seq(Key) /\ PushKeys(job[j].method) # <<>>
    <2>1. <<"core.sshCommand", "remote.origin.url">> \in Seq(Key)
      BY DEF Key
    <2>2. <<"remote.origin.url">> \in Seq(Key)
      BY DEF Key
    <2>. QED  BY <2>1, <2>2 DEF PushKeys
  <1>3. <<>> \in Seq(Key)
    OBVIOUS
  <1>4. CASE at \in {"save-user", "set-user", "restore-user"}
    BY <1>1, <1>4 DEF KeysAt
  <1>5. CASE at \in {"save-push", "set-push", "kill-agent", "restore-push"}
    <2>1. KeysAt(j, at) = PushKeys(job[j].method)
      BY <1>5 DEF KeysAt
    <2>. QED  BY <1>2, <2>1
  <1>6. CASE at \notin {"save-user", "set-user", "restore-user", "save-push", "set-push",
                        "kill-agent", "restore-push"}
    <2>1. KeysAt(j, at) = <<>>
      BY <1>6 DEF KeysAt
    <2>. QED  BY <1>3, <1>6, <2>1 DEF Looping
  <1>. QED  BY <1>4, <1>5, <1>6

\* Moving a job changes its place and the keys left to go through.
LEMMA MovedIs ==
  ASSUME TypeOK, NEW j \in Job, NEW to \in Place
  PROVE  /\ WellFormed(Moved(j, to))
         /\ Moved(j, to).at = to
         /\ Moved(j, to).tag = job[j].tag /\ Moved(j, to).attempt = job[j].attempt
         /\ Moved(j, to).panics = job[j].panics
  <1>1. job[j] \in JobState
    BY DEF TypeOK
  <1>2. KeysAt(j, to) \in Seq(Key) /\ (to \in Looping => KeysAt(j, to) # <<>>)
    BY KeysAtType
  <1> DEFINE keys == KeysAt(j, to)
  <1>. HIDE DEF keys
  <1>3. Moved(j, to) = [job[j] EXCEPT !.at = to, !.todo = keys]
    BY DEF Moved, keys
  <1>4. keys \in Seq(Key) /\ (to \in Looping => keys # <<>>)
    BY <1>2 DEF keys
  <1>. QED  BY <1>1, <1>3, <1>4 DEF JobState, WellFormed

\* A panic leads to a deferred function or out.
LEMMA ThrownIs ==
  ASSUME IInv, NEW j \in Job, job[j].at # "idle", NEW r
  PROVE  WellFormed(Thrown(j)) /\ Owns(j, Thrown(j), r)
  <1>1. /\ Unwind(job[j].at) \in {"restore-user", "kill-agent", "restore-push", "failed"}
        /\ Unwind(job[j].at) \in Place
    BY DEF Unwind, Place
  <1>2. WellFormed(Moved(j, Unwind(job[j].at)))
    BY <1>1, MovedIs DEF IInv
  <1>3. /\ Moved(j, Unwind(job[j].at)).at = Unwind(job[j].at)
        /\ Moved(j, Unwind(job[j].at)).attempt = job[j].attempt
    BY <1>1, MovedIs DEF IInv
  <1>4. /\ WellFormed(Thrown(j)) /\ Thrown(j).at = Unwind(job[j].at) /\ Thrown(j).panics = TRUE
        /\ Thrown(j).attempt = job[j].attempt
    BY <1>2, <1>3 DEF Thrown, WellFormed, JobState
  <1>. QED  BY <1>1, <1>4 DEF IInv, Owns, Tagged

(***************************************************************************)
(* A step of one job preserves IInv if the job's new state does and the    *)
(* remote's tag, once there, stays.                                        *)
(***************************************************************************)
LEMMA Becoming ==
  ASSUME IInv, NEW j \in Job, NEW s, WellFormed(s), Becomes(j, s), Owns(j, s, remote'),
         remote' \in Tag \cup {NoTag}, remote # NoTag => remote' = remote,
         released' \in {released, remote'}, Works \/ Fault
  PROVE  IInv'
  <1>1. job' \in [Job -> JobState] /\ job'[j] = s /\ \A i \in Job \ {j} : job'[i] = job[i]
    BY DEF IInv, TypeOK, Becomes, WellFormed
  <1>2. faults' \in 0..MaxFaults
    BY ReleaseAssumption DEF IInv, TypeOK, Works, Fault
  <1>3. TypeOK'
    BY <1>1, <1>2 DEF IInv, TypeOK, WellFormed, Looping
  <1>4. ASSUME NEW i \in Job, i # j PROVE Owns(i, job[i], remote')
    <2>1. <<i, job[i].attempt>> # NoTag
      BY DEF NoTag
    <2>. QED  BY <1>4, <2>1 DEF IInv, Owns
  <1>5. \A i \in Job : Owns(i, job'[i], remote')
    BY <1>1, <1>4
  <1>6. PublisherMadeTheTag'
    BY DEF IInv, PublisherMadeTheTag
  <1>. QED  BY <1>3, <1>5, <1>6 DEF IInv

LEMMA InitEstablishes == Init => IInv
  <1> SUFFICES ASSUME Init PROVE IInv
    OBVIOUS
  <1>1. PICK c \in CloneConfigs : job =
          [j \in Job |->
            [at |-> "idle", panics |-> FALSE, attempt |-> 0, env |-> {}, method |-> "token",
             config |-> c, before |-> c, saved |-> c, todo |-> <<>>,
             tag |-> NoTag, agent |-> "none", headers |-> "unasked", spoilt |-> "no"]]
    BY DEF Init
  <1>2. c \in [Key -> Value]
    BY DEF CloneConfigs, Value
  <1>3. job \in [Job -> JobState]
    BY <1>1, <1>2, ReleaseAssumption DEF JobState, Place, Value
  <1>4. \A j \in Job : job[j].at = "idle"
    BY <1>1
  <1>5. remote = NoTag /\ released = NoTag /\ faults \in 0..MaxFaults
    BY ReleaseAssumption DEF Init
  <1>6. TypeOK
    BY <1>3, <1>4, <1>5 DEF TypeOK
  <1>. QED  BY <1>4, <1>5, <1>6 DEF IInv, Owns, Tagged, PublisherMadeTheTag
-----------------------------------------------------------------------------
\* What a job becomes when it moves with some fields changed.
LEMMA GoesOn ==
  ASSUME IInv, NEW j \in Job, NEW to \in Place, Goes(j, to), UNCHANGED released,
         Owns(j, Moved(j, to), remote'),
         remote' \in Tag \cup {NoTag}, remote # NoTag => remote' = remote, Works \/ Fault
  PROVE  IInv'
  <1>1. WellFormed(Moved(j, to))
    BY MovedIs DEF IInv
  <1>. QED  BY <1>1, Becoming DEF Goes

LEMMA ThrowsOn ==
  ASSUME IInv, NEW j \in Job, job[j].at # "idle", Throws(j), released' \in {released, remote'},
         remote' \in Tag \cup {NoTag}, remote # NoTag => remote' = remote, Works \/ Fault
  PROVE  IInv'
  BY ThrownIs, Becoming DEF Throws

LEMMA StartStep == ASSUME IInv, NEW j \in Job, Start(j) PROVE IInv'
  <1>1. PICK secrets \in SUBSET {"TAG_TOKEN", "DEPLOY_KEY"}, fresh \in BOOLEAN,
             tag \in {NoTag, remote, job[j].tag}, config \in CloneConfigs \cup {job[j].config} :
          Becomes(j, [Moved(j, "start") EXCEPT
            !.panics = FALSE, !.attempt = @ + 1, !.env = secrets, !.tag = tag,
            !.config = config, !.before = config, !.saved = config, !.agent = "none",
            !.headers = "unasked", !.spoilt = "no"])
    BY DEF Start
  <1> DEFINE s == [Moved(j, "start") EXCEPT
            !.panics = FALSE, !.attempt = @ + 1, !.env = secrets, !.tag = tag,
            !.config = config, !.before = config, !.saved = config, !.agent = "none",
            !.headers = "unasked", !.spoilt = "no"]
  <1>2. WellFormed(Moved(j, "start")) /\ Moved(j, "start").attempt + 1 \in 0..MaxAttempts
        /\ Moved(j, "start").at = "start"
    <2>1. "start" \in Place
      BY DEF Place
    <2>. QED  BY <2>1, MovedIs, ReleaseAssumption DEF IInv, TypeOK, JobState, Start
  <1>3. config \in [Key -> Value]
    BY DEF CloneConfigs, Value, IInv, TypeOK, JobState
  <1>4. tag \in Tag \cup {NoTag}
    BY DEF IInv, TypeOK, JobState
  <1>5. WellFormed(s) /\ s.at = "start" /\ s.attempt = Moved(j, "start").attempt + 1
    BY <1>2, <1>3, <1>4 DEF WellFormed, JobState, Looping
  <1>6. Owns(j, s, remote)
    <2>1. s.attempt > 0
      BY <1>2, <1>5, MovedIs DEF IInv, TypeOK, JobState, Place
    <2>. HIDE DEF s
    <2>. QED  BY <1>5, <2>1 DEF Owns, Tagged
  <1>. HIDE DEF s
  <1>. QED  BY <1>1, <1>5, <1>6, Becoming DEF Start, Shared, IInv, TypeOK, s

LEMMA CredentialsStep == ASSUME IInv, NEW j \in Job, Credentials(j) PROVE IInv'
  <1> DEFINE purged == [Moved(j, "save-user") EXCEPT !.env = {},
                !.method = IF "TAG_TOKEN" \in job[j].env THEN "token" ELSE "key"]
             refused == [purged EXCEPT !.at = "failed", !.panics = TRUE, !.todo = <<>>]
  <1>1. /\ WellFormed(Moved(j, "save-user")) /\ Moved(j, "save-user").at = "save-user"
        /\ Moved(j, "save-user").attempt = job[j].attempt /\ job[j].attempt > 0
    BY MovedIs DEF IInv, Place, Owns, Credentials
  <1>2. WellFormed(purged) /\ purged.at = "save-user" /\ purged.attempt > 0
    BY <1>1 DEF WellFormed, JobState
  <1>3. WellFormed(refused) /\ refused.at = "failed" /\ refused.attempt > 0
    <2>1. purged \in JobState
      BY <1>2 DEF WellFormed
    <2>2. "failed" \in Place /\ "failed" \notin Looping /\ <<>> \in Seq(Key)
      BY DEF Place, Looping
    <2>. HIDE DEF purged
    <2>3. refused \in JobState /\ refused.at = "failed" /\ refused.attempt > 0
      BY <1>2, <2>1, <2>2 DEF JobState
    <2>. QED  BY <2>2, <2>3 DEF WellFormed
  <1>4. Owns(j, purged, remote) /\ Owns(j, refused, remote)
    BY <1>2, <1>3 DEF Owns, Tagged
  <1>5. Becomes(j, purged) \/ Becomes(j, refused)
    BY DEF Credentials
  <1>. HIDE DEF purged, refused
  <1>. QED
    BY <1>2, <1>3, <1>4, <1>5, Becoming DEF Credentials, Shared, IInv, TypeOK

\* The state a loop over keys comes to: the next key, or the place behind the loop.
LEMMA LoopIs ==
  ASSUME IInv, NEW j \in Job, NEW to \in Place, job[j].at \in Looping, NEW s,
         s = IF Tail(job[j].todo) # <<>> THEN [job[j] EXCEPT !.todo = Tail(job[j].todo)]
             ELSE Moved(j, to)
  PROVE  /\ WellFormed(s) /\ s.at \in {job[j].at, to}
         /\ s.tag = job[j].tag /\ s.attempt = job[j].attempt /\ s.panics = job[j].panics
         /\ Head(job[j].todo) \in Key
  <1>1. job[j] \in JobState /\ job[j].todo \in Seq(Key) /\ job[j].todo # <<>>
    BY DEF IInv, TypeOK, JobState, Looping
  <1>2. Tail(job[j].todo) \in Seq(Key) /\ Head(job[j].todo) \in Key
    BY <1>1
  <1>3. CASE Tail(job[j].todo) # <<>>
    BY <1>1, <1>2, <1>3 DEF WellFormed, JobState
  <1>4. CASE Tail(job[j].todo) = <<>>
    BY <1>2, <1>4, MovedIs DEF IInv
  <1>. QED  BY <1>3, <1>4

LEMMA SaveStep == ASSUME IInv, NEW j \in Job, Save(j) PROVE IInv'
  <1> DEFINE k == Head(job[j].todo)
             to == CASE job[j].at = "save-user" -> "set-user"
                     [] job[j].at = "save-push" /\ job[j].method = "key" -> "agent"
                     [] OTHER -> "discover"
             read == IF Tail(job[j].todo) # <<>> THEN [job[j] EXCEPT !.todo = Tail(job[j].todo)]
                     ELSE Moved(j, to)
             good == [read EXCEPT !.saved[k] = Get(job[j].config, k)]
             bad == [read EXCEPT !.saved[k] = "unset",
                                 !.spoilt = IF @ = "no" THEN "read" ELSE @]
  <1>1. to \in Place /\ to \in {"set-user", "agent", "discover"}
    BY DEF Place
  <1>2. job[j].at \in {"save-user", "save-push"} /\ job[j].at \in Looping
    BY DEF Save, Looping
  <1>3. to \in Tagged => job[j].at = "save-push"
    BY <1>2 DEF Tagged
  <1>4. read = IF Tail(job[j].todo) # <<>> THEN [job[j] EXCEPT !.todo = Tail(job[j].todo)]
               ELSE Moved(j, to)
    OBVIOUS
  <1>5. Becomes(j, good) \/ Becomes(j, bad)
    BY DEF Save
  <1>. HIDE DEF read, to
  <1>6. /\ WellFormed(read) /\ read.at \in {job[j].at, to} /\ k \in Key
        /\ read.tag = job[j].tag /\ read.attempt = job[j].attempt /\ read.panics = job[j].panics
    BY <1>1, <1>2, <1>4, LoopIs
  <1>7. Owns(j, read, remote)
    BY <1>1, <1>2, <1>3, <1>6 DEF IInv, Owns, Tagged
  <1>8. Get(job[j].config, k) \in Value
    BY <1>6 DEF Get, IInv, TypeOK, JobState, Value
  <1>. HIDE DEF k
  <1>9. WellFormed(good) /\ Owns(j, good, remote)
    BY <1>6, <1>7, <1>8 DEF WellFormed, JobState, Owns
  <1>10. WellFormed(bad) /\ Owns(j, bad, remote)
    <2> DEFINE spoilt == IF read.spoilt = "no" THEN "read" ELSE read.spoilt
    <2>1. read \in JobState /\ spoilt \in {"no", "read", "restore", "killed"} /\ "unset" \in Value
      BY <1>6 DEF WellFormed, JobState, Value
    <2>2. bad = [[read EXCEPT !.saved[k] = "unset"] EXCEPT !.spoilt = spoilt]
      OBVIOUS
    <2>. HIDE DEF spoilt, bad
    <2>3. /\ bad \in JobState /\ bad.at = read.at /\ bad.todo = read.todo /\ bad.tag = read.tag
          /\ bad.attempt = read.attempt /\ bad.panics = read.panics
      BY <1>6, <2>1, <2>2 DEF JobState
    <2>. QED  BY <1>6, <1>7, <2>3 DEF WellFormed, Owns
  <1>. HIDE DEF good, bad
  <1>. QED  BY <1>5, <1>9, <1>10, Becoming DEF Save, Shared, IInv, TypeOK

LEMMA SetStep == ASSUME IInv, NEW j \in Job, Set(j) PROVE IInv'
  <1> DEFINE k == Head(job[j].todo)
             to == IF job[j].at = "set-user" THEN "check-local" ELSE "check-remote"
             rest == IF Tail(job[j].todo) # <<>> THEN [job[j] EXCEPT !.todo = Tail(job[j].todo)]
                     ELSE Moved(j, to)
             set == [rest EXCEPT !.config[k] = "ours"]
  <1>1. to \in Place /\ to \in {"check-local", "check-remote"}
    BY DEF Place
  <1>2. job[j].at \in {"set-user", "set-push"} /\ job[j].at \in Looping
    BY DEF Set, Looping
  <1>3. to \in Tagged => job[j].at = "set-push"
    BY <1>2 DEF Tagged
  <1>4. rest = IF Tail(job[j].todo) # <<>> THEN [job[j] EXCEPT !.todo = Tail(job[j].todo)]
               ELSE Moved(j, to)
    OBVIOUS
  <1>5. Becomes(j, set) \/ Throws(j)
    BY DEF Set
  <1>. HIDE DEF rest, to
  <1>6. /\ WellFormed(rest) /\ rest.at \in {job[j].at, to} /\ k \in Key
        /\ rest.tag = job[j].tag /\ rest.attempt = job[j].attempt /\ rest.panics = job[j].panics
    BY <1>1, <1>2, <1>4, LoopIs
  <1>7. Owns(j, rest, remote)
    BY <1>1, <1>2, <1>3, <1>6 DEF IInv, Owns, Tagged
  <1>. HIDE DEF k
  <1>8. WellFormed(set) /\ Owns(j, set, remote)
    BY <1>6, <1>7 DEF WellFormed, JobState, Owns, Value
  <1>. HIDE DEF set
  <1>. QED  BY <1>5, <1>8, Becoming, ThrowsOn DEF Set, Shared, IInv, TypeOK

LEMMA RestoreStep == ASSUME IInv, NEW j \in Job, Restore(j) PROVE IInv'
  <1> DEFINE k == Head(job[j].todo)
             to == AfterRestore(j, job[j].panics)
             rest == IF Tail(job[j].todo) # <<>> THEN [job[j] EXCEPT !.todo = Tail(job[j].todo)]
                     ELSE Moved(j, to)
             good == [rest EXCEPT !.config[k] = job[j].saved[k]]
             silent == [rest EXCEPT !.spoilt = "restore"]
             bad == [Moved(j, "failed") EXCEPT !.panics = TRUE, !.spoilt = "restore"]
  <1>1. to \in Place /\ to \in {"failed", "find-local", "changelog"}
    BY DEF Place, AfterRestore
  <1>2. job[j].at \in {"restore-user", "restore-push"} /\ job[j].at \in Looping
    BY DEF Restore, Looping
  <1>3. /\ to = "find-local" => job[j].at = "restore-user" /\ ~job[j].panics
        /\ to = "changelog" => job[j].at = "restore-push" /\ ~job[j].panics
    <2>1. job[j].panics \in BOOLEAN
      BY DEF IInv, TypeOK, JobState
    <2>2. CASE job[j].panics
      <3>1. to = "failed"
        BY <2>2 DEF AfterRestore
      <3>. QED  BY <3>1
    <2>3. CASE ~job[j].panics
      <3>1. to = IF job[j].at = "restore-user" THEN "find-local" ELSE "changelog"
        BY <2>3 DEF AfterRestore
      <3>. QED  BY <1>2, <2>3, <3>1
    <2>. QED  BY <2>1, <2>2, <2>3
  <1>4. rest = IF Tail(job[j].todo) # <<>> THEN [job[j] EXCEPT !.todo = Tail(job[j].todo)]
               ELSE Moved(j, to)
    OBVIOUS
  <1>5. Becomes(j, good) \/ Becomes(j, silent) \/ Becomes(j, bad)
    BY DEF Restore
  <1>. HIDE DEF rest, to
  <1>6. /\ WellFormed(rest) /\ rest.at \in {job[j].at, to} /\ k \in Key
        /\ rest.tag = job[j].tag /\ rest.attempt = job[j].attempt /\ rest.panics = job[j].panics
    BY <1>1, <1>2, <1>4, LoopIs
  <1>7. Owns(j, rest, remote)
    BY <1>1, <1>2, <1>3, <1>6 DEF IInv, Owns, Tagged
  <1>8. job[j].saved[k] \in Value
    BY <1>6 DEF IInv, TypeOK, JobState
  <1>. HIDE DEF k
  <1>9. WellFormed(good) /\ Owns(j, good, remote)
    BY <1>6, <1>7, <1>8 DEF WellFormed, JobState, Owns
  <1>10. WellFormed(silent) /\ Owns(j, silent, remote)
    BY <1>6, <1>7 DEF WellFormed, JobState, Owns
  <1>11. WellFormed(bad) /\ bad.at = "failed" /\ bad.attempt > 0
    <2>1. /\ WellFormed(Moved(j, "failed")) /\ Moved(j, "failed").at = "failed"
          /\ Moved(j, "failed").attempt = job[j].attempt
      BY MovedIs DEF IInv, Place
    <2>2. job[j].attempt > 0
      BY <1>2 DEF IInv, Owns
    <2>. QED  BY <2>1, <2>2 DEF WellFormed, JobState
  <1>12. Owns(j, bad, remote)
    BY <1>11 DEF Owns, Tagged
  <1>. HIDE DEF good, silent, bad
  <1>. QED
    BY <1>5, <1>9, <1>10, <1>11, <1>12, Becoming DEF Restore, Shared, IInv, TypeOK

\* Steps that change nothing but where the job is.
LEMMA MovingSteps ==
  ASSUME IInv, NEW j \in Job,
         Refuse(j) \/ CheckLocal(j) \/ RevParse(j) \/ FindLocal(j) \/ CheckRemote(j)
  PROVE  IInv'
  <1>1. UNCHANGED Shared /\ (Works \/ Fault) /\ job[j].at # "idle"
    BY DEF Refuse, CheckLocal, RevParse, FindLocal, CheckRemote
  <1>2. PICK to \in {"refused", "tag", "restore-user", "save-push", "push"} :
          \/ Throws(j)
          \/ /\ Goes(j, to)
             /\ to = "restore-user" => job[j].at = "rev-parse"
             /\ to = "save-push" => job[j].at = "find-local"
             /\ to = "push" => job[j].at = "check-remote"
    BY DEF Refuse, CheckLocal, RevParse, FindLocal, CheckRemote
  <1>3. to \in Place
    BY DEF Place
  <1>4. CASE Throws(j)
    BY <1>1, <1>4, ThrowsOn DEF Shared, IInv, TypeOK
  <1>5. CASE Goes(j, to) /\ (to = "restore-user" => job[j].at = "rev-parse")
             /\ (to = "save-push" => job[j].at = "find-local")
             /\ (to = "push" => job[j].at = "check-remote")
    <2>1. Moved(j, to).at = to /\ Moved(j, to).tag = job[j].tag
          /\ Moved(j, to).attempt = job[j].attempt
      BY <1>3, MovedIs DEF IInv
    <2>2. Owns(j, Moved(j, to), remote)
      BY <1>1, <1>5, <2>1 DEF IInv, Owns, Tagged
    <2>. QED  BY <1>1, <1>3, <1>5, <2>2, GoesOn DEF Shared, IInv, TypeOK
  <1>. QED  BY <1>2, <1>4, <1>5

LEMMA CreateTagStep == ASSUME IInv, NEW j \in Job, CreateTag(j) PROVE IInv'
  <1> DEFINE s == [Moved(j, "rev-parse") EXCEPT !.tag = <<j, job[j].attempt>>]
  <1>1. CASE Throws(j)
    BY <1>1, ThrowsOn DEF CreateTag, Shared, IInv, TypeOK
  <1>2. CASE job[j].tag = NoTag /\ Becomes(j, s)
    <2>1. "rev-parse" \in Place
      BY DEF Place
    <2>2. WellFormed(Moved(j, "rev-parse")) /\ Moved(j, "rev-parse").at = "rev-parse"
          /\ Moved(j, "rev-parse").attempt = job[j].attempt
      BY <2>1, MovedIs DEF IInv
    <2>3. job[j].attempt \in 1..MaxAttempts
      <3>1. job[j].attempt \in 0..MaxAttempts
        BY DEF IInv, TypeOK, JobState
      <3>2. job[j].at # "idle" /\ Owns(j, job[j], remote)
        BY DEF CreateTag, IInv
      <3>3. job[j].attempt > 0
        BY <3>2 DEF Owns
      <3>. QED  BY <3>1, <3>3, ReleaseAssumption DEF ReleaseAssumption
    <2>4. WellFormed(s) /\ s.at = "rev-parse" /\ s.tag = <<j, s.attempt>> /\ s.attempt > 0
      <3> DEFINE made == <<j, job[j].attempt>>
      <3>1. made \in Tag
        BY <2>3 DEF Tag
      <3>. HIDE DEF made
      <3>2. /\ WellFormed(s) /\ s.at = "rev-parse" /\ s.tag = made
            /\ s.attempt = job[j].attempt
        BY <2>2, <3>1 DEF WellFormed, JobState, made
      <3>. QED  BY <2>3, <3>2 DEF made
    <2>5. Owns(j, s, remote)
      BY <2>4 DEF Owns, Tagged
    <2>. HIDE DEF s
    <2>. QED  BY <1>2, <2>4, <2>5, Becoming DEF CreateTag, Shared, IInv, TypeOK
  <1>. QED  BY <1>1, <1>2 DEF CreateTag

\* Steps of the ssh-agent.
LEMMA AgentSteps ==
  ASSUME IInv, NEW j \in Job, StartAgent(j) \/ AddKey(j) \/ KillAgent(j)
  PROVE  IInv'
  <1>1. UNCHANGED Shared /\ (Works \/ Fault) /\ job[j].at # "idle"
    BY DEF StartAgent, AddKey, KillAgent
  <1>2. PICK agent \in {"none", "empty", "loaded"}, to \in {"ssh-add", "set-push", "restore-push"} :
          \/ Becomes(j, [Thrown(j) EXCEPT !.agent = agent])
          \/ /\ Becomes(j, [Moved(j, to) EXCEPT !.agent = agent])
             /\ to \in Tagged => job[j].at \in Tagged
             /\ to = "restore-push" => job[j].at = "kill-agent"
    BY DEF StartAgent, AddKey, KillAgent, Tagged
  <1> DEFINE thrown == [Thrown(j) EXCEPT !.agent = agent]
             moved == [Moved(j, to) EXCEPT !.agent = agent]
  <1>3. WellFormed(thrown) /\ Owns(j, thrown, remote)
    <2>1. WellFormed(Thrown(j)) /\ Owns(j, Thrown(j), remote)
      BY <1>1, ThrownIs
    <2>. QED  BY <2>1 DEF WellFormed, JobState, Owns
  <1>4. /\ WellFormed(moved) /\ moved.at = to /\ moved.tag = job[j].tag
        /\ moved.attempt = job[j].attempt /\ moved.panics = job[j].panics
    <2>1. to \in Place
      BY DEF Place
    <2>2. /\ WellFormed(Moved(j, to)) /\ Moved(j, to).at = to /\ Moved(j, to).tag = job[j].tag
          /\ Moved(j, to).attempt = job[j].attempt /\ Moved(j, to).panics = job[j].panics
      BY <2>1, MovedIs DEF IInv
    <2>. QED  BY <2>2 DEF WellFormed, JobState
  <1>5. (to \in Tagged => job[j].at \in Tagged) /\ (to = "restore-push" => job[j].at = "kill-agent")
        => Owns(j, moved, remote)
    BY <1>1, <1>4 DEF IInv, Owns, Tagged
  <1>. HIDE DEF thrown, moved
  <1>. QED  BY <1>1, <1>2, <1>3, <1>4, <1>5, Becoming DEF Shared, IInv, TypeOK, thrown, moved

LEMMA DiscoverStep == ASSUME IInv, NEW j \in Job, Discover(j) PROVE IInv'
  <1>1. PICK headers \in {"named", "failed"} :
          Becomes(j, [Moved(j, "set-push") EXCEPT !.headers = headers])
    BY DEF Discover
  <1> DEFINE s == [Moved(j, "set-push") EXCEPT !.headers = headers]
  <1>2. /\ WellFormed(Moved(j, "set-push")) /\ Moved(j, "set-push").at = "set-push"
        /\ Moved(j, "set-push").attempt = job[j].attempt /\ Moved(j, "set-push").tag = job[j].tag
    BY MovedIs DEF IInv, Place
  <1>3. WellFormed(s) /\ s.at = "set-push" /\ s.tag = job[j].tag /\ s.attempt = job[j].attempt
    BY <1>2 DEF WellFormed, JobState
  <1>4. Owns(j, s, remote)
    BY <1>3 DEF Discover, IInv, Owns, Tagged
  <1>. HIDE DEF s
  <1>. QED  BY <1>1, <1>3, <1>4, Becoming DEF Discover, Shared, IInv, TypeOK, s

\* A push puts the job's tag on the remote only if none is there.
LEMMA PushStep == ASSUME IInv, NEW j \in Job, Push(j) PROVE IInv'
  <1>1. job[j].at = "push" /\ job[j].attempt > 0 /\ job[j].tag = <<j, job[j].attempt>> /\ job[j].tag \in Tag \cup {NoTag}
    BY DEF Push, IInv, Owns, Tagged, TypeOK, JobState
  <1>2. /\ remote' \in Tag \cup {NoTag} /\ (remote # NoTag => remote' = remote)
        /\ released' = released /\ (Works \/ Fault)
    BY <1>1 DEF Push, IInv, TypeOK
  <1>3. CASE Throws(j)
    BY <1>1, <1>2, <1>3, ThrowsOn
  <1>4. CASE Goes(j, "kill-agent") /\ remote' = job[j].tag
    <2>1. "kill-agent" \in Place
      BY DEF Place
    <2>2. Moved(j, "kill-agent").at = "kill-agent" /\ Moved(j, "kill-agent").attempt = job[j].attempt
      BY <2>1, MovedIs DEF IInv
    <2>3. Owns(j, Moved(j, "kill-agent"), remote')
      BY <1>1, <1>4, <2>2 DEF Owns, Tagged
    <2>. QED  BY <1>2, <1>4, <2>1, <2>3, GoesOn
  <1>. QED  BY <1>3, <1>4 DEF Push

LEMMA GetChangelogStep == ASSUME IInv, NEW j \in Job, GetChangelog(j) PROVE IInv'
  <1>1. CASE Throws(j)
    BY <1>1, ThrowsOn DEF GetChangelog, Shared, IInv, TypeOK
  <1>2. CASE Becomes(j, Moved(j, "publish"))
    <2>1. "publish" \in Place
      BY DEF Place
    <2>2. WellFormed(Moved(j, "publish")) /\ Moved(j, "publish").at = "publish"
          /\ Moved(j, "publish").attempt = job[j].attempt
      BY <2>1, MovedIs DEF IInv
    <2>3. Owns(j, Moved(j, "publish"), remote)
      BY <2>2 DEF GetChangelog, IInv, Owns, Tagged
    <2>. QED  BY <1>2, <2>2, <2>3, Becoming DEF GetChangelog, Shared, IInv, TypeOK
  <1>. QED  BY <1>1, <1>2 DEF GetChangelog

\* A job that creates the release is past its push.
LEMMA PublishStep == ASSUME IInv, NEW j \in Job, Publish(j) PROVE IInv'
  <1>1. remote = <<j, job[j].attempt>> /\ job[j].attempt > 0 /\ job[j].at # "idle"
    BY DEF Publish, IInv, Owns
  <1>2. released' \in {released, remote'} /\ UNCHANGED remote /\ (Works \/ Fault)
    BY <1>1 DEF Publish
  <1>3. CASE Throws(j)
    BY <1>1, <1>2, <1>3, ThrowsOn DEF IInv, TypeOK
  <1>4. CASE Goes(j, "released")
    <2>1. /\ WellFormed(Moved(j, "released")) /\ Moved(j, "released").at = "released"
          /\ Moved(j, "released").attempt = job[j].attempt
      BY MovedIs DEF IInv, Place
    <2>2. Owns(j, Moved(j, "released"), remote)
      BY <1>1, <2>1 DEF Owns, Tagged
    <2>. QED  BY <1>2, <1>4, <2>1, <2>2, Becoming DEF Goes, IInv, TypeOK
  <1>. QED  BY <1>3, <1>4 DEF Publish

LEMMA KillStep == ASSUME IInv, NEW j \in Job, Kill(j) PROVE IInv'
  <1> DEFINE s == [Moved(j, "killed") EXCEPT !.spoilt = "killed"]
  <1>1. /\ WellFormed(Moved(j, "killed")) /\ Moved(j, "killed").at = "killed"
        /\ Moved(j, "killed").attempt = job[j].attempt /\ job[j].attempt > 0
    BY MovedIs DEF IInv, Place, Kill, Ended, Owns
  <1>2. WellFormed(s) /\ s.at = "killed" /\ s.attempt > 0
    BY <1>1 DEF WellFormed, JobState
  <1>3. Owns(j, s, remote)
    BY <1>2 DEF Owns, Tagged
  <1>4. Becomes(j, s)
    BY DEF Kill
  <1>. HIDE DEF s
  <1>. QED  BY <1>2, <1>3, <1>4, Becoming DEF Kill, Shared, IInv, TypeOK

LEMMA NextStep == IInv /\ [Next]_vars => IInv'
  <1> SUFFICES ASSUME IInv, [Next]_vars PROVE IInv'
    OBVIOUS
  <1>1. CASE UNCHANGED vars
    BY <1>1 DEF vars, IInv, TypeOK, PublisherMadeTheTag
  <1>2. ASSUME NEW j \in Job, Start(j) \/ Step(j) \/ Kill(j) PROVE IInv'
    BY <1>2, StartStep, CredentialsStep, SaveStep, SetStep, RestoreStep, MovingSteps, CreateTagStep,
       AgentSteps, DiscoverStep, PushStep, GetChangelogStep, PublishStep, KillStep DEF Step
  <1>. QED  BY <1>1, <1>2 DEF Next

LEMMA Invariance == Spec => []IInv
  BY InitEstablishes, NextStep, PTL DEF Spec
-----------------------------------------------------------------------------
(***************************************************************************)
(* The state has its types, and a loop over keys always has a key to go    *)
(* through: no place of the release is left without a next step for lack   *)
(* of one.                                                                 *)
(***************************************************************************)
THEOREM Typed == Spec => []TypeOK
  <1>1. IInv => TypeOK
    BY DEF IInv
  <1>. QED  BY <1>1, Invariance, PTL

(***************************************************************************)
(* The attempt that creates the GitHub release is the one whose tag the    *)
(* remote has (TagReleaseTask after PublishTag), however many jobs race    *)
(* and whatever fails.                                                     *)
(***************************************************************************)
THEOREM OnlyThePublisherReleases == Spec => []PublisherMadeTheTag
  <1>1. IInv => PublisherMadeTheTag
    BY DEF IInv
  <1>. QED  BY <1>1, Invariance, PTL
-----------------------------------------------------------------------------
(***************************************************************************)
(* The configuration, the credentials and what a push is made with concern *)
(* one job at a time.                                                      *)
(***************************************************************************)
Elems(q) == {q[i] : i \in 1..Len(q)}

UserPlaces == {"save-user", "set-user", "check-local", "tag", "rev-parse", "restore-user"}
PushPlaces ==
  {"save-push", "discover", "agent", "ssh-add", "set-push", "check-remote", "push",
   "kill-agent", "restore-push"}
Saving == {"save-user", "save-push"}
Restoring == {"restore-user", "restore-push"}

\* The keys that are saved, set and restored around a place.
KeysOf(s) ==
  CASE s.at \in UserPlaces -> {"user.name", "user.email"}
    [] s.at \in PushPlaces /\ s.method = "key" -> {"core.sshCommand", "remote.origin.url"}
    [] s.at \in PushPlaces /\ s.method # "key" -> {"remote.origin.url"}
    [] OTHER -> {}

\* The keys that may have another value than before, and those not yet saved.
Altered(s) ==
  IF s.at \in Saving THEN {} ELSE IF s.at \in Restoring THEN Elems(s.todo) ELSE KeysOf(s)
Unsaved(s) == IF s.at \in Saving THEN Elems(s.todo) ELSE {}

Preserves(s) ==
  /\ s.at \in Looping => Elems(s.todo) \subseteq KeysOf(s)
  /\ s.spoilt = "no" =>
       /\ \A k \in Key \ Altered(s) : Get(s.config, k) = Get(s.before, k)
       /\ \A k \in KeysOf(s) \ Unsaved(s) : s.saved[k] = Get(s.before, k)

Confined(s) ==
  /\ s.env # {} => s.at \in {"start", "refused", "killed"}
  /\ s.agent = "loaded" => s.at \in {"set-push", "check-remote", "push", "kill-agent", "killed"}

\* From `set-push' on the credential is at hand, and from `check-remote' on the
\* configuration points at it.
Armed(s) ==
  /\ s.at \in {"agent", "ssh-add"} => s.method = "key"
  /\ s.at = "discover" => s.method = "token"
  /\ s.at \in {"set-push", "check-remote", "push"} =>
       /\ s.method = "key" => s.agent = "loaded"
       /\ s.method = "token" => s.headers # "unasked"
       /\ \A k \in KeysOf(s) : s.config[k] = "ours" \/ (s.at = "set-push" /\ k \in Elems(s.todo))

Holds(s) == Preserves(s) /\ Confined(s) /\ Armed(s)

\* What a step to another place leaves alone.
Carries(s, t) ==
  /\ t.config = s.config /\ t.before = s.before /\ t.saved = s.saved /\ t.spoilt = s.spoilt
  /\ t.method = s.method

\* A loop begins with all the keys.
Fresh(t) == t.at \in Looping => Elems(t.todo) = KeysOf(t)

LEMMA ElemsTail ==
  ASSUME NEW q \in Seq(Key), q # <<>>
  PROVE  /\ Elems(q) = {Head(q)} \cup Elems(Tail(q))
         /\ Head(q) \in Key /\ Elems(q) \subseteq Key
         /\ Tail(q) = <<>> => Elems(q) = {Head(q)}
  <1>1. Len(q) \in Nat \ {0} /\ Len(Tail(q)) = Len(q) - 1 /\ Head(q) = q[1]
    OBVIOUS
  <1>2. \A i \in 1..Len(Tail(q)) : Tail(q)[i] = q[i + 1]
    OBVIOUS
  <1>3. ASSUME NEW k PROVE k \in Elems(q) <=> k = Head(q) \/ k \in Elems(Tail(q))
    <2>1. ASSUME NEW i \in 1..Len(q), q[i] = k, i # 1 PROVE k \in Elems(Tail(q))
      <3>1. i - 1 \in 1..Len(Tail(q)) /\ Tail(q)[i - 1] = q[i]
        BY <1>1, <1>2, <2>1
      <3>. QED  BY <2>1, <3>1 DEF Elems
    <2>2. ASSUME NEW i \in 1..Len(Tail(q)), Tail(q)[i] = k PROVE k \in Elems(q)
      <3>1. i + 1 \in 1..Len(q) /\ q[i + 1] = k
        BY <1>1, <1>2, <2>2
      <3>. QED  BY <3>1 DEF Elems
    <2>3. Head(q) \in Elems(q)
      BY <1>1 DEF Elems
    <2>. QED  BY <1>1, <2>1, <2>2, <2>3 DEF Elems
  <1>4. Elems(q) \subseteq Key
    BY DEF Elems
  <1>5. Tail(q) = <<>> => Elems(Tail(q)) = {}
    <2>1. Len(<<>>) = 0 /\ 1..0 = {}
      OBVIOUS
    <2>. QED  BY <2>1 DEF Elems
  <1>. QED  BY <1>1, <1>3, <1>4, <1>5

LEMMA KeysOfType == ASSUME NEW s \in JobState PROVE KeysOf(s) \subseteq Key
  <1>1. CASE s.at \in UserPlaces
    BY <1>1 DEF KeysOf, Key
  <1>2. CASE s.at \in PushPlaces
    <2>1. s.at \notin UserPlaces
      BY <1>2 DEF UserPlaces, PushPlaces
    <2>. QED  BY <1>2, <2>1 DEF KeysOf, Key
  <1>3. CASE s.at \notin UserPlaces \cup PushPlaces
    BY <1>3 DEF KeysOf, Key
  <1>. QED  BY <1>1, <1>2, <1>3

\* The sets of KeysOf, place by place.
LEMMA KeysOfIs ==
  ASSUME NEW s \in JobState
  PROVE  /\ s.at \in UserPlaces => KeysOf(s) = {"user.name", "user.email"}
         /\ s.at \in PushPlaces /\ s.method = "key" => KeysOf(s) = {"core.sshCommand", "remote.origin.url"}
         /\ s.at \in PushPlaces /\ s.method = "token" => KeysOf(s) = {"remote.origin.url"}
         /\ s.at \notin UserPlaces \cup PushPlaces => KeysOf(s) = {}
  BY DEF KeysOf, UserPlaces, PushPlaces

\* Keys are the same at two places of one kind.
LEMMA KeysOfSame ==
  ASSUME NEW s \in JobState, NEW t \in JobState, t.method = s.method
  PROVE  /\ s.at \in UserPlaces /\ t.at \in UserPlaces => KeysOf(t) = KeysOf(s)
         /\ s.at \in PushPlaces /\ t.at \in PushPlaces => KeysOf(t) = KeysOf(s)
  <1>1. s.method \in {"token", "key"}
    BY DEF JobState
  <1>. QED  BY <1>1, KeysOfIs

LEMMA PushKeysElems ==
  /\ Elems(UserKeys) = {"user.name", "user.email"}
  /\ Elems(PushKeys("key")) = {"core.sshCommand", "remote.origin.url"}
  /\ Elems(PushKeys("token")) = {"remote.origin.url"}
  <1>1. Elems(UserKeys) = {"user.name", "user.email"}
    <2>1. Len(UserKeys) = 2 /\ UserKeys[1] = "user.name" /\ UserKeys[2] = "user.email"
      BY DEF UserKeys
    <2>2. 1..2 = {1, 2}
      OBVIOUS
    <2>. QED  BY <2>1, <2>2 DEF Elems
  <1>2. Elems(PushKeys("key")) = {"core.sshCommand", "remote.origin.url"}
    <2>1. /\ Len(PushKeys("key")) = 2 /\ PushKeys("key")[1] = "core.sshCommand"
          /\ PushKeys("key")[2] = "remote.origin.url"
      BY DEF PushKeys
    <2>2. 1..2 = {1, 2}
      OBVIOUS
    <2>. QED  BY <2>1, <2>2 DEF Elems
  <1>3. Elems(PushKeys("token")) = {"remote.origin.url"}
    <2>1. Len(PushKeys("token")) = 1 /\ PushKeys("token")[1] = "remote.origin.url"
      BY DEF PushKeys
    <2>2. 1..1 = {1}
      OBVIOUS
    <2>. QED  BY <2>1, <2>2 DEF Elems
  <1>. QED  BY <1>1, <1>2, <1>3

\* A job that moves keeps all but its place and the keys it has left, of which it
\* has all.
LEMMA MovedKeeps ==
  ASSUME TypeOK, NEW j \in Job, NEW to \in Place
  PROVE  /\ Moved(j, to) \in JobState /\ Moved(j, to).at = to
         /\ Carries(job[j], Moved(j, to)) /\ Fresh(Moved(j, to))
         /\ Moved(j, to).env = job[j].env /\ Moved(j, to).agent = job[j].agent
         /\ Moved(j, to).headers = job[j].headers /\ Moved(j, to).panics = job[j].panics
  <1> DEFINE keys == KeysAt(j, to)
  <1>1. job[j] \in JobState /\ keys \in Seq(Key)
    BY KeysAtType DEF TypeOK
  <1>2. Moved(j, to) = [job[j] EXCEPT !.at = to, !.todo = keys]
    BY DEF Moved
  <1>3. to \in Looping => Elems(keys) = IF to \in UserPlaces THEN {"user.name", "user.email"}
                                        ELSE Elems(PushKeys(job[j].method))
    BY PushKeysElems DEF KeysAt, Looping, UserPlaces
  <1>. HIDE DEF keys
  <1>4. /\ Moved(j, to) \in JobState /\ Moved(j, to).at = to /\ Moved(j, to).todo = keys
        /\ Carries(job[j], Moved(j, to))
        /\ Moved(j, to).env = job[j].env /\ Moved(j, to).agent = job[j].agent
        /\ Moved(j, to).headers = job[j].headers /\ Moved(j, to).panics = job[j].panics
    BY <1>1, <1>2 DEF JobState, Carries
  <1>5. Fresh(Moved(j, to))
    <2> DEFINE t == Moved(j, to)
    <2>1. t \in JobState /\ t.at = to /\ t.todo = keys /\ t.method = job[j].method
      BY <1>4 DEF Carries
    <2>2. t.method \in {"token", "key"}
      BY <2>1 DEF JobState
    <2>. HIDE DEF t
    <2>3. ASSUME to \in UserPlaces PROVE Fresh(t)
      BY <1>3, <2>1, <2>3, KeysOfIs DEF Fresh
    <2>4. ASSUME to \in Looping, to \notin UserPlaces PROVE Fresh(t)
      <3>1. to \in PushPlaces
        BY <2>4 DEF Looping, UserPlaces, PushPlaces
      <3>. QED  BY <1>3, <2>1, <2>2, <2>4, <3>1, KeysOfIs, PushKeysElems DEF Fresh
    <2>. QED  BY <2>1, <2>3, <2>4 DEF Fresh, t
  <1>. QED  BY <1>4, <1>5

\* The steps from one place to the next, loops over keys aside.
Hops ==
  {<<"start", "refused">>, <<"check-local", "tag">>, <<"tag", "rev-parse">>,
   <<"rev-parse", "restore-user">>, <<"find-local", "save-push">>, <<"agent", "ssh-add">>,
   <<"ssh-add", "set-push">>, <<"discover", "set-push">>, <<"check-remote", "push">>,
   <<"push", "kill-agent">>, <<"kill-agent", "restore-push">>, <<"changelog", "publish">>,
   <<"publish", "released">>}

LEMMA PreservedByCarrying ==
  ASSUME NEW s \in JobState, NEW t \in JobState, Preserves(s), Carries(s, t), Fresh(t),
         Altered(s) \subseteq Altered(t), KeysOf(t) \ Unsaved(t) \subseteq KeysOf(s) \ Unsaved(s)
  PROVE  Preserves(t)
  BY DEF Preserves, Carries, Fresh

LEMMA HopHolds ==
  ASSUME NEW s \in JobState, NEW t \in JobState, Holds(s), Carries(s, t), Fresh(t),
         <<s.at, t.at>> \in Hops, t.env = s.env,
         t.headers = s.headers \/ t.headers # "unasked",
         t.agent = "loaded" => t.at # "restore-push" /\ (s.agent = "loaded" \/ t.at = "set-push"),
         t.at = "push" => t.agent = s.agent,
         s.at = "ssh-add" => t.agent = "loaded",
         s.at = "discover" => t.headers # "unasked"
  PROVE  Holds(t)
  <1>1. \/ s.at \in UserPlaces /\ t.at \in UserPlaces /\ s.at \notin Saving \cup Restoring
           /\ t.at \notin Saving
        \/ s.at \in PushPlaces /\ t.at \in PushPlaces /\ s.at \notin Saving \cup Restoring
           /\ t.at \notin Saving
        \/ s.at \notin UserPlaces \cup PushPlaces /\ s.at \notin Saving \cup Restoring
           /\ (t.at = "save-push" \/ t.at \notin UserPlaces \cup PushPlaces)
    BY DEF Hops, UserPlaces, PushPlaces, Saving, Restoring
  <1>2. t.method = s.method
    BY DEF Carries
  <1>3. \/ KeysOf(t) = KeysOf(s) /\ t.at \notin Saving
        \/ KeysOf(s) = {} /\ t.at = "save-push"
        \/ KeysOf(s) = {} /\ KeysOf(t) = {}
    BY <1>1, <1>2, KeysOfIs, KeysOfSame
  <1>4. t.at \in Looping => Elems(t.todo) = KeysOf(t)
    BY DEF Fresh
  <1>5. Altered(s) = KeysOf(s) /\ Unsaved(s) = {}
    BY <1>1 DEF Altered, Unsaved
  <1>6. /\ t.at \in Saving => Altered(t) = {} /\ Unsaved(t) = KeysOf(t)
        /\ t.at \notin Saving => Altered(t) = KeysOf(t) /\ Unsaved(t) = {}
    BY <1>4 DEF Altered, Unsaved, Saving, Restoring, Looping
  <1>7. Preserves(t)
    <2>1. Altered(s) \subseteq Altered(t) /\ KeysOf(t) \ Unsaved(t) \subseteq KeysOf(s) \ Unsaved(s)
      BY <1>3, <1>5, <1>6 DEF Saving
    <2>. QED  BY <2>1, PreservedByCarrying DEF Holds
  <1>8. Confined(t)
    <2>1. s.env # {} => t.at = "refused"
      BY DEF Holds, Confined, Hops
    <2>2. s.agent = "loaded" => t.at \in {"set-push", "push", "kill-agent", "restore-push"}
      BY DEF Holds, Confined, Hops
    <2>. QED  BY <2>1, <2>2 DEF Confined
  <1>9. Armed(t)
    <2>1. t.at \in {"agent", "ssh-add"} => t.method = "key"
      BY <1>2 DEF Holds, Armed, Hops
    <2>2. t.at # "discover" /\ t.at # "check-remote"
      BY DEF Hops
    <2>3. CASE t.at = "set-push"
      <3>1. s.at \in {"ssh-add", "discover"}
        BY <2>3 DEF Hops
      <3>2. /\ t.method = "key" => t.agent = "loaded"
            /\ t.method = "token" => t.headers # "unasked"
        BY <1>2, <3>1 DEF Holds, Armed
      <3>3. Elems(t.todo) = KeysOf(t)
        BY <1>4, <2>3 DEF Looping
      <3>. QED  BY <2>1, <2>2, <2>3, <3>2, <3>3 DEF Armed
    <2>4. CASE t.at = "push"
      <3>1. s.at = "check-remote" /\ t.agent = s.agent /\ (s.headers # "unasked" => t.headers # "unasked")
        BY <2>4 DEF Hops
      <3>2. KeysOf(t) = KeysOf(s)
        BY <1>3, <2>4, <3>1, KeysOfIs DEF PushPlaces, UserPlaces, JobState
      <3>3. t.config = s.config
        BY DEF Carries
      <3>. QED  BY <1>2, <2>1, <2>2, <2>4, <3>1, <3>2, <3>3 DEF Holds, Armed
    <2>. QED  BY <2>1, <2>2, <2>3, <2>4 DEF Armed
  <1>. QED  BY <1>7, <1>8, <1>9 DEF Holds

\* Where a command's failure is thrown.
Throwing ==
  {"set-user", "check-local", "tag", "rev-parse", "find-local", "agent", "ssh-add", "set-push",
   "check-remote", "push", "changelog", "publish"}

\* A panic reaches what restores the keys that are altered, and what kills the agent.
LEMMA ThrownHolds ==
  ASSUME TypeOK, NEW j \in Job, Holds(job[j]), job[j].at \in Throwing,
         NEW agent \in {job[j].agent, "none", "empty"}, NEW t,
         t = [Thrown(j) EXCEPT !.agent = agent] \/ (t = Thrown(j) /\ agent = job[j].agent)
  PROVE  t \in JobState /\ Holds(t)
  <1> DEFINE s == job[j]
  <1>1. s \in JobState /\ agent \in {"none", "empty", "loaded"}
    BY DEF TypeOK, JobState
  <1>2. Unwind(s.at) \in Place
    BY DEF Unwind, Place
  <1>3. /\ t \in JobState /\ t.at = Unwind(s.at) /\ Carries(s, t) /\ Fresh(t)
        /\ t.env = s.env /\ t.headers = s.headers /\ t.agent = agent
    <2> DEFINE m == Moved(j, Unwind(s.at))
    <2>1. /\ m \in JobState /\ m.at = Unwind(s.at) /\ Carries(s, m) /\ Fresh(m)
          /\ m.env = s.env /\ m.agent = s.agent /\ m.headers = s.headers
      BY <1>2, MovedKeeps
    <2>2. \/ t = [[m EXCEPT !.panics = TRUE] EXCEPT !.agent = agent]
          \/ t = [m EXCEPT !.panics = TRUE] /\ agent = s.agent
      BY DEF Thrown
    <2>. HIDE DEF m
    <2>3. /\ t \in JobState /\ t.at = m.at /\ t.todo = m.todo /\ t.method = m.method
          /\ t.config = m.config /\ t.before = m.before /\ t.saved = m.saved /\ t.spoilt = m.spoilt
          /\ t.env = m.env /\ t.headers = m.headers /\ t.agent = agent
      <3> DEFINE p == [m EXCEPT !.panics = TRUE]
      <3>1. /\ p \in JobState /\ p.at = m.at /\ p.todo = m.todo /\ p.method = m.method
            /\ p.config = m.config /\ p.before = m.before /\ p.saved = m.saved /\ p.spoilt = m.spoilt
            /\ p.env = m.env /\ p.headers = m.headers /\ p.agent = s.agent
        BY <2>1 DEF JobState
      <3>. HIDE DEF p, s
      <3>2. CASE t = [p EXCEPT !.agent = agent]
        BY <1>1, <3>1, <3>2 DEF JobState
      <3>3. CASE t = p /\ agent = s.agent
        BY <3>1, <3>3
      <3>. QED  BY <2>2, <3>2, <3>3 DEF p
    <2>4. KeysOf(t) = KeysOf(m)
      BY <2>3 DEF KeysOf
    <2>. QED  BY <2>1, <2>3, <2>4 DEF Carries, Fresh
  <1>4. /\ s.at \in {"set-user", "check-local", "tag", "rev-parse"} => t.at = "restore-user"
        /\ s.at \in {"set-push", "check-remote", "push"} => t.at = "kill-agent"
        /\ s.at \in {"agent", "ssh-add"} => t.at = "restore-push"
        /\ s.at \in {"find-local", "changelog", "publish"} => t.at = "failed"
    BY <1>3 DEF Unwind
  <1>. HIDE DEF s
  <1>5. \/ s.at \in UserPlaces /\ t.at \in UserPlaces
        \/ s.at \in PushPlaces /\ t.at \in PushPlaces
        \/ s.at \notin UserPlaces \cup PushPlaces /\ t.at \notin UserPlaces \cup PushPlaces
    BY <1>4 DEF Throwing, UserPlaces, PushPlaces, s
  <1>6. KeysOf(t) = KeysOf(s)
    BY <1>1, <1>3, <1>5, KeysOfIs, KeysOfSame DEF Carries
  <1>7. Preserves(t)
    <2>1. Altered(s) = KeysOf(s) /\ Unsaved(s) = {}
      BY DEF Throwing, Altered, Unsaved, Saving, Restoring, s
    <2>2. t.at \notin Saving
      BY <1>4 DEF Throwing, Saving, s
    <2>3. Altered(t) = KeysOf(t) /\ Unsaved(t) = {}
      BY <1>3, <2>2 DEF Altered, Unsaved, Restoring, Looping, Fresh
    <2>. QED  BY <1>1, <1>3, <1>6, <2>1, <2>3, PreservedByCarrying DEF Holds, s
  <1>8. Confined(t)
    <2>1. s.env = {}
      BY DEF Holds, Confined, Throwing, s
    <2>2. t.agent = "loaded" => s.agent = "loaded"
      BY <1>3 DEF s
    <2>3. s.agent = "loaded" => t.at = "kill-agent"
      BY <1>4 DEF Holds, Confined, Throwing, s
    <2>. QED  BY <1>3, <2>1, <2>2, <2>3 DEF Confined
  <1>9. Armed(t)
    BY <1>4 DEF Throwing, Armed, s
  <1>. QED  BY <1>3, <1>7, <1>8, <1>9 DEF Holds
-----------------------------------------------------------------------------
LEMMA HoldsAfter ==
  ASSUME TypeOK, \A i \in Job : Holds(job[i]), NEW j \in Job, NEW s, Becomes(j, s), Holds(s)
  PROVE  \A i \in Job : Holds(job'[i])
  <1>1. job'[j] = s /\ \A i \in Job \ {j} : job'[i] = job[i]
    BY DEF TypeOK, Becomes
  <1>. QED  BY <1>1

LEMMA InitHolds == Init => \A j \in Job : Holds(job[j])
  <1> SUFFICES ASSUME Init, NEW j \in Job PROVE Holds(job[j])
    OBVIOUS
  <1>1. /\ job[j].at = "idle" /\ job[j].env = {} /\ job[j].agent = "none"
        /\ job[j].config = job[j].before
    BY DEF Init
  <1>2. KeysOf(job[j]) = {}
    BY <1>1 DEF KeysOf, UserPlaces, PushPlaces
  <1>. QED  BY <1>1, <1>2 DEF Holds, Preserves, Confined, Armed, Looping

LEMMA StartHolds ==
  ASSUME TypeOK, \A i \in Job : Holds(job[i]), NEW j \in Job, Start(j)
  PROVE  \A i \in Job : Holds(job'[i])
  <1>1. PICK secrets \in SUBSET {"TAG_TOKEN", "DEPLOY_KEY"}, fresh \in BOOLEAN,
             tag \in {NoTag, remote, job[j].tag}, config \in CloneConfigs \cup {job[j].config} :
          Becomes(j, [Moved(j, "start") EXCEPT
            !.panics = FALSE, !.attempt = @ + 1, !.env = secrets, !.tag = tag,
            !.config = config, !.before = config, !.saved = config, !.agent = "none",
            !.headers = "unasked", !.spoilt = "no"])
    BY DEF Start
  <1> DEFINE m == Moved(j, "start")
             t == [m EXCEPT
            !.panics = FALSE, !.attempt = @ + 1, !.env = secrets, !.tag = tag,
            !.config = config, !.before = config, !.saved = config, !.agent = "none",
            !.headers = "unasked", !.spoilt = "no"]
  <1>2. m \in JobState /\ m.at = "start"
    BY MovedKeeps DEF Place
  <1>3. Becomes(j, t)
    BY <1>1
  <1>. HIDE DEF m
  <1>4. t.at = "start" /\ t.agent = "none" /\ t.config = t.before
    BY <1>2 DEF JobState
  <1>. HIDE DEF t
  <1>5. KeysOf(t) = {}
    BY <1>4 DEF KeysOf, UserPlaces, PushPlaces
  <1>6. Holds(t)
    BY <1>4, <1>5 DEF Holds, Preserves, Confined, Armed, Looping
  <1>. QED  BY <1>3, <1>6, HoldsAfter

LEMMA CredentialsHolds ==
  ASSUME TypeOK, \A i \in Job : Holds(job[i]), NEW j \in Job, Credentials(j)
  PROVE  \A i \in Job : Holds(job'[i])
  <1> DEFINE m == Moved(j, "save-user")
             purged == [m EXCEPT !.env = {},
                !.method = IF "TAG_TOKEN" \in job[j].env THEN "token" ELSE "key"]
             refused == [purged EXCEPT !.at = "failed", !.panics = TRUE, !.todo = <<>>]
  <1>1. m \in JobState /\ m.at = "save-user" /\ Carries(job[j], m) /\ Fresh(m) /\ m.agent = job[j].agent
    BY MovedKeeps DEF Place
  <1>2. Becomes(j, purged) \/ Becomes(j, refused)
    BY DEF Credentials
  <1>3. job[j].at = "start" /\ job[j] \in JobState
    BY DEF Credentials, TypeOK
  <1>4. \A k \in Key : job[j].spoilt = "no" => Get(job[j].config, k) = Get(job[j].before, k)
    BY <1>3 DEF Holds, Preserves, Altered, KeysOf, UserPlaces, PushPlaces, Saving, Restoring
  <1>5. job[j].agent # "loaded"
    BY <1>3 DEF Holds, Confined
  <1>. HIDE DEF m
  <1>6. /\ purged \in JobState /\ purged.at = "save-user" /\ purged.env = {} /\ purged.agent = m.agent
        /\ purged.config = m.config /\ purged.before = m.before /\ purged.spoilt = m.spoilt
        /\ purged.todo = m.todo
    BY <1>1 DEF JobState
  <1>. HIDE DEF purged
  <1>7. Holds(purged)
    <2>1. KeysOf(purged) = {"user.name", "user.email"} /\ KeysOf(m) = {"user.name", "user.email"}
      BY <1>1, <1>6, KeysOfIs DEF UserPlaces
    <2>2. Elems(purged.todo) = KeysOf(purged)
      BY <1>1, <1>6, <2>1 DEF Fresh, Looping
    <2>3. Altered(purged) = {} /\ Unsaved(purged) = KeysOf(purged)
      BY <1>6, <2>2 DEF Altered, Unsaved, Saving
    <2>. QED  BY <1>1, <1>4, <1>5, <1>6, <2>2, <2>3 DEF Holds, Preserves, Confined, Armed, Carries
  <1>8. Holds(refused)
    <2>1. /\ refused.at = "failed" /\ refused.env = {} /\ refused.agent = m.agent
          /\ refused.config = m.config /\ refused.before = m.before /\ refused.spoilt = m.spoilt
      BY <1>6 DEF JobState
    <2>. HIDE DEF refused
    <2>2. KeysOf(refused) = {}
      BY <2>1 DEF KeysOf, UserPlaces, PushPlaces
    <2>. QED  BY <1>1, <1>4, <1>5, <2>1, <2>2 DEF Holds, Preserves, Confined, Armed, Carries, Looping
  <1>. HIDE DEF refused
  <1>. QED  BY <1>2, <1>7, <1>8, HoldsAfter

\* The place a loop comes to, and what it has left.
After(j, to) ==
  IF Tail(job[j].todo) # <<>> THEN [job[j] EXCEPT !.todo = Tail(job[j].todo)] ELSE Moved(j, to)

LEMMA LoopLeaves ==
  ASSUME TypeOK, NEW j \in Job, NEW to \in Place, job[j].at \in Looping
  PROVE  /\ After(j, to) \in JobState /\ Carries(job[j], After(j, to))
         /\ After(j, to).env = job[j].env /\ After(j, to).agent = job[j].agent
         /\ After(j, to).headers = job[j].headers
         /\ Head(job[j].todo) \in Key
         /\ \/ /\ After(j, to).at = job[j].at
               /\ Elems(job[j].todo) = {Head(job[j].todo)} \cup Elems(After(j, to).todo)
            \/ /\ After(j, to).at = to /\ Fresh(After(j, to))
               /\ Elems(job[j].todo) = {Head(job[j].todo)}
  <1> DEFINE t == After(j, to)
  <1>1. job[j] \in JobState /\ job[j].todo \in Seq(Key) /\ job[j].todo # <<>>
    BY DEF TypeOK, JobState, Looping
  <1>2. /\ Elems(job[j].todo) = {Head(job[j].todo)} \cup Elems(Tail(job[j].todo))
        /\ Head(job[j].todo) \in Key /\ Tail(job[j].todo) \in Seq(Key)
        /\ Tail(job[j].todo) = <<>> => Elems(job[j].todo) = {Head(job[j].todo)}
    BY <1>1, ElemsTail
  <1>3. CASE Tail(job[j].todo) # <<>>
    <2>1. /\ t \in JobState /\ Carries(job[j], t) /\ t.todo = Tail(job[j].todo) /\ t.at = job[j].at
          /\ t.env = job[j].env /\ t.agent = job[j].agent /\ t.headers = job[j].headers
      BY <1>1, <1>2, <1>3 DEF JobState, Carries, After
    <2>. QED  BY <1>2, <2>1
  <1>4. CASE Tail(job[j].todo) = <<>>
    BY <1>2, <1>4, MovedKeeps DEF After
  <1>. QED  BY <1>3, <1>4

LEMMA SaveHolds ==
  ASSUME TypeOK, \A i \in Job : Holds(job[i]), NEW j \in Job, Save(j)
  PROVE  \A i \in Job : Holds(job'[i])
  <1> DEFINE s == job[j]
             k == Head(s.todo)
             to == CASE s.at = "save-user" -> "set-user"
                     [] s.at = "save-push" /\ s.method = "key" -> "agent"
                     [] OTHER -> "discover"
             read == After(j, to)
             good == [read EXCEPT !.saved[k] = Get(s.config, k)]
             bad == [read EXCEPT !.saved[k] = "unset", !.spoilt = IF @ = "no" THEN "read" ELSE @]
  <1>1. s.at \in Saving /\ s.at \in Looping /\ s \in JobState /\ Holds(s)
    BY DEF Save, Saving, Looping, TypeOK
  <1>2. /\ to \in {"set-user", "agent", "discover"} /\ to \in Place
        /\ s.at = "save-user" => to = "set-user"
        /\ s.at = "save-push" => to = IF s.method = "key" THEN "agent" ELSE "discover"
    BY <1>1 DEF Place, Saving
  <1>3. read = After(j, to)
    OBVIOUS
  <1>4. Becomes(j, good) \/ Becomes(j, bad)
    BY DEF Save, After
  <1>. HIDE DEF read, to
  <1>5. /\ read \in JobState /\ Carries(s, read) /\ read.env = s.env /\ read.agent = s.agent /\ k \in Key
        /\ \/ read.at = s.at /\ Elems(s.todo) = {k} \cup Elems(read.todo)
           \/ read.at = to /\ Fresh(read) /\ Elems(s.todo) = {k}
    BY <1>1, <1>2, <1>3, LoopLeaves
  <1>. HIDE DEF s, k
  <1>6. KeysOf(read) = KeysOf(s)
    <2>1. \/ s.at \in UserPlaces /\ read.at \in UserPlaces
          \/ s.at \in PushPlaces /\ read.at \in PushPlaces
      BY <1>1, <1>2, <1>5 DEF Saving, UserPlaces, PushPlaces
    <2>. QED  BY <1>1, <1>5, <2>1, KeysOfSame DEF Carries
  <1>7. Get(s.config, k) \in Value
    BY <1>1, <1>5 DEF Get, JobState, Value
  <1>8. ASSUME NEW t \in JobState, t.at = read.at, t.env = read.env, t.agent = read.agent,
               t.method = read.method, t.todo = read.todo
        PROVE  /\ Confined(t) /\ Armed(t)
               /\ t.at \in Looping => Elems(t.todo) \subseteq KeysOf(t)
               /\ KeysOf(t) = KeysOf(s)
    <2>1. KeysOf(t) = KeysOf(s)
      BY <1>6, <1>8 DEF KeysOf
    <2>2. Confined(t)
      BY <1>1, <1>2, <1>5, <1>8 DEF Holds, Confined, Saving
    <2>3. Armed(t)
      <3>1. t.at = s.at \/ t.at = to
        BY <1>5, <1>8
      <3>2. t.method = s.method /\ s.method \in {"token", "key"}
        BY <1>1, <1>5, <1>8 DEF Carries, JobState
      <3>. QED  BY <1>1, <1>2, <3>1, <3>2 DEF Armed, Saving
    <2>4. t.at \in Looping => Elems(t.todo) \subseteq KeysOf(t)
      BY <1>1, <1>5, <1>6, <1>8, <2>1 DEF Holds, Preserves, Fresh
    <2>. QED  BY <2>1, <2>2, <2>3, <2>4
  <1>9. Holds(good)
    <2>1. /\ good \in JobState /\ good.at = read.at /\ good.env = read.env /\ good.agent = read.agent
          /\ good.method = read.method /\ good.todo = read.todo /\ good.config = read.config
          /\ good.before = read.before /\ good.spoilt = read.spoilt
          /\ good.saved = [read.saved EXCEPT ![k] = Get(s.config, k)]
      BY <1>5, <1>7 DEF JobState
    <2>. HIDE DEF good
    <2>2. KeysOf(good) = KeysOf(s) /\ KeysOf(s) \subseteq Key
      BY <1>1, <1>8, <2>1, KeysOfType
    <2>3. Altered(s) = {} /\ Unsaved(s) = Elems(s.todo)
      BY <1>1 DEF Altered, Unsaved
    <2>4. Elems(s.todo) \subseteq Unsaved(good) \cup {k}
      BY <1>1, <1>5, <2>1 DEF Unsaved
    <2>5. ASSUME s.spoilt = "no" PROVE \A x \in Key : Get(good.config, x) = Get(good.before, x)
      BY <1>1, <1>5, <2>1, <2>3, <2>5 DEF Holds, Preserves, Carries
    <2>6. ASSUME s.spoilt = "no", NEW x \in KeysOf(good) \ Unsaved(good)
          PROVE  good.saved[x] = Get(good.before, x)
      <3>1. CASE x = k
        <4>1. good.saved[x] = Get(s.config, x)
          BY <1>5, <2>1, <3>1 DEF JobState
        <4>. QED  BY <1>5, <2>1, <2>5, <2>6, <3>1, <4>1 DEF Carries
      <3>2. CASE x # k
        <4>1. good.saved[x] = s.saved[x]
          BY <1>5, <2>1, <2>2, <3>2 DEF JobState, Carries
        <4>2. x \in KeysOf(s) \ Unsaved(s)
          BY <2>2, <2>3, <2>4, <3>2
        <4>. QED  BY <1>1, <1>5, <2>1, <2>6, <4>1, <4>2 DEF Holds, Preserves, Carries
      <3>. QED  BY <3>1, <3>2
    <2>. QED  BY <1>5, <1>8, <2>1, <2>5, <2>6 DEF Holds, Preserves, Carries
  <1>10. Holds(bad)
    <2>1. /\ bad \in JobState /\ bad.at = read.at /\ bad.env = read.env /\ bad.agent = read.agent
          /\ bad.method = read.method /\ bad.todo = read.todo /\ bad.spoilt # "no"
      BY <1>5 DEF JobState, Value
    <2>. HIDE DEF bad
    <2>. QED  BY <1>8, <2>1 DEF Holds, Preserves
  <1>. HIDE DEF good, bad
  <1>. QED  BY <1>4, <1>9, <1>10, HoldsAfter

LEMMA SetHolds ==
  ASSUME TypeOK, \A i \in Job : Holds(job[i]), NEW j \in Job, Set(j)
  PROVE  \A i \in Job : Holds(job'[i])
  <1> DEFINE s == job[j]
             k == Head(s.todo)
             to == IF s.at = "set-user" THEN "check-local" ELSE "check-remote"
             rest == After(j, to)
             t == [rest EXCEPT !.config[k] = "ours"]
  <1>1. s.at \in {"set-user", "set-push"} /\ s.at \in Looping /\ s \in JobState /\ Holds(s)
    BY DEF Set, Looping, TypeOK
  <1>2. /\ to \in {"check-local", "check-remote"} /\ to \in Place
        /\ (s.at = "set-user") = (to = "check-local")
    BY DEF Place
  <1>3. rest = After(j, to)
    OBVIOUS
  <1>4. Becomes(j, t) \/ Throws(j)
    BY DEF Set, After
  <1>. HIDE DEF rest, to
  <1>5. /\ rest \in JobState /\ Carries(s, rest) /\ rest.env = s.env /\ rest.agent = s.agent /\ k \in Key
        /\ rest.headers = s.headers
        /\ \/ rest.at = s.at /\ Elems(s.todo) = {k} \cup Elems(rest.todo)
           \/ rest.at = to /\ Elems(s.todo) = {k}
    BY <1>1, <1>2, <1>3, LoopLeaves
  <1>6. Throws(j) => \A i \in Job : Holds(job'[i])
    BY <1>1, ThrownHolds, HoldsAfter DEF Throws, Throwing
  <1>. HIDE DEF s, k
  <1>7. /\ t \in JobState /\ t.at = rest.at /\ t.env = rest.env /\ t.agent = rest.agent
        /\ t.method = rest.method /\ t.todo = rest.todo /\ t.headers = rest.headers
        /\ t.before = rest.before /\ t.saved = rest.saved /\ t.spoilt = rest.spoilt
        /\ t.config = [rest.config EXCEPT ![k] = "ours"]
    BY <1>5 DEF JobState, Value
  <1>. HIDE DEF t
  <1>8. /\ KeysOf(t) = KeysOf(s) /\ KeysOf(s) \subseteq Key /\ t.method = s.method
    <2>1. \/ s.at \in UserPlaces /\ t.at \in UserPlaces
          \/ s.at \in PushPlaces /\ t.at \in PushPlaces
      BY <1>1, <1>2, <1>5, <1>7 DEF UserPlaces, PushPlaces
    <2>. QED  BY <1>1, <1>5, <1>7, <2>1, KeysOfSame, KeysOfType DEF Carries
  <1>9. Altered(s) = KeysOf(s) /\ Altered(t) = KeysOf(s) /\ Unsaved(s) = {} /\ Unsaved(t) = {}
    BY <1>1, <1>2, <1>5, <1>7, <1>8 DEF Altered, Unsaved, Saving, Restoring
  <1>10. Elems(s.todo) \subseteq KeysOf(s) /\ k \in KeysOf(s)
    BY <1>1, <1>5 DEF Holds, Preserves
  <1>11. /\ \A x \in Key \ {k} : t.config[x] = s.config[x]
         /\ t.config[k] = "ours"
    BY <1>1, <1>5, <1>7 DEF JobState, Carries
  <1>12. Preserves(t)
    <2>1. \A x \in Key \ KeysOf(s) : Get(t.config, x) = Get(s.config, x)
      BY <1>10, <1>11 DEF Get
    <2>2. t.at \in Looping => Elems(t.todo) \subseteq KeysOf(t)
      BY <1>2, <1>5, <1>7, <1>8, <1>10 DEF Looping
    <2>. QED  BY <1>1, <1>5, <1>7, <1>8, <1>9, <2>1, <2>2 DEF Holds, Preserves, Carries
  <1>13. Confined(t)
    BY <1>1, <1>2, <1>5, <1>7 DEF Holds, Confined
  <1>14. Armed(t)
    <2>1. t.at \in {"set-user", "set-push", "check-local", "check-remote"}
      BY <1>1, <1>2, <1>5, <1>7
    <2>2. CASE t.at \in {"set-push", "check-remote"}
      <3>1. s.at = "set-push"
        BY <1>1, <1>2, <1>5, <1>7, <2>2
      <3>2. \A x \in KeysOf(s) : s.config[x] = "ours" \/ x \in Elems(s.todo)
        BY <1>1, <3>1 DEF Holds, Armed
      <3>3. Elems(s.todo) \subseteq {k} \cup (IF t.at = "set-push" THEN Elems(t.todo) ELSE {})
        BY <1>2, <1>5, <1>7, <2>2, <3>1
      <3>4. \A x \in KeysOf(t) : t.config[x] = "ours" \/ (t.at = "set-push" /\ x \in Elems(t.todo))
        BY <1>8, <1>11, <3>2, <3>3
      <3>. QED  BY <1>1, <1>5, <1>7, <1>8, <2>1, <2>2, <3>1, <3>4 DEF Holds, Armed
    <2>. QED  BY <2>1, <2>2 DEF Armed
  <1>15. Becomes(j, t) => \A i \in Job : Holds(job'[i])
    BY <1>12, <1>13, <1>14, HoldsAfter DEF Holds
  <1>. QED  BY <1>4, <1>6, <1>15

\* Restoring the value git saw makes git see it again.
LEMMA GetRestored ==
  ASSUME NEW c \in [Key -> Value], NEW b \in [Key -> Value], NEW k \in Key
  PROVE  Get([c EXCEPT ![k] = Get(b, k)], k) = Get(b, k)
  BY DEF Get

LEMMA RestoreHolds ==
  ASSUME TypeOK, \A i \in Job : Holds(job[i]), NEW j \in Job, Restore(j)
  PROVE  \A i \in Job : Holds(job'[i])
  <1> DEFINE s == job[j]
             k == Head(s.todo)
             to == AfterRestore(j, s.panics)
             rest == After(j, to)
             good == [rest EXCEPT !.config[k] = s.saved[k]]
             silent == [rest EXCEPT !.spoilt = "restore"]
             failed == Moved(j, "failed")
             bad == [failed EXCEPT !.panics = TRUE, !.spoilt = "restore"]
  <1>1. /\ s.at \in Restoring /\ s.at \in Looping /\ s \in JobState /\ Holds(s)
        /\ s.at \notin Saving
    BY DEF Restore, Saving, Restoring, Looping, TypeOK
  <1>2. to \in {"failed", "find-local", "changelog"} /\ to \in Place
    BY DEF Place, AfterRestore
  <1>3. rest = After(j, to)
    OBVIOUS
  <1>4. Becomes(j, good) \/ Becomes(j, silent) \/ Becomes(j, bad)
    BY DEF Restore, After
  <1>. HIDE DEF rest, to
  <1>5. /\ rest \in JobState /\ Carries(s, rest) /\ rest.env = s.env /\ rest.agent = s.agent /\ k \in Key
        /\ \/ rest.at = s.at /\ Elems(s.todo) = {k} \cup Elems(rest.todo)
           \/ rest.at = to /\ Elems(s.todo) = {k}
    BY <1>1, <1>2, <1>3, LoopLeaves
  <1>6. failed \in JobState /\ failed.at = "failed" /\ failed.env = s.env /\ failed.agent = s.agent
    BY MovedKeeps DEF Place
  <1>. HIDE DEF s, k, failed
  <1>7. s.env = {} /\ s.agent # "loaded" /\ Elems(s.todo) \subseteq KeysOf(s)
    BY <1>1 DEF Holds, Confined, Preserves, Restoring
  <1>8. ASSUME NEW t \in JobState, t.at \in {s.at, "failed", "find-local", "changelog"},
               t.env = s.env, t.agent = s.agent
        PROVE  Confined(t) /\ Armed(t)
    BY <1>1, <1>7, <1>8 DEF Confined, Armed, Restoring
  <1>9. rest.at = s.at => KeysOf(rest) = KeysOf(s)
    BY <1>1, <1>5 DEF KeysOf, Carries
  <1>10. rest.at # s.at => KeysOf(rest) = {} /\ rest.at \notin Looping
    <2>1. rest.at # s.at => rest.at \notin UserPlaces \cup PushPlaces
      BY <1>2, <1>5 DEF UserPlaces, PushPlaces
    <2>. QED  BY <1>2, <1>5, <2>1, KeysOfIs DEF Looping
  <1>11. rest.at = s.at => Elems(rest.todo) \subseteq KeysOf(s)
    BY <1>1, <1>2, <1>5, <1>7 DEF Restoring
  <1>12. Holds(good)
    <2>1. /\ good \in JobState /\ good.at = rest.at /\ good.env = rest.env /\ good.agent = rest.agent
          /\ good.method = rest.method /\ good.todo = rest.todo /\ good.spoilt = rest.spoilt
          /\ good.before = rest.before /\ good.saved = rest.saved
          /\ good.config = [rest.config EXCEPT ![k] = s.saved[k]]
      BY <1>1, <1>5 DEF JobState
    <2>. HIDE DEF good
    <2>2. KeysOf(good) = KeysOf(rest)
      BY <2>1 DEF KeysOf
    <2>3. KeysOf(good) = KeysOf(s) \/ KeysOf(good) = {}
      BY <1>9, <1>10, <2>2
    <2>4. Altered(s) = Elems(s.todo) /\ Unsaved(s) = {} /\ Unsaved(good) = {}
      BY <1>1, <1>2, <1>5, <2>1 DEF Altered, Unsaved, Saving, Restoring
    <2>5. Elems(s.todo) \subseteq {k} \cup Altered(good)
      BY <1>1, <1>5, <2>1 DEF Altered
    <2>6. ASSUME s.spoilt = "no" PROVE \A x \in Key \ Altered(good) : Get(good.config, x) = Get(good.before, x)
      <3>1. s.saved[k] = Get(s.before, k)
        BY <1>1, <1>5, <1>7, <2>4, <2>6 DEF Holds, Preserves
      <3>2. Get(good.config, k) = Get(good.before, k)
        <4>1. /\ good.config = [s.config EXCEPT ![k] = Get(s.before, k)] /\ good.before = s.before
              /\ s.config \in [Key -> Value] /\ s.before \in [Key -> Value]
          BY <1>1, <1>5, <2>1, <3>1 DEF Carries, JobState
        <4>. QED  BY <1>5, <4>1, GetRestored
      <3>3. ASSUME NEW x \in Key \ Altered(good), x # k PROVE Get(good.config, x) = Get(good.before, x)
        <4>1. good.config[x] = s.config[x]
          BY <1>1, <1>5, <2>1, <3>3 DEF Carries, JobState
        <4>2. x \notin Altered(s)
          BY <2>4, <2>5, <3>3
        <4>3. Get(s.config, x) = Get(s.before, x)
          BY <1>1, <2>6, <4>2 DEF Holds, Preserves
        <4>. QED  BY <1>5, <2>1, <4>1, <4>3 DEF Get, Carries
      <3>. QED  BY <3>2, <3>3
    <2>7. ASSUME s.spoilt = "no" PROVE \A x \in KeysOf(good) : good.saved[x] = Get(good.before, x)
      BY <1>1, <1>5, <2>1, <2>3, <2>4, <2>7 DEF Holds, Preserves, Carries
    <2>8. good.at \in Looping => Elems(good.todo) \subseteq KeysOf(good)
      BY <1>9, <1>10, <1>11, <2>1, <2>2
    <2>9. Confined(good) /\ Armed(good)
      BY <1>2, <1>5, <1>8, <2>1
    <2>. QED  BY <1>5, <2>1, <2>4, <2>6, <2>7, <2>8, <2>9 DEF Holds, Preserves, Carries
  <1>13. Holds(silent)
    <2>1. /\ silent \in JobState /\ silent.at = rest.at /\ silent.env = rest.env
          /\ silent.agent = rest.agent /\ silent.method = rest.method /\ silent.todo = rest.todo
          /\ silent.spoilt = "restore"
      BY <1>5 DEF JobState
    <2>. HIDE DEF silent
    <2>2. silent.at \in Looping => Elems(silent.todo) \subseteq KeysOf(silent)
      <3>1. KeysOf(silent) = KeysOf(rest)
        BY <2>1 DEF KeysOf
      <3>. QED  BY <1>9, <1>10, <1>11, <2>1, <3>1
    <2>3. Confined(silent) /\ Armed(silent)
      BY <1>2, <1>5, <1>8, <2>1
    <2>. QED  BY <2>1, <2>2, <2>3 DEF Holds, Preserves
  <1>14. Holds(bad)
    <2>1. /\ bad \in JobState /\ bad.at = "failed" /\ bad.env = s.env /\ bad.agent = s.agent
          /\ bad.spoilt = "restore"
      BY <1>6 DEF JobState
    <2>. HIDE DEF bad
    <2>. QED  BY <1>8, <2>1 DEF Holds, Preserves, Looping
  <1>. HIDE DEF good, silent, bad
  <1>. QED  BY <1>4, <1>12, <1>13, <1>14, HoldsAfter

\* Steps that go on to the next place or throw.
LEMMA PlainHolds ==
  ASSUME TypeOK, \A i \in Job : Holds(job[i]), NEW j \in Job,
         \/ Refuse(j) \/ CheckLocal(j) \/ RevParse(j) \/ FindLocal(j) \/ CheckRemote(j)
         \/ Push(j) \/ GetChangelog(j) \/ Publish(j)
  PROVE  \A i \in Job : Holds(job'[i])
  <1>1. job[j] \in JobState /\ Holds(job[j])
    BY DEF TypeOK
  <1>2. \/ job[j].at \in Throwing /\ Throws(j)
        \/ \E to \in Place : <<job[j].at, to>> \in Hops /\ to \notin {"set-push", "restore-push"} /\ Goes(j, to)
    BY DEF Refuse, CheckLocal, RevParse, FindLocal, CheckRemote, Push, GetChangelog, Publish, Goes,
           Throwing, Hops, Place
  <1>3. CASE job[j].at \in Throwing /\ Throws(j)
    BY <1>3, ThrownHolds, HoldsAfter DEF Throws
  <1>4. ASSUME NEW to \in Place, <<job[j].at, to>> \in Hops, to \notin {"set-push", "restore-push"}, Goes(j, to)
        PROVE  \A i \in Job : Holds(job'[i])
    <2> DEFINE t == Moved(j, to)
    <2>1. /\ t \in JobState /\ t.at = to /\ Carries(job[j], t) /\ Fresh(t) /\ t.env = job[j].env
          /\ t.agent = job[j].agent /\ t.headers = job[j].headers
      BY MovedKeeps
    <2>2. Becomes(j, t)
      BY <1>4 DEF Goes
    <2>. HIDE DEF t
    <2>3. job[j].at \notin {"ssh-add", "discover"}
      BY <1>4 DEF Hops
    <2>4. Holds(t)
      BY <1>1, <1>4, <2>1, <2>3, HopHolds
    <2>. QED  BY <2>2, <2>4, HoldsAfter
  <1>. QED  BY <1>2, <1>3, <1>4

LEMMA FreshSame ==
  ASSUME NEW m, NEW t, t.at = m.at, t.todo = m.todo, t.method = m.method, Fresh(m)
  PROVE  Fresh(t)
  <1>1. KeysOf(t) = KeysOf(m)
    BY DEF KeysOf
  <1>. QED  BY <1>1 DEF Fresh

\* Steps that go on with another tag, agent or list of headers, or throw.
LEMMA ChangingHolds ==
  ASSUME TypeOK, \A i \in Job : Holds(job[i]), NEW j \in Job,
         CreateTag(j) \/ Discover(j) \/ StartAgent(j) \/ AddKey(j) \/ KillAgent(j)
  PROVE  \A i \in Job : Holds(job'[i])
  <1>1. job[j] \in JobState /\ Holds(job[j])
    BY DEF TypeOK
  <1>2. ASSUME job[j].at \in Throwing, NEW agent \in {job[j].agent, "none", "empty"},
               (Throws(j) /\ agent = job[j].agent) \/ Becomes(j, [Thrown(j) EXCEPT !.agent = agent])
        PROVE  \A i \in Job : Holds(job'[i])
    <2>1. CASE Throws(j) /\ agent = job[j].agent
      BY <1>1, <1>2, <2>1, ThrownHolds, HoldsAfter DEF Throws
    <2>2. CASE Becomes(j, [Thrown(j) EXCEPT !.agent = agent])
      BY <1>1, <1>2, <2>2, ThrownHolds, HoldsAfter
    <2>. QED  BY <1>2, <2>1, <2>2
  <1>3. CASE CreateTag(j)
    <2> DEFINE m == Moved(j, "rev-parse")
               t == [m EXCEPT !.tag = <<j, job[j].attempt>>]
    <2>1. job[j].at = "tag" /\ (Throws(j) \/ Becomes(j, t))
      BY <1>3 DEF CreateTag
    <2>2. /\ m \in JobState /\ m.at = "rev-parse" /\ Carries(job[j], m) /\ m.env = job[j].env
          /\ m.agent = job[j].agent /\ m.headers = job[j].headers
      BY MovedKeeps DEF Place
    <2>. HIDE DEF m
    <2>3. /\ t.at = "rev-parse" /\ t.env = m.env /\ t.agent = m.agent /\ t.spoilt = m.spoilt
          /\ t.config = m.config /\ t.before = m.before /\ t.saved = m.saved /\ t.method = m.method
      BY <2>2 DEF JobState
    <2>. HIDE DEF t
    <2>4. KeysOf(t) = KeysOf(job[j])
      BY <2>1, <2>2, <2>3 DEF KeysOf, UserPlaces, PushPlaces
    <2>5. Holds(t)
      <3>1. Altered(t) = KeysOf(t) /\ Unsaved(t) = {} /\ Altered(job[j]) = KeysOf(job[j])
            /\ Unsaved(job[j]) = {}
        BY <2>1, <2>3 DEF Altered, Unsaved, Saving, Restoring
      <3>2. Preserves(t)
        BY <1>1, <2>2, <2>3, <2>4, <3>1 DEF Holds, Preserves, Carries, Looping
      <3>. QED  BY <1>1, <2>1, <2>2, <2>3, <3>2 DEF Holds, Confined, Armed
    <2>6. CASE Throws(j)
      BY <1>2, <2>1, <2>6 DEF Throwing
    <2>. QED  BY <2>1, <2>5, <2>6, HoldsAfter
  <1>4. ASSUME NEW to \in Place, NEW agent \in {"none", "empty", "loaded"},
               NEW headers \in {"unasked", "named", "failed"}, <<job[j].at, to>> \in Hops,
               NEW t, t.agent = agent, t.headers = headers, t \in JobState, t.at = to,
               Becomes(j, t), Carries(job[j], t), Fresh(t), t.env = job[j].env,
               headers = job[j].headers \/ headers # "unasked",
               agent = "loaded" => to # "restore-push" /\ (job[j].agent = "loaded" \/ to = "set-push"),
               to # "push", job[j].at = "ssh-add" => agent = "loaded",
               job[j].at = "discover" => headers # "unasked"
        PROVE  \A i \in Job : Holds(job'[i])
    <2>1. Holds(t)
      BY <1>1, <1>4, HopHolds
    <2>. QED  BY <1>4, <2>1, HoldsAfter
  <1>5. ASSUME NEW to \in Place, NEW agent \in {"none", "empty", "loaded"}
        PROVE  LET t == [Moved(j, to) EXCEPT !.agent = agent]
               IN  /\ t \in JobState /\ t.at = to /\ t.agent = agent /\ t.headers = job[j].headers
                   /\ Carries(job[j], t) /\ Fresh(t) /\ t.env = job[j].env
    <2> DEFINE m == Moved(j, to)
    <2>1. /\ m \in JobState /\ m.at = to /\ Carries(job[j], m) /\ Fresh(m) /\ m.env = job[j].env
          /\ m.agent = job[j].agent /\ m.headers = job[j].headers
      BY MovedKeeps
    <2>. HIDE DEF m
    <2> DEFINE t == [m EXCEPT !.agent = agent]
    <2>2. /\ t \in JobState /\ t.at = to /\ t.agent = agent /\ t.headers = job[j].headers
          /\ Carries(job[j], t) /\ t.todo = m.todo /\ t.method = m.method /\ t.env = job[j].env
      BY <2>1 DEF JobState, Carries
    <2>. HIDE DEF t
    <2>3. Fresh(t)
      BY <2>1, <2>2, FreshSame
    <2>. QED  BY <2>2, <2>3 DEF t, m
  <1>6. job[j].headers \in {"unasked", "named", "failed"} /\ job[j].agent \in {"none", "empty", "loaded"}
    BY <1>1 DEF JobState
  <1>7. CASE Discover(j)
    <2>1. PICK headers \in {"named", "failed"} :
            Becomes(j, [Moved(j, "set-push") EXCEPT !.headers = headers])
      BY <1>7 DEF Discover
    <2>2. "set-push" \in Place /\ <<job[j].at, "set-push">> \in Hops /\ job[j].at = "discover"
      BY <1>7 DEF Discover, Place, Hops
    <2> DEFINE m == Moved(j, "set-push")
               t == [m EXCEPT !.headers = headers]
    <2>3. /\ t \in JobState /\ t.at = "set-push" /\ t.agent = job[j].agent /\ t.headers = headers
          /\ Carries(job[j], t) /\ Fresh(t) /\ t.env = job[j].env
      <3>1. /\ m \in JobState /\ m.at = "set-push" /\ Carries(job[j], m) /\ Fresh(m)
            /\ m.env = job[j].env /\ m.agent = job[j].agent /\ m.headers = job[j].headers
        BY <2>2, MovedKeeps
      <3>. HIDE DEF m
      <3>2. /\ t \in JobState /\ t.at = "set-push" /\ t.agent = job[j].agent /\ t.headers = headers
            /\ Carries(job[j], t) /\ t.todo = m.todo /\ t.method = m.method /\ t.env = job[j].env
        BY <3>1 DEF JobState, Carries
      <3>. HIDE DEF t
      <3>. QED  BY <3>1, <3>2, FreshSame
    <2>4. Becomes(j, t)
      BY <2>1
    <2>. HIDE DEF t
    <2>5. Holds(t)
      BY <1>1, <2>2, <2>3, HopHolds
    <2>. QED  BY <2>4, <2>5, HoldsAfter
  <1>8. CASE StartAgent(j)
    <2>1. job[j].at = "agent" /\ "ssh-add" \in Place /\ <<job[j].at, "ssh-add">> \in Hops
      BY <1>8 DEF StartAgent, Place, Hops
    <2>2. CASE Becomes(j, [Moved(j, "ssh-add") EXCEPT !.agent = "empty"])
      <3> DEFINE t == [Moved(j, "ssh-add") EXCEPT !.agent = "empty"]
      <3>1. /\ t \in JobState /\ t.at = "ssh-add" /\ t.agent = "empty" /\ t.headers = job[j].headers
            /\ Carries(job[j], t) /\ Fresh(t) /\ t.env = job[j].env /\ Becomes(j, t)
        BY <1>5, <2>1, <2>2
      <3>. HIDE DEF t
      <3>. QED  BY <1>4, <1>6, <2>1, <3>1
    <2>3. CASE \E agent \in {"none", "empty"} : Becomes(j, [Thrown(j) EXCEPT !.agent = agent])
      BY <1>2, <2>1, <2>3 DEF Throwing
    <2>. QED  BY <1>8, <2>2, <2>3 DEF StartAgent
  <1>9. CASE AddKey(j)
    <2>1. job[j].at = "ssh-add" /\ "set-push" \in Place /\ <<job[j].at, "set-push">> \in Hops
      BY <1>9 DEF AddKey, Place, Hops
    <2>2. CASE Becomes(j, [Moved(j, "set-push") EXCEPT !.agent = "loaded"])
      <3> DEFINE t == [Moved(j, "set-push") EXCEPT !.agent = "loaded"]
      <3>1. /\ t \in JobState /\ t.at = "set-push" /\ t.agent = "loaded" /\ t.headers = job[j].headers
            /\ Carries(job[j], t) /\ Fresh(t) /\ t.env = job[j].env /\ Becomes(j, t)
        BY <1>5, <2>1, <2>2
      <3>. HIDE DEF t
      <3>. QED  BY <1>4, <1>6, <2>1, <3>1
    <2>3. CASE Becomes(j, [Thrown(j) EXCEPT !.agent = "none"])
      BY <1>2, <2>1, <2>3 DEF Throwing
    <2>. QED  BY <1>9, <2>2, <2>3 DEF AddKey
  <1>10. CASE KillAgent(j)
    <2>1. /\ job[j].at = "kill-agent" /\ "restore-push" \in Place /\ <<job[j].at, "restore-push">> \in Hops
          /\ Becomes(j, [Moved(j, "restore-push") EXCEPT !.agent = "none"])
      BY <1>10 DEF KillAgent, Place, Hops
    <2> DEFINE t == [Moved(j, "restore-push") EXCEPT !.agent = "none"]
    <2>2. /\ t \in JobState /\ t.at = "restore-push" /\ t.agent = "none" /\ t.headers = job[j].headers
          /\ Carries(job[j], t) /\ Fresh(t) /\ t.env = job[j].env /\ Becomes(j, t)
      BY <1>5, <2>1
    <2>. HIDE DEF t
    <2>. QED  BY <1>4, <1>6, <2>1, <2>2
  <1>. QED  BY <1>3, <1>7, <1>8, <1>9, <1>10

LEMMA KillHolds ==
  ASSUME TypeOK, \A i \in Job : Holds(job[i]), NEW j \in Job, Kill(j)
  PROVE  \A i \in Job : Holds(job'[i])
  <1> DEFINE m == Moved(j, "killed")
             t == [m EXCEPT !.spoilt = "killed"]
  <1>1. m \in JobState /\ m.at = "killed" /\ Becomes(j, t)
    BY MovedKeeps DEF Place, Kill
  <1>. HIDE DEF m
  <1>2. t.at = "killed" /\ t.spoilt = "killed"
    BY <1>1 DEF JobState
  <1>. HIDE DEF t
  <1>3. Holds(t)
    BY <1>2 DEF Holds, Preserves, Confined, Armed, Looping
  <1>. QED  BY <1>1, <1>3, HoldsAfter

LEMMA NextHolds ==
  ASSUME TypeOK, \A i \in Job : Holds(job[i]), [Next]_vars
  PROVE  \A i \in Job : Holds(job'[i])
  <1>1. CASE UNCHANGED vars
    BY <1>1 DEF vars
  <1>2. ASSUME NEW j \in Job, Start(j) \/ Step(j) \/ Kill(j) PROVE \A i \in Job : Holds(job'[i])
    BY <1>2, StartHolds, CredentialsHolds, SaveHolds, SetHolds, RestoreHolds, PlainHolds,
       ChangingHolds, KillHolds DEF Step
  <1>. QED  BY <1>1, <1>2 DEF Next

JInv == TypeOK /\ \A i \in Job : Holds(job[i])

LEMMA JobsInvariance == Spec => []JInv
  <1>1. Init => \A i \in Job : Holds(job[i])
    BY InitHolds
  <1>2. TypeOK /\ (\A i \in Job : Holds(job[i])) /\ [Next]_vars => (\A i \in Job : Holds(job[i]))'
    BY NextHolds
  <1>3. Spec => []TypeOK
    BY Typed
  <1>. QED  BY <1>1, <1>2, <1>3, PTL DEF Spec, JInv

(***************************************************************************)
(* An attempt that was not killed and whose reads and restores worked      *)
(* leaves git with the configuration it saw before (the deferred functions *)
(* of CreateTag and PushTag), whatever step failed.                        *)
(***************************************************************************)
THEOREM ConfigIsRestored == Spec => []ConfigSurvives
  <1>1. JInv => ConfigSurvives
    <2> SUFFICES ASSUME JInv, NEW j \in Job, job[j].at \in Ended, job[j].spoilt = "no"
                 PROVE  Restored(j)
      BY DEF ConfigSurvives
    <2>1. Altered(job[j]) = {}
      BY DEF Altered, KeysOf, Ended, UserPlaces, PushPlaces, Saving, Restoring
    <2>. QED  BY <2>1 DEF JInv, Holds, Preserves, Restored
  <1>. QED  BY <1>1, JobsInvariance, PTL

(***************************************************************************)
(* The credentials leave the environment before anything else runs, and no *)
(* agent keeps the deploy key after the push, however the attempt ends     *)
(* short of being killed (ReleasePushCredentials, setupSSHAgent).          *)
(***************************************************************************)
THEOREM CredentialsConfined == Spec => []SecretsConfined
  <1>1. JInv => SecretsConfined
    BY DEF JInv, Holds, Confined, SecretsConfined
  <1>. QED  BY <1>1, JobsInvariance, PTL

(***************************************************************************)
(* What puts the tag on the remote is a push of the tag's own job, to the  *)
(* given repository, and with the given credential unless git failed to    *)
(* list the persisted headers (PushTag).                                   *)
(***************************************************************************)
THEOREM PushIsAsGiven == Spec => PushedAsGiven
  <1>1. ASSUME JInv, [Next]_vars, remote' # remote
        PROVE  \E j \in Job : remote' = job[j].tag /\ PushesAsGiven(j)
    <2>1. PICK j \in Job : Push(j)
      BY <1>1 DEF Next, Step, vars, Start, Kill, Refuse, Credentials, Save, Set, CheckLocal, CreateTag,
                  RevParse, Restore, FindLocal, Discover, StartAgent, AddKey, CheckRemote, KillAgent,
                  GetChangelog, Publish, Shared
    <2>2. remote' = job[j].tag /\ job[j].at = "push"
      BY <1>1, <2>1 DEF Push
    <2>3. /\ job[j] \in JobState /\ Armed(job[j])
          /\ \A k \in KeysOf(job[j]) : job[j].config[k] = "ours"
      BY <1>1, <2>2 DEF JInv, TypeOK, Holds, Armed
    <2>4. job[j].method \in {"token", "key"} /\ job[j].headers \in {"unasked", "named", "failed"}
      BY <2>3 DEF JobState
    <2>5. /\ job[j].config["remote.origin.url"] = "ours"
          /\ job[j].method = "key" => job[j].config["core.sshCommand"] = "ours"
      BY <2>2, <2>3, <2>4, KeysOfIs DEF PushPlaces
    <2>6. /\ job[j].method = "key" => job[j].agent = "loaded"
          /\ job[j].method = "token" => job[j].headers # "unasked"
      BY <2>2, <2>3 DEF Armed
    <2>7. PushesAsGiven(j)
      BY <2>4, <2>5, <2>6 DEF PushesAsGiven, Credential
    <2>. QED  BY <2>2, <2>7
  <1>. QED  BY <1>1, JobsInvariance, PTL DEF Spec, PushedAsGiven
=============================================================================
