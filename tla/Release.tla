------------------------------ MODULE Release ------------------------------
(***************************************************************************)
(* Publishing a release in CI: the task ci:release (tasks/release/         *)
(* release.go), ci.PublishTag, git.CreateTag and git.PushTag with the      *)
(* ssh-agent, for jobs that share one remote repository, all for the same  *)
(* tag name.                                                               *)
(*                                                                         *)
(* A job is one process in a clone of its own; a failed one may be run     *)
(* again, there or in a fresh clone.  Every git, ssh and gh command is a   *)
(* step, after which another job may move, and may fail, as it does when   *)
(* the first Ctrl-C cancels it; a second one kills the process.  `at' is   *)
(* the step a job is about to take, and what is deferred runs on the way   *)
(* out, whether a panic is on its way or not.                              *)
(***************************************************************************)
EXTENDS Naturals, Sequences

CONSTANTS
  Job,          \* the CI jobs
  GlobalKeys,   \* the git config keys set in the user's global config
  CloneKeys,    \* the keys a clone's own config may set, besides its remote's URL
  Persisted,    \* a checkout leaves the runner's credential in http.<server>.extraheader
  MaxAttempts,  \* bound: how often a job is run
  MaxFaults     \* bound: commands that fail and processes killed

UserKeys == <<"user.name", "user.email">>

\* The keys PushTag changes, in the order it saves, sets and restores them.
PushKeys(method) ==
  IF method = "key" THEN <<"core.sshCommand", "remote.origin.url">> ELSE <<"remote.origin.url">>

Key == {"user.name", "user.email", "core.sshCommand", "remote.origin.url"}

ASSUME ReleaseAssumption ==
  /\ GlobalKeys \subseteq Key /\ CloneKeys \subseteq Key /\ Persisted \in BOOLEAN
  /\ MaxAttempts \in Nat /\ MaxFaults \in Nat

\* Values of a key in a clone's own config: the user's, the global one copied, ours.
Value == {"unset", "theirs", "global", "ours"}

\* A tag object, named by the attempt that made it.
Tag == Job \X (1..MaxAttempts)
NoTag == <<>>

VARIABLES
  job,       \* the state of each job
  remote,    \* the tag object the remote has under the tag's name
  released,  \* the attempt that created the GitHub release
  faults     \* how many faults there were

vars == <<job, remote, released, faults>>

Place ==
  {"idle", "start", "save-user", "set-user", "check-local", "tag", "rev-parse", "restore-user",
   "find-local", "save-push", "discover", "agent", "ssh-add", "set-push", "check-remote", "push",
   "kill-agent", "restore-push", "changelog", "publish", "released", "refused", "failed", "killed"}

Ended == {"idle", "released", "refused", "failed", "killed"}

(***************************************************************************)
(* `tag' is the clone's tag, `before' its config when the attempt began,   *)
(* `headers' what is known of the http.*.extraheader keys, and `spoilt'    *)
(* says what went wrong with restoring the config.                         *)
(***************************************************************************)
JobState ==
  [at : Place, panics : BOOLEAN, attempt : 0..MaxAttempts,
   env : SUBSET {"TAG_TOKEN", "DEPLOY_KEY"}, method : {"token", "key"},
   config : [Key -> Value], before : [Key -> Value], saved : [Key -> Value], todo : Seq(Key),
   tag : Tag \cup {NoTag}, agent : {"none", "empty", "loaded"},
   headers : {"unasked", "named", "failed"},
   spoilt : {"no", "read", "restore", "killed"}]

\* A clone as its checkout leaves it.
CloneConfigs ==
  {[k \in Key |-> IF k \in keys \cup {"remote.origin.url"} THEN "theirs" ELSE "unset"] :
     keys \in SUBSET CloneKeys}

\* What `git config --get' prints: the clone's value, or else the global one.
Get(config, k) ==
  IF config[k] = "unset" /\ k \in GlobalKeys THEN "global" ELSE config[k]

Init ==
  /\ \E c \in CloneConfigs :
       job = [j \in Job |->
               [at |-> "idle", panics |-> FALSE, attempt |-> 0, env |-> {}, method |-> "token",
                config |-> c, before |-> c, saved |-> c, todo |-> <<>>,
                tag |-> NoTag, agent |-> "none", headers |-> "unasked", spoilt |-> "no"]]
  /\ remote = NoTag
  /\ released = NoTag
  /\ faults = 0

Works == UNCHANGED faults
Fault == faults < MaxFaults /\ faults' = faults + 1

\* Where a panic at a place goes: the functions deferred there.
Unwind(at) ==
  CASE at \in {"set-user", "check-local", "tag", "rev-parse"} -> "restore-user"
    [] at \in {"set-push", "check-remote", "push"} -> "kill-agent"
    [] at \in {"agent", "ssh-add"} -> "restore-push"
    [] OTHER -> "failed"

\* The keys that the loops of a place go through.
KeysAt(j, at) ==
  CASE at \in {"save-user", "set-user", "restore-user"} -> UserKeys
    [] at \in {"save-push", "set-push", "kill-agent", "restore-push"} -> PushKeys(job[j].method)
    [] OTHER -> <<>>

Moved(j, to) == [job[j] EXCEPT !.at = to, !.todo = KeysAt(j, to)]
Thrown(j) == [Moved(j, Unwind(job[j].at)) EXCEPT !.panics = TRUE]
Becomes(j, state) == job' = [job EXCEPT ![j] = state]

Goes(j, to) == Becomes(j, Moved(j, to))
Throws(j) == Becomes(j, Thrown(j))

\* What most steps leave alone.
Shared == <<remote, released>>
-----------------------------------------------------------------------------
(* The task, ReleasePushCredentials and CreateTag.                         *)

\* The job is run, again perhaps: in its clone, or in a fresh one, which has the
\* remote's tags or not.
Start(j) ==
  /\ job[j].at \in Ended
  /\ job[j].attempt < MaxAttempts
  /\ \E secrets \in SUBSET {"TAG_TOKEN", "DEPLOY_KEY"}, fresh \in BOOLEAN :
       \E tag \in IF fresh THEN {NoTag, remote} ELSE {job[j].tag},
          config \in IF fresh THEN CloneConfigs ELSE {job[j].config} :
         Becomes(j, [Moved(j, "start") EXCEPT
           !.panics = FALSE, !.attempt = @ + 1, !.env = secrets, !.tag = tag,
           !.config = config, !.before = config, !.saved = config, !.agent = "none",
           !.headers = "unasked", !.spoilt = "no"])
  /\ Works /\ UNCHANGED Shared

\* A goreleaser config, a bad version, not in CI.
Refuse(j) ==
  /\ job[j].at = "start"
  /\ Goes(j, "refused")
  /\ Works /\ UNCHANGED Shared

\* Fault: only the credential that will be used is purged.
CredentialsKeepOther(j) ==
  /\ job[j].at = "start"
  /\ LET token == "TAG_TOKEN" \in job[j].env
         purged == [Moved(j, "save-user") EXCEPT
                     !.env = IF token THEN @ \ {"TAG_TOKEN"} ELSE {}, !.method = IF token THEN "token" ELSE "key"]
     IN  \/ job[j].env # {} /\ Becomes(j, purged)
         \/ Becomes(j, [purged EXCEPT !.at = "failed", !.panics = TRUE, !.todo = <<>>])
  /\ Works /\ UNCHANGED Shared

\* ReleasePushCredentials purges the environment first and prefers the token;
\* then GITHUB_REPOSITORY may be missing, or a config invalid.
Credentials(j) ==
  /\ job[j].at = "start"
  /\ LET token == "TAG_TOKEN" \in job[j].env
         purged == [Moved(j, "save-user") EXCEPT !.env = {}, !.method = IF token THEN "token" ELSE "key"]
     IN  \/ job[j].env # {} /\ Becomes(j, purged)
         \/ Becomes(j, [purged EXCEPT !.at = "failed", !.panics = TRUE, !.todo = <<>>])
  /\ Works /\ UNCHANGED Shared

\* Fault: the last key read is not followed by anything.
SaveStays(j) ==
  /\ job[j].at \in {"save-user", "save-push"}
  /\ job[j].todo # <<>>
  /\ LET k == Head(job[j].todo)
         read == [job[j] EXCEPT !.todo = Tail(@)]
     IN  \/ Works /\ Becomes(j, [read EXCEPT !.saved[k] = Get(job[j].config, k)])
         \/ Fault /\ Becomes(j, [read EXCEPT !.saved[k] = "unset",
                                             !.spoilt = IF @ = "no" THEN "read" ELSE @])
  /\ UNCHANGED Shared

\* CreateTag and PushTag read the keys they will change; one that cannot be read
\* counts as unset.
Save(j) ==
  /\ job[j].at \in {"save-user", "save-push"}
  /\ job[j].todo # <<>>
  /\ LET k == Head(job[j].todo)
         rest == Tail(job[j].todo)
         read == IF rest # <<>> THEN [job[j] EXCEPT !.todo = rest]
                 ELSE Moved(j, CASE job[j].at = "save-user" -> "set-user"
                                 [] job[j].at = "save-push" /\ job[j].method = "key" -> "agent"
                                 [] OTHER -> "discover")
     IN  \/ Works /\ Becomes(j, [read EXCEPT !.saved[k] = Get(job[j].config, k)])
         \/ Fault /\ Becomes(j, [read EXCEPT !.saved[k] = "unset",
                                             !.spoilt = IF @ = "no" THEN "read" ELSE @])
  /\ UNCHANGED Shared

Set(j) ==
  /\ job[j].at \in {"set-user", "set-push"}
  /\ job[j].todo # <<>>
  /\ LET k == Head(job[j].todo)
         rest == Tail(job[j].todo)
         set == IF rest # <<>> THEN [job[j] EXCEPT !.todo = rest]
                ELSE Moved(j, IF job[j].at = "set-user" THEN "check-local" ELSE "check-remote")
     IN  \/ Works /\ Becomes(j, [set EXCEPT !.config[k] = "ours"])
         \/ Fault /\ Throws(j)
  /\ UNCHANGED Shared

\* tagExistsLocally in CreateTag; the tag counts as missing when git fails.
CheckLocal(j) ==
  /\ job[j].at = "check-local"
  /\ \/ Works /\ job[j].tag # NoTag /\ Throws(j)
     \/ Works /\ job[j].tag = NoTag /\ Goes(j, "tag")
     \/ Fault /\ Goes(j, "tag")
  /\ UNCHANGED Shared

\* `git tag -a', which fails on a tag there is.
CreateTag(j) ==
  /\ job[j].at = "tag"
  /\ \/ Works /\ job[j].tag = NoTag
        /\ Becomes(j, [Moved(j, "rev-parse") EXCEPT !.tag = <<j, job[j].attempt>>])
     \/ Works /\ job[j].tag # NoTag /\ Throws(j)
     \/ Fault /\ Throws(j)
  /\ UNCHANGED Shared

RevParse(j) ==
  /\ job[j].at = "rev-parse"
  /\ \/ Works /\ Goes(j, "restore-user")
     \/ Fault /\ Throws(j)
  /\ UNCHANGED Shared

\* Where a deferred restore goes when it has ended.
AfterRestore(j, panics) ==
  CASE panics -> "failed"
    [] ~panics /\ job[j].at = "restore-user" -> "find-local"
    [] OTHER -> "changelog"

\* Fault: the values are not restored when a panic is on its way.
RestoreOnSuccess(j) ==
  /\ job[j].at \in {"restore-user", "restore-push"}
  /\ job[j].todo # <<>>
  /\ LET k == Head(job[j].todo)
         rest == Tail(job[j].todo)
         next == IF rest # <<>> /\ ~job[j].panics THEN [job[j] EXCEPT !.todo = rest]
                 ELSE Moved(j, AfterRestore(j, job[j].panics))
     IN  \/ Works /\ Becomes(j, [next EXCEPT !.config[k] = IF job[j].panics THEN @ ELSE job[j].saved[k]])
         \/ Fault /\ job[j].saved[k] = "unset" /\ Becomes(j, [next EXCEPT !.spoilt = "restore"])
         \/ Fault /\ job[j].saved[k] # "unset"
            /\ Becomes(j, [Moved(j, "failed") EXCEPT !.panics = TRUE, !.spoilt = "restore"])
  /\ UNCHANGED Shared

\* The deferred functions set or unset one key after the other.  Unsetting fails
\* silently; a panic of setting skips the keys left.
Restore(j) ==
  /\ job[j].at \in {"restore-user", "restore-push"}
  /\ job[j].todo # <<>>
  /\ LET k == Head(job[j].todo)
         rest == Tail(job[j].todo)
         next == IF rest # <<>> THEN [job[j] EXCEPT !.todo = rest]
                 ELSE Moved(j, AfterRestore(j, job[j].panics))
     IN  \/ Works /\ Becomes(j, [next EXCEPT !.config[k] = job[j].saved[k]])
         \/ Fault /\ job[j].saved[k] = "unset" /\ Becomes(j, [next EXCEPT !.spoilt = "restore"])
         \/ Fault /\ job[j].saved[k] # "unset"
            /\ Becomes(j, [Moved(j, "failed") EXCEPT !.panics = TRUE, !.spoilt = "restore"])
  /\ UNCHANGED Shared
-----------------------------------------------------------------------------
(* PushTag.                                                                *)

\* PushTagConfig.validate, which finds only now that the repository or credential
\* is no good, then tagExistsLocally: CreateTag has just made the tag, which counts
\* as missing when git fails.
FindLocal(j) ==
  /\ job[j].at = "find-local"
  /\ job[j].tag # NoTag
  /\ \/ Works /\ (Goes(j, "save-push") \/ Throws(j))
     \/ Fault /\ Throws(j)
  /\ UNCHANGED Shared

\* Fault: the persisted headers stay in force.
DiscoverNothing(j) ==
  /\ job[j].at = "discover"
  /\ Goes(j, "set-push")
  /\ Works /\ UNCHANGED Shared

\* Fault: when git cannot list the headers nothing is set.
DiscoverSkips(j) ==
  /\ job[j].at = "discover"
  /\ \/ Works /\ Becomes(j, [Moved(j, "set-push") EXCEPT !.headers = "named"])
     \/ Fault /\ Becomes(j, [Moved(j, "check-remote") EXCEPT !.headers = "failed"])
  /\ UNCHANGED Shared

\* suppressExtraHeaderOpts lists the keys that would override the token, to reset
\* them in the commands to come.  When git fails there seem to be none.
Discover(j) ==
  /\ job[j].at = "discover"
  /\ \/ Works /\ Becomes(j, [Moved(j, "set-push") EXCEPT !.headers = "named"])
     \/ Fault /\ Becomes(j, [Moved(j, "set-push") EXCEPT !.headers = "failed"])
  /\ UNCHANGED Shared

\* setupSSHAgent starts the agent.  When the command fails, or its output cannot
\* be parsed, an agent may be running all the same.
StartAgent(j) ==
  /\ job[j].at = "agent"
  /\ \/ Works /\ Becomes(j, [Moved(j, "ssh-add") EXCEPT !.agent = "empty"])
     \/ Fault /\ \E agent \in {"none", "empty"} : Becomes(j, [Thrown(j) EXCEPT !.agent = agent])
  /\ UNCHANGED Shared

\* Fault: a failed ssh-add leaves the agent to the caller's cleanup.
AddKeyLeavesAgent(j) ==
  /\ job[j].at = "ssh-add"
  /\ \/ Works /\ Becomes(j, [Moved(j, "set-push") EXCEPT !.agent = "loaded"])
     \/ Fault /\ \E agent \in {"empty", "loaded"} : Becomes(j, [Thrown(j) EXCEPT !.agent = agent])
  /\ UNCHANGED Shared

\* ssh-add; when it fails, having loaded the key or not, the agent is killed.
AddKey(j) ==
  /\ job[j].at = "ssh-add"
  /\ \/ Works /\ Becomes(j, [Moved(j, "set-push") EXCEPT !.agent = "loaded"])
     \/ Fault /\ Becomes(j, [Thrown(j) EXCEPT !.agent = "none"])
  /\ UNCHANGED Shared

\* tagExistsRemotely; the tag counts as missing when git fails.
CheckRemote(j) ==
  /\ job[j].at = "check-remote"
  /\ \/ Works /\ remote # NoTag /\ Throws(j)
     \/ Works /\ remote = NoTag /\ Goes(j, "push")
     \/ Fault /\ Goes(j, "push")
  /\ UNCHANGED Shared

\* What a push of the job is made with: git lets a persisted header come before the
\* token, and ssh knows the agent's key by core.sshCommand.
Credential(j) ==
  IF job[j].method = "token"
  THEN IF Persisted /\ job[j].headers # "named" THEN "persisted" ELSE "given"
  ELSE IF job[j].config["core.sshCommand"] = "ours" /\ job[j].agent = "loaded" THEN "given" ELSE "persisted"

\* Fault: that git rejects the tag is not an error.
PushTolerant(j) ==
  /\ job[j].at = "push"
  /\ \/ Works /\ remote' = (IF remote = NoTag THEN job[j].tag ELSE remote) /\ Goes(j, "kill-agent")
     \/ Fault /\ remote' \in {remote, IF remote = NoTag THEN job[j].tag ELSE remote} /\ Throws(j)
  /\ UNCHANGED released

\* `git push origin <tag>': the remote rejects a tag it has another object for, and
\* the persisted credential may not push.  A push that fails may have arrived.
Push(j) ==
  /\ job[j].at = "push"
  /\ LET accepted == remote \in {NoTag, job[j].tag} IN
     \/ Works /\ accepted /\ remote' = job[j].tag /\ Goes(j, "kill-agent")
     \/ Works /\ (~accepted \/ Credential(j) = "persisted") /\ UNCHANGED remote /\ Throws(j)
     \/ Fault /\ remote' \in {remote} \cup (IF accepted THEN {job[j].tag} ELSE {}) /\ Throws(j)
  /\ UNCHANGED released

\* The deferred cleanup kills the agent, of which there is none with a token.
KillAgent(j) ==
  /\ job[j].at = "kill-agent"
  /\ Becomes(j, [Moved(j, "restore-push") EXCEPT !.agent = "none"])
  /\ Works /\ UNCHANGED Shared
-----------------------------------------------------------------------------
(* The end of the task.                                                    *)

\* GetChangelog, which ChangelogCache has in detail.
GetChangelog(j) ==
  /\ job[j].at = "changelog"
  /\ \/ Works /\ Becomes(j, Moved(j, "publish"))
     \/ Fault /\ Throws(j)
  /\ UNCHANGED Shared

\* `gh release create --verify-tag' fails without the tag and when the tag has a
\* release; when it fails otherwise the release may have been created.
Publish(j) ==
  /\ job[j].at = "publish"
  /\ LET creates == remote # NoTag /\ released = NoTag IN
     \/ Works /\ creates /\ released' = <<j, job[j].attempt>> /\ Goes(j, "released")
     \/ Works /\ ~creates /\ UNCHANGED released /\ Throws(j)
     \/ Fault /\ released' \in {released} \cup (IF creates THEN {<<j, job[j].attempt>>} ELSE {})
        /\ Throws(j)
  /\ UNCHANGED remote

\* os.Exit on the second signal, or the runner goes away.
Kill(j) ==
  /\ job[j].at \notin Ended
  /\ Becomes(j, [Moved(j, "killed") EXCEPT !.spoilt = "killed"])
  /\ Fault /\ UNCHANGED Shared

Step(j) ==
  \/ Refuse(j) \/ Credentials(j) \/ Save(j) \/ Set(j) \/ CheckLocal(j) \/ CreateTag(j) \/ RevParse(j)
  \/ Restore(j) \/ FindLocal(j) \/ Discover(j) \/ StartAgent(j) \/ AddKey(j) \/ CheckRemote(j) \/ Push(j)
  \/ KillAgent(j) \/ GetChangelog(j) \/ Publish(j)

Next == \E j \in Job : Start(j) \/ Step(j) \/ Kill(j)

Spec == Init /\ [][Next]_vars
-----------------------------------------------------------------------------
TypeOK ==
  /\ job \in [Job -> JobState]
  /\ remote \in Tag \cup {NoTag}
  /\ released \in Tag \cup {NoTag}
  /\ faults \in 0..MaxFaults
  /\ \A j \in Job : job[j].at \in {"save-user", "set-user", "restore-user", "save-push", "set-push",
                                   "restore-push"} => job[j].todo # <<>>

(***************************************************************************)
(* The attempt that creates the GitHub release is the one whose tag the    *)
(* remote has: of several jobs for one version, the others fail before.    *)
(***************************************************************************)
PublisherMadeTheTag == released # NoTag => released = remote

(***************************************************************************)
(* However an attempt ends, git sees the configuration it saw before, if   *)
(* the commands that read and restore it worked and it was not killed.     *)
(***************************************************************************)
Restored(j) == \A k \in Key : Get(job[j].config, k) = Get(job[j].before, k)

ConfigSurvives ==
  \A j \in Job : job[j].at \in Ended /\ job[j].spoilt = "no" => Restored(j)

(***************************************************************************)
(* Credentials are "confined": purged from the environment before anything *)
(* else runs and whatever the validation says, and held by an agent only   *)
(* while the push lasts, unless the process is killed.                     *)
(***************************************************************************)
SecretsConfined ==
  \A j \in Job :
    /\ job[j].env # {} => job[j].at \in {"start", "refused", "killed"}
    /\ job[j].agent = "loaded" => job[j].at \in {"set-push", "check-remote", "push", "kill-agent", "killed"}

(***************************************************************************)
(* The tag reaches the given repository and no other, and by the           *)
(* credential the caller gave, not one that git may have at hand           *)
(* (pushTagWithToken's comment on extraheader, pushTagWithDeployKey); the  *)
(* latter unless git could not say which headers there are.                *)
(***************************************************************************)
PushesAsGiven(j) ==
  /\ job[j].config["remote.origin.url"] = "ours"
  /\ job[j].headers # "failed" => Credential(j) = "given"

PushedAsGiven ==
  [][remote' # remote => \E j \in Job : remote' = job[j].tag /\ PushesAsGiven(j)]_vars
=============================================================================
