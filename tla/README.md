# go-make in TLA+

A model of [go-make](../src), a Go library for writing makefiles as Go programs: what it promises
about tasks, commands, shutdown and releases, stated in TLA+, model-checked with TLC on small
instances and, for its safety properties, proved with TLAPS for instances of any size.

Contents: [the system](#the-system), [the modules](#the-modules),
[runs](#runs-bounds-and-what-they-show), [fairness](#fairness), [what is proved](#what-is-proved),
[disagreements](#where-the-code-and-its-documentation-disagree), [what is not
modelled](#what-is-not-modelled), [plan](#plan).

## The system

A program calls `Makefile(tasks...)`. It registers the signal handler, flattens the tasks into a
list, adds the built-in ones, and runs what the command line names; a task calls `Run`, which finds
the tool (installing it with binny if it is managed), runs it under the current context and throws
when it fails. The main goroutine does all of that; besides it there are the goroutine of
`HandleSignals`, the goroutines of `os/exec`, and the processes started.

| Component | State it keeps | Operations | What is hard | Correct when |
|---|---|---|---|---|
| Task runner (`tasks.go`) | the flat list of tasks, which of them were run, `log.Prefix`, the stack of `runTask` calls | `Makefile`, `addTasks`, `Run`, `runTask`, hooks (`RunsOn`), `DependsOn`, `RunOn` | loops that call themselves while half done, shared names and aliases, cycles, panics in between | every required task is run once, after what it pulls in; nothing else is run; it ends |
| Run context (`run/context.go`, `run/run_opts.go`) | the current context and its cancel function, under a lock; a process group per command | `Context`, `SetContext`, `Cancel` | called from the signal goroutine while commands are created, started and waited for | a cancel reaches what runs and spares what comes later |
| Commands (`run/run.go`, `run.go`) | per call: options, environment, output buffers, the process | `Command`, `Run`, the options | children that ignore SIGINT or leave others behind, partial output, NoFail | a cancelled command returns; errors are not lost |
| Signals and exit (`run/signal.go`, `config/exit.go`, `lang/errors.go`) | the exit handlers under a lock, the channel of signals, the panic in flight | `HandleSignals`, `OnExit`, `DoExit`, `Throw`, `Catch`, `HandleErrors` | two signals at any moment, handlers that panic or register handlers, `os.Exit` against `defer` | zero means success; handlers undo in reverse; a signal ends the command, a second one the process |
| Release tags (`git/tag.go`, `git/ssh_agent_linux.go`, `internal/ci`, `tasks/release/release.go`) | git configuration, environment, the local and the remote tag, the ssh-agent | `CreateTag`, `PushTag`, `ReleasePushCredentials`, `PublishTag`, the task `ci:release` | every command may fail and everything is undone by deferred functions; check-then-push against other jobs; re-runs | one job publishes, the one whose tag it is; configuration and credentials are left as they should |
| Changelog cache (`tasks/release/changelog_cache.go`) | retries, the bearer token, CHANGELOG.md and VERSION | `GetChangelog`, `fetchCachedChangelog`, `pull` | transient against permanent failures, partial artifacts, stale files | a usable changelog or a fallback, never an empty one |
| Binny (`binny/`) | the `installed` cache, the tool directory, the shim | `ManagedToolPath`, `Install`, `installBinny` | stale cache, versions that match partly, binny installing itself | the path returned is of the version configured |
| Dotenv (`run/dotenv.go`) | a once-only cache | `loadDotEnv`, `mergeDotEnv` | the first command decides | the process environment wins; the file is the project's |
| Streams (`stream/tee.go`) | the writers of a tee, under a lock | `Tee`, `AddWriter`, `RemoveWriter`, `SetWriters` | writers that fail or are closed | every writer gets what is written while it is one |
| File scopes (`file/file.go`) | the working directory, temporary directories | `InDir`, `WithTempDir`, `InTempDir`, `Delete` | nesting and panics | the directory is restored |
| Go tests (`tasks/gotest`) | the coverage file and its temporary directory | `runTests`, `resolveCoverageFile`, `processCoverage`, `scrubCoverLines`, `enforceCoverageThreshold` | files that come and go while their rows are scrubbed, thresholds, every step may fail | what passes was measured on whole files and is not below the threshold |
| Taskfile import (`tasks/gotask/taskfile.go`) | the stack of `collectTasks` calls, the tasks found | `Tasks`, `discoverTasks`, `collectTasks`, `resolveIncludePath`, `RunTaskfile` | cycles and diamonds of includes, loops over maps, names reached in several ways | it ends; every chain of includes is listed, in order, whatever the order of the maps |
| GitHub artifacts (`github/api.go`, `artifact_upload.go`, `matrix.go`) | GitHub's artifacts, the target directory | `UploadArtifactDir`, `DownloadArtifactDir`, `DownloadBranchArtifactDir`, `MatrixSuffix` | other jobs between listing and download or upload; requests refused or failing half-way; pages, sizes and names that collide | a download that succeeds is whole; overwriting removes what it names and nothing else |
| Others | | fetch, golint, goreleaser, templates, redaction, shell splitting, log, color, config, require | mostly I/O and text | |

How they interact: the task runner calls tasks, which call `Run`; `Command` reads the current
context, `loadDotEnv` and the options; `HandleSignals` calls `Cancel`; `Makefile` defers `DoExit`
around `runTaskFile`, which defers `HandleErrors`; the release task calls `git` through `Command`,
so that a Ctrl-C fails one of its commands; the changelog and goreleaser tasks call binny through
`Run`.

`PROJECT.json` lists the hazards of this code line by line, with the properties that watch them.

## The modules

Seven systems, each from its pure data to what composes it:

- `Makefiles` <- `TaskSchedule` (abstract), `TaskRunner` (implements it) <- `MCTaskRunner`, `TaskRunnerProofs`
- `RunContext`, and on top of it `Lifecycle`, and `CommandIO` <- `MCCommandIO`; `RunProofs` is about
  the three
- `Release` <- `MCRelease`, `ReleaseProofs`; `Changelog` (abstract), `ChangelogCache` (implements it)
  <- `ReleaseTrigger` <- `ReleaseTriggerProofs`
- `Tools` <- `MCTools`, `ToolsProofs`
- `Coverage` <- `CoverageProofs`
- `Taskfile` <- `MCTaskfile`, `TaskfileProofs`
- `Artifacts` <- `ArtifactsProofs`; with `Matrix`, `MCArtifacts`

An `MC` module gives a specification its instances for TLC where a configuration alone cannot;
`Lifecycle`, `ReleaseTrigger` and `Coverage` are run as they are. Operators whose comment begins
with "Fault:" are no part of a specification: each is a definition with a plausible bug, which the
properties are tested against (`mutants` in `PROJECT.json`).

### Makefiles, TaskSchedule, TaskRunner: the task runner

`Makefiles` is the data both share: a task definition (its name, aliases, dependencies, hooks
(`RunsOn`), and whether it has subtasks) and the lookups `FindByName` and `FindByLabel`; what a name
`Wants` is what `runTask` calls for it.

`TaskRunner` follows `tasks.go` call by call. Its state is `tasks` (the flattened list), `ran`
(the map `taskRunner.run`), `prefix` (the global `log.Prefix`) and `stack`, the calls of `runTask` in
progress, each with the position of its nested loops; registering a task is one step of `addTasks`,
and calling a name, turning a loop, the recursive calls for hooks and dependencies, the task's own
`Run` and the end of a call, with its deferred restoring of `log.Prefix`, are steps of their own. What
a task's `Run` does is nondeterministic: return or panic. The makefile and the command line are chosen
at the start from the constants `Programs` and `CommandLines`, so that one run checks every makefile
of a family.

`TaskSchedule` is what the runner promises, without loops or stack: given the tasks required, start
one that was not started and whose prerequisites are done (up to cycles), finish it or fail; end
when all that is required is done, or with an error that has a cause. `TaskRunner` implements it
under the mapping defined beside its properties.

### RunContext: contexts, commands and their processes

Contexts are numbered as they are made; `contexts` holds the parent of each and `cancelled` those
cancelled. All three operations hold `contextLock` from start to end, so each is one action. `cmd`
has one record per goroutine that calls `Command`: the context it took, whether it is created,
running or done, the processes alive in its group, how the child ended. `NewCommand` is
`exec.CommandContext(Context(), ...)`, and `Start` may come any time later, after other goroutines
have cancelled that context: the window in which a cancel must still count. That nothing is started
under a context that is done is what `os/exec` does, a guard of `Start` and not a property. `Interrupt`, `WaitDelay`
and `Return` are what `os/exec` does with the `Cancel` function of `osExecOpts` and with
`WaitDelay`; `Spawn` and `End` are the processes' own steps, and nothing makes a process end because
it was sent SIGINT. A command whose output goes to files alone (`pipes` is false) is given these, and
nothing waits for what it leaves behind; otherwise `os/exec` copies, up to `WaitDelay` after the child
has ended. Externals are marked in the map.

### CommandIO: what becomes of the output

Extends `RunContext` with `io`: for each caller's latest command, where each of its streams goes
(`to`, a set of writers), what was printed, what each writer was given (`got`), and the writers whose
failure ended the copying. `Wired` is the loop of `Command` over its options: `Defaults` first, those
of the caller in their order, `Capture` last; `Apply` is one option, by what it does to `Stdout` and
`Stderr` of the `exec.Cmd` and to `noFail`. A piece is what one print gives to one write. `Copy` is the goroutine
of a stream with `teeWriter.Write` (`Tee`): every writer is tried, all errors are returned, and an
error ends the copying. The file of `Write` is closed by then and always fails, a writer of the
caller's may. A writer that takes less than it is given without an error, which `io.Writer` forbids and
`tee.go:37` leaves open, is not modelled. A process that was left behind prints on, until `WaitDelay` closes the pipes. `Finish`
is the end of `c.Run`, which `RunContext` leaves open as `Returns(c, broken)`. `FailureExplained` leaves
out commands that `WaitDelay` cut off: what was in their pipes is lost. Every step of `IONext`
is a step of `RunNext` or changes `io` only, so what holds of `RunSpec` holds here.

### Lifecycle: from Makefile to the end of the process

Extends `RunContext` with the main goroutine (`main`), what it last threw, the exit handlers, the
signal goroutine (`watcher`) and how the process ended. Tasks run commands, throw any of the values
Go code can throw, are caught or not. `HandleErrors` follows the type switch: only the value
`OkError` lets the deferred `DoExit` happen, everything else is `os.Exit`, at which all goroutines
stop. A handler may run, panic, or call `OnExit` and wait for ever on the lock that `DoExit` holds;
the process then can stop without having ended, hence `CHECK_DEADLOCK FALSE`.

### Release: publishing a tag

Each job is a process in a clone of its own, at one of the steps of `PublishTag` and `ci:release`;
they share `remote`. Configuration is modelled key by key with git's scopes: `Get` sees the global
value behind an unset local one, setting and unsetting reach only the clone. Every command may fail
(`faults` counts, bounded by `MaxFaults`) with or without its effect where that can happen: a push
whose answer is lost, an agent that runs though its start failed, a tag check that fails and so
reads as "no tag". `Unwind` says which deferred function a panic goes to, `Restore` is those
functions key by key, `Kill` is `os.Exit` on a second signal. A job that ended may be started again
in its clone or a fresh one.

A checkout may have left the runner's credential in the clone (`Persisted`), in `http.*.extraheader`
keys that git prefers to the token. `Discover` is `suppressExtraHeaderOpts`, which asks for the names of
these keys to reset them in the commands that follow, and takes a failed answer for none; `Credential`
is what git then pushes with. A push by the persisted one may arrive or be refused.

### Changelog, ChangelogCache, ReleaseTrigger: release notes

`ChangelogCache` is one call of `GetChangelog`. `artifact` is what the registry has for the commit
and never changes: the number of indexes in front of the manifest, up to one that is too deep, the
markdown layer (none, empty, text), the version layer (none, empty, a version). `at` is the request
the attempt is about to make; each may fail in transport, by status, or, where its body is decoded,
by content, and `AttemptFails` is where `isRetryable` and the attempts left decide between sleeping
and falling back. `files` says which source wrote CHANGELOG.md and VERSION, `old` being an earlier
run's. `last`, `trouble` and `blocked` are history, for the properties and the refinement. How long
`Sleep` sleeps is left out.

`Changelog` is the promise: cached notes if they are usable (text, and a version if the caller has
none), generated ones if they are not or a request failed, and an error only when something other
than the cache fails. `ReleaseTrigger` composes the call with its callers: the task `release`, which
has the version confirmed and triggers the workflow, and the tag tasks, which publish.

### Tools: managed tools, from one process to the next

Processes of go-make run one after another over one tool directory: `disk` is the file at `ToolPath`
of each command, by what made it (binny, a downloaded release, a build from source, the shim around
a local module, or nothing whole) and from which version, and outlives them. `yaml` is the project's
`.binny.yaml`, `managed` what the process read of it when it started; they differ once `binny update`
has rewritten the file. `installed` is the map of the same name and `dotenv` the once-only cache of
`loadDotEnv`, both empty at each `Start`, when the configuration may have changed as well. `at` and
`call` are where the process is and for which command: a task calls `Run`, so `ManagedToolPath`,
looks for binny, checks its version, downloads it or else clones and builds it, or wraps the module
(`installBinnyShim`), has it install the tool, and executes the tool. Any of these can fail and panic;
a task can `Catch` that and go on, which `caught` remembers, or the process ends.

`where` is the working directory: a task may enter a temporary one, and `InClone` does while binny
is built. No repository is found there, so that `ToolDir` cannot be rendered and `RootDir` of the
`.env` gives nothing. `Kill`, a signal or `os.Exit`, leaves what was being written: a part of binny,
read-only when it came from a release, which no later process can run, nor replace short of
`binny:clean`. Two sources of binny, download and build, both leave the version configured; writing
over a release fails (it is read-only) unless the user is root, so `Download` can always go on to
`Clone`. What binny does when told to install or update is external, from how `binny.go` uses it.

### Coverage: the test task and its threshold

One task of `gotest.Tasks`, from its construction to the removal of its temporary directory, in the
order of `runTests` and `processCoverage`. `written` is the profile as `go test` left it, a sequence
of rows, each for a statement of a file; `rows` is the rows the file still has. `ScrubRow` is one turn
of the loop of `scrubCoverLines`, which asks for a file at its first row and remembers the answer in
`exists`; `Edit` creates and removes files at any moment, so that what the loop knows may be stale by
the next row, and `go tool cover` may fail on a file that went after. `Rewrite` is what follows the
loop; it may fail and leave a part, which `cut` remembers. Everything that panics goes to `Cleanup`.
What the commands of go do is external: which rows there are, that the report needs the files of all
rows, and that its total is rounded to a tenth of a percent (`Percent`).

### Taskfile: importing a Taskfile.yaml

`project` is the files there are: for each, malformed or its tasks (listed or internal) and its
includes. `Tasks` finds the root file as `file.FindParent` does and calls `collectTasks`, whose active
calls are `stack`: the path and prefix of each, and what its two loops over maps have left, taken in any
order. `collectTasks(path, prefix, callers)` comes back from a file that one of the active calls is
for, fails on one that is malformed, and else becomes the innermost call; `CollectTask` and
`CollectInclude` are one turn of its loops, `Follows` what an include leads to. After the last `Return`
the tasks found (`out`) are looked at in the order of their names, those of one name in any
(`sort.Slice` is not stable), each against the globs (`Expose`). `Forward` is the `Run` of a task
returned. Names are sequences of numbers for what colons separate, so that `db:migrate` of one file and
`migrate` of the file included as `db` are the same name; globs are the sets of names they match.

`ListsEveryChain` compares with a definition that has no stack and no order: `Chains` are the sequences
of namespaces along which no file occurs twice, `Found` the tasks at their ends.

### Artifacts, Matrix: artifacts of a workflow run

Jobs of one run share `store`, GitHub's artifacts; each makes one call of go-make, `client` being where
it is. An upload makes sure that the node package is there, lists and deletes what it overwrites, picks
its files and has the node program upload them; a download finds the run, lists, and then fetches and
unpacks artifact by artifact, entry by entry. Each request is a step, after which another job may take
one. GitHub refusing a request is an error that the code returns or logs, a connection that fails is a
panic in `fetch`; both are faults, bounded by `MaxFaults`, and a request that failed may have had its
effect. GitHub lists in any order and no more than a page (`Listings`); it takes no second artifact of a
name in a run; `Selects` says which names a pattern matches. `disk` says from which artifact each file
unpacked is, `cut` which files are short. Files have kinds instead of names: in the target itself,
in a directory of it, larger than 2 GB, a directory, outside of the target, or outside but under a
path that begins with the target's. `Malformed` stands for any pattern or glob that cannot be matched,
which is a panic as soon as there is a name to match.

`Matrix` is `matrixSuffix` and `stringify` on short texts of a few characters; `MCArtifacts` has it
compute the default names of two jobs, which come out the same.

## Runs, bounds, and what they show

| Run | Module, configuration | Bounds | Shows |
|---|---|---|---|
| `tasks` | `MCTaskRunner`, `MCTaskRunner` | every makefile of two tasks over two names, with an alias, a dependency and a hook each; every makefile of three tasks with dependencies and hooks, cycles included; subtasks two levels deep; all beside built-in tasks, with no argument and with three | `TypeOK`, `AtMostOnce`, `ExactlyTheRequired`, `PrefixScoped`, `PrereqsFirst`, `Terminates`, and that the runner implements `TaskSchedule` |
| `command_io` | `MCCommandIO`, `MCCommandIO` | one goroutine, two contexts and one of the program's own, every list of up to two options that wire output or fail, two prints on each stream | `IOTypeOK`, `CurrentUsable`, `NoSilentLoss`, `FailureExplained`, `CancelledReturns` |
| `lifecycle` | `Lifecycle` | one command at a time, two contexts (one `Cancel` is all the signal goroutine does), two handlers of any kind, three signals (one to cancel, one to exit, one to be dropped) | `TypeOK`, `ZeroMeansSuccess`, `HandlersUndoInOrder`, `SignalEndsCommand`, `SecondSignalExits` |
| `release_jobs` | `MCRelease` | two jobs, each run up to twice, two faults anywhere, one of the user's keys and the ssh command set globally, a persisted credential in the clones | `TypeOK`, `PublisherMadeTheTag`, `ConfigSurvives`, `SecretsConfined`, `PushedAsGiven` |
| `changelog` | `ReleaseTrigger` | the code's own constants (four attempts, depth four), three versions, any artifact, a failure at every request | `TypeOK`, `TriggeredAsShown`, `DefinitiveFallsBack`, `Terminates`, and that the call implements `Changelog` |
| `tools` | `MCTools`, `MCTools` | one tool go-make embeds a version of, one that is not managed, one on the PATH; four versions, of which two agree as far as they go and one is a branch; any configuration at each start, which `binny update` may change for binny and for a tool; no counter, so any number of processes | `TypeOK`, `ServesConfigured`, `InstallerCurrent`, `NoNeedlessUpgrade` |
| `coverage` | `Coverage`, `Coverage` | two files and rows of other modules, any profile of up to three rows, any configuration with no threshold or one of 50, 66.7 and 100%; files come and go without bound | `TypeOK`, `DropsWholeFiles`, `PassIsEarned` |
| `taskfile` | `MCTaskfile`, `MCTaskfile` | every graph of a root file with two includes and two files with one each, to one another, themselves or nowhere, flattened on half of them; beside these, projects with a root above the git root, every kind of include, several candidates in a directory and malformed files; no glob, one that selects, one that is malformed | `TypeOK`, `ListsEveryChain`, `Terminates` |
| `artifacts` | `MCArtifacts`, `MCArtifacts` | two jobs with every pair of 24 calls (12 uploads, 12 downloads), three artifacts before, of which two in their run, pages of two, three workflow runs, one fault | `TypeOK`, `DownloadIsWhole`, `OverwritesItsName` |

The bounds matter least for what is [proved](#what-is-proved) as well. Two
tasks suffice for every way of sharing a name; three for a prerequisite reached by two paths and for a
cycle entered from outside. Two contexts are enough for one command, which takes one: it is replaced
or cancelled before the command starts, while it runs, and after. Two prints on a stream tell a writer
that misses the last piece from one that misses all, and two options meet in both orders. Goroutines
meet in the current context only, so one is run here; the proofs are for any number. Two jobs are enough to race from
the check to the push, and a re-run of either meets all that an attempt can leave behind; two faults
let a command fail and the restoring of what it changed, or the next attempt, fail too. The jobs are
interchangeable, so `release_jobs` uses symmetry; it checks no liveness. Of the versions, two are
releases that can be told apart and the third is chronicle's "(Unreleased)". One managed tool is
enough for `Tools`, as tools meet in binny only, and binny's version is what the four versions vary. Of three rows, one file can have two with another's
between them, and two of three covered is what rounds up to a threshold of 66.7%. Three files are
enough for a cycle of each length, one entered from outside, and a diamond, with a name that one file
has itself and another gets by its namespace. Two jobs of a matrix
race for one name or read what the other overwrites; the two artifacts of their run and one that a job
adds are more than a page of two.

Three more runs each check one sentence of the documentation that the code does not keep:
[below](#where-the-code-and-its-documentation-disagree).

Deadlock is checked where the specification says what an ended system does (`TaskRunner`,
`CommandIO`, `ReleaseTrigger`, `Tools`, `Coverage`, `Taskfile`, `Artifacts`). `Lifecycle` may stop in a handler that waits on its own
lock, and the jobs of `Release` may all have ended with no attempt left: their configurations turn
the check off.

## Fairness

- `TaskRunner!FairSpec`: weak fairness of the runner's own steps. It is one goroutine, and a task's
  `Run` is assumed to return or panic in the end.
- `IOFairSpec`: weak fairness of `Interrupt`, `WaitDelay`, `Finish` and `Copy`, which are goroutines
  and timers of `os/exec`; writers are assumed to return. Not of the processes: a child may run and
  print for ever, and `CancelledReturns` holds all the same, by way of `WaitDelay`.
- `Lifecycle!FairSpec`: weak fairness of the signal goroutine, of `DoExit` and its handlers, and of
  the same steps of `os/exec`. Not of the tasks, which may take for ever or hang, nor of signals.
- `ReleaseTrigger!FairSpec`: weak fairness of the task's steps. It is one goroutine; the HTTP client
  has a timeout of 30 seconds, sleeps end, and the commands and the user are assumed to answer.
- `Taskfile!FairSpec`: weak fairness of `Import`, the steps of `Tasks`. It is one goroutine that reads
  files; that it comes to an end is what the look-up in `ancestors` is for.
- `Release`, `Tools`, `Coverage` and `Artifacts` state safety only, and no fairness.

## What is proved

Each module of proofs follows one pattern: an invariant `IInv` that is inductive, that `Init`
establishes it, that each action preserves it, action by action and conjunct by conjunct, and the
properties from it. The assumptions are those on the constants, named where they are declared.

**`TaskRunnerProofs`**: for every set of makefiles, command lines and built-in tasks that meets
`DefAssumption` and `ProgramsAssumption` (finite lists of tasks with names), `Spec` implies `TypeOK`,
`AtMostOnce`, `ExactlyTheRequired`, `PrereqsFirst`, `PrefixScoped`, `RecursionBounded`, and implements
`TaskSchedule`.

None of these is inductive: that a task's prerequisites have completed when its `Run` is called
follows from where the loops of its call are, and what those loops have passed from what the calls
they made returned. `IInv` says so: for each call on the stack, all that its finished turns wanted
is `Passed`, that is, run to its end or, on a cycle, a task whose own call is further down the
stack; each call was made for a want of the call below it; the tasks marked as run are those
completed, plus those on the stack; and the prefixes saved along the stack are the ones to restore.
That recursion is bounded comes from an injection: each call that got as far as a task has marked a
different one. The refinement maps a step that begins, finishes or fails a task to the schedule's
action, all loop steps to stutters.

**`RunProofs`**, of `RunContext`: for any number of goroutines and contexts (`ContextAssumption`),
`RunTypeOK` and `CurrentUsable`; inductive with them: a command that was not started has no process.
That `IOSpec` and the `Spec` of `Lifecycle` imply `RunSpec` are lemmas (`Runs`, `LifecycleRuns`), by
which both carry over.

Of `CommandIO`: for any number of prints and any options (`OptionAssumption`) as well, `IOTypeOK`,
`NoSilentLoss` and `FailureExplained`. The invariant has, for every command,
that the writers of a stream have no more than was printed, all the same until one has failed, and
those that failed less than the others (`InStep`); that stderr is shown or kept for the error whatever
the options did, as `Capture` comes last (`Wellformed`); and what a command that has returned says of
its streams (`Settled`): one that ended in time has copied each to its end or to a failure, and
without an error there was none. `IOTypeOK` needs the type of `Wired`, a recursive function over the
options (`WiresEveryList`), and that no writer is ahead of the prints (`AllKept`).

Of `Lifecycle`: for any number of handlers, commands and signals (`LifecycleAssumption`), `TypeOK`,
`ZeroMeansSuccess` and `HandlersUndoInOrder`. The second needs `Handled`: tasks run while nothing is
thrown, and `HandleErrors` lets only `OkError` through to `DoExit`. The third needs `Unwinding`: once
`DoExit` holds the lock the list of handlers is fixed, those handled and those left make it up, and
the i-th handled is the i-th from its end.

**`ReleaseProofs`**: for any number of jobs, attempts and faults and any configuration
(`ReleaseAssumption`), `TypeOK`, `PublisherMadeTheTag`, `ConfigSurvives`, `SecretsConfined` and the
action property `PushedAsGiven`. For the first two the invariant is `Owns`: from `CreateTag`
to the push a job's clone holds the tag of this very attempt, and from the push to the publication
the remote does, unless a panic is on its way out; no other job can disturb it, as no push moves a
tag. The others concern one job at a time and have an invariant of their own, `Holds`. `Preserves` says
which keys may differ from before (`Altered`: those of the place, less what a restoring loop has
passed) and that what was saved of the others is what git saw then. `Armed` says that from the check of
the remote on the agent has the key or the headers were asked for, and the configuration is the one set: that the tag goes to the given repository has no excuse, that it goes
by the given credential has one, headers that could not be listed.

**`ReleaseTriggerProofs`**: whatever the registry holds, for any number of attempts and any depth
(`CacheAssumption`, `UnreleasedAssumption`), `TypeOK`, `DefinitiveFallsBack`, `TriggeredAsShown`, and
that the call of `GetChangelog` implements `Changelog`. `Found` says what an attempt that got that far
has seen of the artifact, `Written` that an answer is what this call wrote to the files, `Proceeds`
that the task goes on only with an answer it can use, and triggers once.

**`ToolsProofs`**: for any tools, versions and configurations (`ToolsAssumption`), `TypeOK`,
`ServesConfigured`, `InstallerCurrent` and `NoNeedlessUpgrade`. `KnowsBinny` carries the second: the
binny a process has found or put in place does what is configured, unless it is only installing
itself or an attempt to has failed. That `matchesVersion`, which walks the numbers of two versions,
agrees with `Agree`, which compares their common prefix, is a lemma (`MatchesIsAgree`).

**`CoverageProofs`**: for any files, profiles and thresholds (`CoverageAssumption`), `TypeOK`,
`DropsWholeFiles`, `PassIsEarned`, and two that no run lists: `CallersFileUntouched`, a file the caller
named keeps all its rows, and `CleansUp`, a task that ended has tried to remove its directory. No property says anything of the loop while
it runs; `Scrubbing` does: every row passed is of a file that was looked up, and those kept are those
whose file was found. As an answer once remembered never changes, what is kept at the end is
`Surviving`, whatever the files did meanwhile. That a percentage of a profile is a number, so that it is
or is not below a threshold, takes the finiteness of the profile (`PercentType`).

**`TaskfileProofs`**: for any directories, finitely many files in each project and any globs
(`TaskfileAssumption`), `TypeOK`, by which the active calls are always a chain of includes from the
root in which no file occurs twice; that there are never more of them than files (`Bounded`); that
whatever is listed is a task of a file at the end of such a chain, under its prefix, and matches the
globs (`OnlyListed`); that the list is in the order of names (`Ordered`); and `ListsEveryChain`, that
nothing is left out and nothing listed more often than chains lead to it.

`IInv` carries the chain behind each task found as a witness (`Listed`), and that nothing left to look
at comes before what was returned. The last property takes a second invariant, `CInv`. While
`collectTasks` runs there is a chain `c` whose files and prefixes are those of the active calls, and
what is `Awaited` is what the calls have left: their own tasks, and the tasks of all chains that begin
like `c` up to one of the calls and go on with an include it has left (`Ahead`). The tasks found are,
one for one (`Lists`), what is to be found and not awaited, and every chain that ends at a malformed
file is ahead (`Tracks`). Each step keeps that up: `TracksTask` takes one task from what is awaited to
what is found; `TracksPast` has an include that leads nowhere, or back, and no chain goes on there;
`TracksInto` makes `c` longer, and what was ahead of the shorter chain is ahead of the longer one or at
its end; `TracksBack` takes its end away again. When the first call ends, nothing is awaited. What
`Expose` returns corresponds one for one to what the globs select of that (`Exposed`), and sets that
correspond one for one have as many members (`SameNumber`). The chain is a witness, and not computed
from the calls, because two includes of a file may lead to one file under one prefix.

`FileAt`, `PrefixOf` and the chains are recursive functions. That such a function exists and takes its
values step by step is a lemma (`Recursion`), by induction up to a number; the induction is an
argument by the least counterexample, of the set for which the claim holds (`UpTo`), since the
induction theorems of the library cannot be used here. `ArtifactsProofs` and `RunProofs` argue the
same way about `Matching` and `Wired`.

**`ArtifactsProofs`**: for any finite set of jobs, any artifacts before, calls, listings, page size and
number of faults (`ArtifactsAssumption`), `TypeOK`, `DownloadIsWhole` and `OverwritesItsName`. `IInv`
says of each job, apart from the shape of its state: where which call can be (`Placed`); that an
overwriting upload has deleted those before its place in the list, and has all it saw in the list or
an excuse (`Replaces`); and that of the artifacts a download has unpacked, and of the entries of the
present one it has passed, each file it can extract is there from the last that has it (`Unpacks`).
Other jobs meanwhile add artifacts behind the others and delete some; neither changes what an artifact
that was listed is. Of the artifacts that are gone it says that someone else overwrites their name
(`Replaced`). That there are no more artifacts than `TypeOK` says takes a count of the jobs that have
ended.

Only model-checked is liveness (`Terminates` of `TaskRunner`, `ReleaseTrigger` and `Taskfile`,
`CancelledReturns`, `SignalEndsCommand`, `SecondSignalExits`), since the prover handles neither
fairness nor `ENABLED`; every other property of a passing run is a theorem. `RecursionBounded`
(`TaskRunnerProofs`), `Bounded`, `OnlyListed`, `Ordered` (`TaskfileProofs`) and the two of `Coverage`
above are proved and listed by no run. That `Matrix` gives two jobs one name is computed by TLC for two
matrices.

## Where the code and its documentation disagree

| Run | Documentation | What happens |
|---|---|---|
| `lifecycle_cleanup` | `tasks.go:95`, `config/exit.go:25`: automatic cleanup by `DoExit` | a failing task exits without it |
| `command_write` | `run/run.go:184`: "Write redirects stdout to a file" | `Write` closes the file before it returns: the file stays empty and a command that prints fails |
| `tools_dotenv` | `run/dotenv.go:34`: "resolves and parses <RootDir>/.env exactly once per process" | when binny has to be built, the first command is the clone, in a temporary directory: the project's `.env` is never read |

Seen in the code while modelling, followed by the models, and checked by no run of their own:

- `lang/errors.go:69` says "OkError: exits cleanly without error output"; `*OkError`, the only one of the
  two types that is an error and that `Throw` takes, is printed and exits with 1.
- `git/tag.go:99-100` says "all git config changes are restored on return"; a key that could not be read
  counts as unset and is unset afterwards.
- `git/tag.go:70` validates the configuration of a push after the local tag is made: an invalid one fails
  the release with the tag left behind.
- `git/tag.go:326`: if git cannot list the persisted headers, there seem to be none, and the push is made
  with the credential the comment above it (`tag.go:175-179`) is about.
- `gotask/taskfile.go`: a name may be listed twice, by a task `db:migrate` beside an include `db`, by two
  flattened includes, or by a file flattened in two ways; the task runner then runs `task db:migrate` twice.
- `github/api.go:160` makes the directory above the target, not the target (`ensureDir` takes
  `filepath.Dir`): a download to one that is not there panics, and one with files in directories that are
  not there is an error.
- `github/api.go:173` leaves the archive in the target directory, as `.gh-download-...`.
- `github/api.go:208` compares paths as texts: of entries outside of the target, which are skipped
  otherwise, one for a directory beside it whose name begins like the target's is unpacked.
- `github/artifact_upload.go:108` returns an error for an id that is no number after the upload was made.
- `github/api.go:228` cuts a file at 2 GB without an error; line 126 reads one page of artifacts.
- `github/artifact_upload.go:56-59` deletes before it looks for files to upload, so an upload that
  overwrites and finds none leaves no artifact; it deletes what its name matches as a pattern, in any
  case of letters.
- `github/matrix.go:41-43` replaces capitals by a dash before it lower-cases, so that `A1` and `B1` give
  the same suffix; keys are lower-cased first (line 57).

- `tasks.go:39` says dependencies "must complete successfully before this task runs"; on a cycle a
  task runs before one of them, which `PrereqsFirst` allows for.
- `tasks.go:54-56` says subtask names are "automatically prefixed"; they are registered as they are.
- `run/run_opts.go:11` says kills "apply to spawned children"; the kill after WaitDelay reaches the
  child alone.
- `run/context.go:27` says `Cancel` cancels "any currently executing scripts"; those started before a
  `SetContext` are out of its reach.
- `run/run.go:29` says stderr is "output to os.Stderr and returned as part of the error text"; the error
  has it only when it does not go to `os.Stderr`.
- `run/run.go:48` wraps the writer of stderr in a tee, which hides from `os/exec` that `Stdout` and
  `Stderr` were given the same writer: two goroutines then write to it at once.
- `run/run.go:392` applies the options once more to print the arguments of a failed command: an option
  with effects of its own has them twice.
- `stream/tee.go:66` builds the list without the writer and drops it: `RemoveWriter` removes nothing.
  Nothing in the repository calls it.
- `run/run.go:216` says NoFail gives "an empty string"; what the command printed is returned.
- `tasks.go:93` promises "graceful shutdown"; a signal between two commands is lost on the tasks.
- `tasks/release/release.go:32-33` has the changelog generated before the tag is pushed; it is pushed
  first, so a changelog that cannot be made leaves a pushed tag without a release.
- `git/tag.go:25` says the original configuration is restored; a global name is left copied into the
  local configuration (`ConfigSurvives` counts that as surviving: its effective value is the same).
- `git/ssh_agent_linux.go:27` promises cleanup "even if we panic during setup"; an agent is left when
  its output cannot be parsed or its start is cancelled.
- `changelog_cache.go:38` counts "non-auth 4xx" among what is retried; of the 4xx, only 429 is. The
  comment at 133-135 has only transient errors retried; garbled answers, empty tokens and a chain of
  indexes that is too deep are retried as well.
- `binny/binny.go:75` promises "installing or updating it before returning"; after `binny:clean`, the
  path remembered earlier in the process is returned and leads nowhere.
- `binny/binny.go:116` says "we manage the binny updates here"; a binny asked for by itself
  (`binny:install`, or `Run` of "binny ...") is taken without a look at its version.
- `binny/binny.go` downloads an update of binny before it builds one; over a downloaded binny the
  download cannot be written (`fetch/binary_release.go:67` makes it read-only) unless by root, and the
  update is always built from source.

- `tasks/gotest/test.go:190-193`: a task with a threshold "fails when ... the coverage percentage cannot
  be parsed"; when no temporary directory can be made (line 113) it passes unmeasured, which
  `PassIsEarned` excuses, as it does a profile whose rewriting failed (line 341 logs that and goes on).
- `tasks/gotest/test.go:122-125` guards `go tool cover` from files that are gone; one that goes between
  the scrubbing and the report fails it still.

`PROJECT.json` quotes both sides of those in the table. Two more consequences worth knowing: a
release interrupted between push and publication cannot be completed by running the job again, as
`CreateTag` or the check of the remote refuses the tag; and an exit handler that calls `OnExit`
hangs the process until a signal comes twice. A process killed while it writes binny leaves a file
that every later one tries to run and none replaces.

## What is not modelled

- The contents of output, logs, templates and messages; the environment filter; `internal/redact` and
  `shell.Split`, which are text to text; `color`, `log`, `template`, `help.go`; the Windows variants.
- HTTP, archives and JSON (`fetch`, and what is below it in `github`); the loading of the event from the
  environment by reflection (`github/event.go`), parameters (`params.go`), `ListArtifactsForBranch`.
- Which tag names, keys and tokens are valid (`git/tag_config.go`): that and when a config may be invalid
  is in `Release`, the formats are left to its tests. The temporary directory of a push.
- `golint` and `goreleaser` beyond installing their tools: command lines over lists of files.
- The gitignore gate, the parsing and the merging of `.env`, the decoding of `.binny.yaml`, and two
  processes at once on one tool directory (`Tools`); the arguments of `go test` and the choice of
  packages (`Coverage`); where the sleeping time goes (`ChangelogCache`).
- Test helpers (`require`), the generation of ssh keys, stack traces.

Each is listed as `not_modelled` or `partly` in `PROJECT.json`.

## Plan

1. The task runner: `Makefiles`, `TaskSchedule`, `TaskRunner`, `TaskRunnerProofs`. Done.
2. `RunContext`, `Lifecycle`, `Release` with their proofs. Done.
3. `Changelog`, `ChangelogCache`, `ReleaseTrigger` with the proof of the refinement. Done.
4. `Tools` with its proofs. Done; two processes at once would show what the tool directory, which is
   not locked, is exposed to.
5. `CommandIO` with its proofs. Done; the caller's own `*os.File`, given to the child as `os.Stderr` is,
   would let `Open` tell a file from a pipe writer by writer.
6. `Coverage` with its proofs. Done; a signal ends the process without its `Cleanup`, which composing it
   with `Lifecycle` would show.
7. `Taskfile`, `Artifacts` and `Matrix`, with their proofs. Done.
8. Open: composing `Taskfile` with `TaskRunner`, whose shared names it makes; pure operators against
   reference definitions (`shell.Split`, `redact.Args`). To prove: a measure that each step of
   `collectTasks` and of `runTask` lowers, which is what their termination rests on.
