------------------------------- MODULE Tools -------------------------------
(***************************************************************************)
(* The tools that tasks run (binny/binny.go, run.go, run/dotenv.go): one   *)
(* process of go-make after another works on one tool directory, while the *)
(* versions configured change.  A tool is installed by binny, which        *)
(* go-make downloads, builds or wraps itself; paths are remembered in      *)
(* `installed' until the process ends.                                     *)
(***************************************************************************)
EXTENDS Integers, Sequences

CONSTANTS
  CMD,       \* the constant CMD: binny
  Tool,      \* other commands that tasks run
  OnPath,    \* those the user has on the PATH
  Version,
  None,
  Tokens,    \* of each version, the numbers matchesVersion finds in it; none in a branch name
  Embedded,  \* defaultSpecs: the version go-make's own configuration has of each command
  Configs    \* what a project's .binny.yaml may say of each command

Cmd == Tool \cup {CMD}

\* toolSpec: a version, or for binny a checked-out source tree ("." of its own project).
Spec == [version : Version \cup {None}, module : BOOLEAN]

\* A file at ToolPath, by what made it and from which version.
File == [from : {"nothing", "partial", "release", "source", "module", "binny"},
         version : Version \cup {None}]
Nothing == [from |-> "nothing", version |-> None]
Partial == [from |-> "partial", version |-> None]
FromModule == [from |-> "module", version |-> None]

ASSUME ToolsAssumption ==
  /\ CMD \notin Tool /\ OnPath \subseteq Tool /\ None \notin Version
  /\ Tokens \in [Version -> Seq(Nat)]
  /\ Embedded \in [Cmd -> Version \cup {None}] /\ Embedded[CMD] # None
  /\ Configs \subseteq [Cmd -> Spec]
  /\ \A cfg \in Configs, t \in Tool : ~cfg[t].module

VARIABLES
  disk,       \* the file at ToolPath of each command
  yaml,       \* the project's .binny.yaml
  managed,    \* binnyManaged: what this process has read of it
  installed,  \* the map of the same name: the path remembered for each command
  dotenv,     \* dotEnvCache: not loaded yet, the project's .env, or nothing
  where,      \* the working directory: in the project, or temporary and in no repository
  at,         \* where the process is
  call,       \* the command it is about, and what for
  caught      \* whether this process has gone on after a failure of binny

vars == <<disk, yaml, managed, installed, dotenv, where, at, call, caught>>

Uses == {"run", "return", "all", "update"}

TypeOK ==
  /\ disk \in [Cmd -> File]
  /\ yaml \in Configs /\ managed \in Configs
  /\ installed \in [Cmd -> {"none", "tool dir", "PATH"}]
  /\ dotenv \in {"unread", "project", "nothing"}
  /\ where \in {"project", "temporary"}
  /\ at \in {"ended", "task", "locate", "version", "download", "clone", "build", "install", "exec",
             "panic"}
  /\ call \in [cmd : Cmd, use : Uses]
  /\ caught \in BOOLEAN

Init ==
  /\ disk = [c \in Cmd |-> Nothing]
  /\ yaml \in Configs /\ managed = yaml
  /\ installed = [c \in Cmd |-> "none"]
  /\ dotenv = "unread" /\ where = "project"
  /\ at = "ended" /\ call = [cmd |-> CMD, use |-> "run"] /\ caught = FALSE

-----------------------------------------------------------------------------
(* What is configured.                                                     *)

InLocalConfig(cfg, c) == cfg[c].version # None \/ cfg[c].module
IsManagedTool(c) == InLocalConfig(managed, c) \/ Embedded[c] # None

FindVersion(cfg, c) == IF cfg[c].version # None THEN cfg[c].version ELSE Embedded[c]

\* Fault: the embedded configuration is passed whenever it has the tool.
DefaultsFirst(c) == Embedded[c] # None

\* Install passes the embedded configuration for what the local one lacks.
UsesDefaults(c) == ~InLocalConfig(managed, c) /\ Embedded[c] # None

\* Fault: the last number is not compared.
MatchesAllButLast(v, w) ==
  /\ v # None /\ w # None
  /\ IF Tokens[v] = <<>> \/ Tokens[w] = <<>> THEN v = w
     ELSE \A i \in 1..(Len(Tokens[v]) - 1) : i \in DOMAIN Tokens[w] => Tokens[v][i] = Tokens[w][i]

\* Fault: a version matches only if it says as much.
MatchesExactly(v, w) ==
  /\ v # None /\ w # None
  /\ IF Tokens[v] = <<>> \/ Tokens[w] = <<>> THEN v = w ELSE Tokens[v] = Tokens[w]

(***************************************************************************)
(* matchesVersion: versions are compared number by number as far as both   *)
(* have one, and as they are if one has none.                              *)
(***************************************************************************)
MatchesVersion(v, w) ==
  /\ v # None /\ w # None
  /\ IF Tokens[v] = <<>> \/ Tokens[w] = <<>> THEN v = w
     ELSE \A i \in DOMAIN Tokens[v] \cap DOMAIN Tokens[w] : Tokens[v][i] = Tokens[w][i]

Runnable(file) == file.from \notin {"nothing", "partial"}

\* What binny leaves at ToolPath when it installs c.
Installs(c) ==
  IF UsesDefaults(c) THEN [from |-> "binny", version |-> Embedded[c]]
  ELSE IF yaml[c].module THEN FromModule
  ELSE [from |-> "binny", version |-> yaml[c].version]

-----------------------------------------------------------------------------
(* A process and its tasks.                                                *)

\* A panic leaves the directory scopes of the library (InDir) on its way to a task.
Panics == at' = "panic" /\ where' = IF at = "task" THEN where ELSE "project"

\* loadDotEnv, by every Command: once, from the root of the repository it is then in.
LoadDotEnv ==
  dotenv' = IF dotenv # "unread" THEN dotenv
            ELSE IF where = "project" THEN "project" ELSE "nothing"

\* The program starts: .binny.yaml may have been edited since the last one ended.
Start ==
  /\ at = "ended" /\ at' = "task"
  /\ yaml' \in Configs /\ managed' = yaml'
  /\ installed' = [c \in Cmd |-> "none"]
  /\ dotenv' = "unread" /\ where' = "project" /\ caught' = FALSE
  /\ UNCHANGED <<disk, call>>

End ==
  /\ at \in {"task", "panic"} /\ at' = "ended"
  /\ UNCHANGED <<disk, yaml, managed, installed, dotenv, where, call, caught>>

\* Killed, or ended by os.Exit: what os.WriteFile was writing stays behind.
Kill ==
  /\ at \notin {"ended", "task", "panic"} /\ at' = "ended"
  /\ \/ UNCHANGED disk
     \/ at = "download" /\ disk' = [disk EXCEPT ![CMD] = Partial]
     \/ /\ at = "locate" /\ managed[CMD].module /\ installed[CMD] # "tool dir"
        /\ \E file \in {Nothing, Partial} : disk' = [disk EXCEPT ![CMD] = file]
  /\ UNCHANGED <<yaml, managed, installed, dotenv, where, call, caught>>

\* A task catches what failed, inside or outside a temporary directory of its own.
Catch ==
  /\ at = "panic" /\ at' = "task" /\ caught' = (caught \/ call.cmd = CMD)
  /\ where' \in {where, "project"}
  /\ UNCHANGED <<disk, yaml, managed, installed, dotenv, call>>

\* InTempDir by a task, and its end.
TempDir ==
  /\ at = "task" /\ where' \in {"project", "temporary"} \ {where}
  /\ UNCHANGED <<disk, yaml, managed, installed, dotenv, at, call, caught>>

\* run.Command by a task, of a command that is no tool.
Command ==
  /\ at = "task" /\ LoadDotEnv
  /\ UNCHANGED <<at, where>> \/ Panics
  /\ UNCHANGED <<disk, yaml, managed, installed, call, caught>>

\* The task binny:clean deletes the tool directory; Delete panics where there is no root.
Clean ==
  /\ at = "task"
  /\ IF where = "project" THEN disk' = [c \in Cmd |-> Nothing] /\ UNCHANGED <<at, where>>
     ELSE Panics /\ UNCHANGED disk
  /\ UNCHANGED <<yaml, managed, installed, dotenv, call, caught>>

-----------------------------------------------------------------------------
\* Fault: what was not found is remembered too.
LookPathOnce(c) ==
  installed' = [installed EXCEPT ![c] = IF c \in OnPath THEN "PATH" ELSE ""]

\* exec.LookPath: what is not found is looked up again, and run by its name.
LookPath(c) ==
  installed' = IF c \in OnPath THEN [installed EXCEPT ![c] = "PATH"] ELSE installed

(***************************************************************************)
(* ManagedToolPath, for Run (of anything, or "binny update") and for       *)
(* InstallAll.  Rendering ToolDir panics outside a repository.             *)
(***************************************************************************)
ManagedToolPath(c, use) ==
  /\ at = "task"
  /\ use = "run" \/ (c = CMD /\ use \in {"all", "update"})
  /\ call' = [cmd |-> c, use |-> use]
  /\ \/ where = "temporary" /\ Panics /\ UNCHANGED installed
     \/ /\ where = "project" /\ UNCHANGED where
        /\ \/ installed[c] # "none" /\ at' = "exec" /\ UNCHANGED installed
           \/ installed[c] = "none" /\ IsManagedTool(c) /\ at' = "locate" /\ UNCHANGED installed
           \/ installed[c] = "none" /\ ~IsManagedTool(c) /\ at' = "exec" /\ LookPath(c)
  /\ UNCHANGED <<disk, yaml, managed, dotenv, caught>>

\* A release dependency is installed without being run or remembered.
InstallDependency(c) ==
  /\ at = "task" /\ IsManagedTool(c)
  /\ call' = [cmd |-> c, use |-> "return"]
  /\ IF where = "project" THEN at' = "locate" /\ UNCHANGED where ELSE Panics
  /\ UNCHANGED <<disk, yaml, managed, installed, dotenv, caught>>

-----------------------------------------------------------------------------
(* Install: binny first.                                                   *)

BinnyAt(file) ==
  /\ disk' = [disk EXCEPT ![CMD] = file]
  /\ installed' = [installed EXCEPT ![CMD] = "tool dir"]
  /\ at' = "install" /\ where' = "project"

InstallFails ==
  Panics /\ UNCHANGED <<disk, installed>>

\* binny is where this process has put or found it.
BinnyKnown ==
  /\ at = "locate" /\ installed[CMD] = "tool dir" /\ BinnyAt(disk[CMD])
  /\ UNCHANGED <<yaml, managed, dotenv, call, caught>>

\* installBinnyShim removes what is there before it writes, unless it is the shim already.
InstallBinnyShim ==
  /\ at = "locate" /\ installed[CMD] # "tool dir" /\ managed[CMD].module
  /\ \/ BinnyAt(FromModule)
     \/ /\ Panics /\ UNCHANGED installed
        /\ \E file \in {disk[CMD], Nothing, Partial} : disk' = [disk EXCEPT ![CMD] = file]
  /\ UNCHANGED <<yaml, managed, dotenv, call, caught>>

\* The switch of Install for a binny that is no local module.
FindBinny ==
  /\ at = "locate" /\ installed[CMD] # "tool dir" /\ ~managed[CMD].module
  /\ \/ disk[CMD] = Nothing /\ at' = "download" /\ UNCHANGED <<disk, installed, where>>
     \/ /\ disk[CMD] # Nothing /\ call.cmd # CMD /\ IsManagedTool(CMD) /\ at' = "version"
        /\ UNCHANGED <<disk, installed, where>>
     \/ disk[CMD] # Nothing /\ (call.cmd = CMD \/ ~IsManagedTool(CMD)) /\ BinnyAt(disk[CMD])
  /\ UNCHANGED <<yaml, managed, dotenv, call, caught>>

\* binny --version; what a build from a module prints is taken for no version.
CheckVersion ==
  /\ at = "version" /\ LoadDotEnv
  /\ \/ InstallFails
     \/ /\ Runnable(disk[CMD])
        /\ IF MatchesVersion(disk[CMD].version, FindVersion(managed, CMD)) THEN BinnyAt(disk[CMD])
           ELSE at' = "download" /\ UNCHANGED <<disk, installed, where>>
  /\ UNCHANGED <<yaml, managed, call, caught>>

(***************************************************************************)
(* BinaryRelease: a request that cannot be made, or an archive that cannot *)
(* be read, panics; a status, or a failure to write, is an error, for      *)
(* which binny is built from source in a clone (installBinny).  Writing    *)
(* over a release fails unless the user is root: it is read-only.          *)
(***************************************************************************)
Download ==
  /\ at = "download"
  /\ \/ BinnyAt([from |-> "release", version |-> FindVersion(managed, CMD)])
     \/ /\ at' = "clone" /\ where' = "temporary" /\ UNCHANGED installed
        /\ \E file \in {disk[CMD], Partial} : disk' = [disk EXCEPT ![CMD] = file]
     \/ InstallFails
  /\ UNCHANGED <<yaml, managed, dotenv, call, caught>>

\* InClone: git clone is run in the temporary directory.
Clone ==
  /\ at = "clone" /\ LoadDotEnv
  /\ \/ at' = "build" /\ UNCHANGED <<disk, installed, where>>
     \/ InstallFails
  /\ UNCHANGED <<yaml, managed, call, caught>>

\* BuildFromGoSource; go build replaces the file as a whole.
Build ==
  /\ at = "build" /\ LoadDotEnv
  /\ \/ BinnyAt([from |-> "source", version |-> FindVersion(managed, CMD)])
     \/ InstallFails
  /\ UNCHANGED <<yaml, managed, call, caught>>

InstallBinny == Download \/ Clone \/ Build

(***************************************************************************)
(* binny install: the version comes from .binny.yaml as it is now, or from *)
(* the embedded configuration if go-make passes that.                      *)
(***************************************************************************)
Install ==
  /\ at = "install" /\ LoadDotEnv
  /\ \/ InstallFails
     \/ /\ Runnable(disk[CMD])
        /\ UsesDefaults(call.cmd) \/ InLocalConfig(yaml, call.cmd)
        /\ disk' = [disk EXCEPT ![call.cmd] = Installs(call.cmd)]
        /\ IF call.use = "return" THEN at' = "task" /\ UNCHANGED installed
           ELSE at' = "exec" /\ installed' = [installed EXCEPT ![call.cmd] = "tool dir"]
        /\ UNCHANGED where
  /\ UNCHANGED <<yaml, managed, call, caught>>

-----------------------------------------------------------------------------
(* Run: the command itself.                                                *)

\* binny install -v: every tool of .binny.yaml, or some of them if it fails.
InstallsAll(S) == disk' = [c \in Cmd |-> IF c \in S THEN Installs(c) ELSE disk[c]]

\* binny update: other versions, of the same tools; the task binny:update runs once.
Updates ==
  /\ yaml = managed /\ yaml' \in Configs
  /\ \A c \in Cmd : /\ InLocalConfig(yaml', c) = InLocalConfig(yaml, c)
                    /\ yaml'[c].module = yaml[c].module

Exec ==
  /\ at = "exec" /\ LoadDotEnv
  /\ \/ Panics
     \/ /\ at' = "task" /\ UNCHANGED where
        /\ installed[call.cmd] = "tool dir" => Runnable(disk[call.cmd])
  /\ \/ call.use = "run" /\ UNCHANGED <<disk, yaml>>
     \/ /\ call.use = "all" /\ UNCHANGED yaml
        /\ LET local == {c \in Cmd : InLocalConfig(yaml, c)} IN
           IF at' = "task" THEN InstallsAll(local)
           ELSE \/ UNCHANGED disk
                \/ Runnable(disk[CMD]) /\ \E S \in SUBSET local : InstallsAll(S)
     \/ /\ call.use = "update" /\ UNCHANGED disk
        /\ IF at' = "task" THEN Updates ELSE UNCHANGED yaml
  /\ UNCHANGED <<managed, installed, call, caught>>

-----------------------------------------------------------------------------
Installing ==
  BinnyKnown \/ InstallBinnyShim \/ FindBinny \/ CheckVersion \/ InstallBinny \/ Install

Next ==
  \/ Start \/ End \/ Kill \/ Catch
  \/ TempDir \/ Command \/ Clean
  \/ \E c \in Cmd, use \in Uses : ManagedToolPath(c, use)
  \/ \E c \in Tool : InstallDependency(c)
  \/ Installing \/ Exec

ToolsSpec == Init /\ [][Next]_vars

-----------------------------------------------------------------------------
(* Properties.                                                             *)

(***************************************************************************)
(* Versions that agree, and a binny that is what a configuration wants.    *)
(***************************************************************************)
Agree(v, w) ==
  LET n == IF Len(Tokens[v]) < Len(Tokens[w]) THEN Len(Tokens[v]) ELSE Len(Tokens[w]) IN
  v = w \/ (n > 0 /\ SubSeq(Tokens[v], 1, n) = SubSeq(Tokens[w], 1, n))

BinnyMeets(cfg) ==
  IF cfg[CMD].module THEN disk[CMD].from = "module"
  ELSE disk[CMD].version # None /\ Agree(disk[CMD].version, FindVersion(cfg, CMD))

(***************************************************************************)
(* ManagedToolPath: "installing or updating it before returning".  A path  *)
(* remembered for a tool never leads to a version from before the process  *)
(* started: either binny:clean has deleted the file, or its version is the *)
(* one configured when the process started, or since binny update.         *)
(***************************************************************************)
ServesConfigured ==
  \A t \in Tool :
    installed[t] = "tool dir" /\ Runnable(disk[t]) =>
      \E cfg \in {managed, yaml} : disk[t].version = FindVersion(cfg, t)

(***************************************************************************)
(* "we manage the binny updates here": a binny that does not meet the      *)
(* configuration is never the one to install another tool, unless the      *)
(* process goes on after its attempt at installing binny has failed.       *)
(***************************************************************************)
InstallerCurrent ==
  at = "install" /\ call.cmd # CMD /\ Runnable(disk[CMD]) /\ ~caught =>
    BinnyMeets(managed) \/ BinnyMeets(yaml)

(***************************************************************************)
(* A binny that does what is configured is never replaced, as by comparing *)
(* versions of which one says less than the other (matchesVersion).        *)
(***************************************************************************)
NoNeedlessUpgrade ==
  at \in {"download", "clone", "build"} /\ disk[CMD] # Partial => ~BinnyMeets(managed)

(***************************************************************************)
(* "resolves and parses <RootDir>/.env exactly once per process"           *)
(* (loadDotEnv): when binny is asked to install a tool for the project,    *)
(* the .env loaded is the one of the project, or none yet.                 *)
(***************************************************************************)
DotEnvIsProjects == at = "install" => dotenv # "nothing"
=============================================================================
