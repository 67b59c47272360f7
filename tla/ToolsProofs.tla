---------------------------- MODULE ToolsProofs ----------------------------
(***************************************************************************)
(* For any tools, versions and configurations: which versions the tools    *)
(* have that tasks run, and which binny installs them.                     *)
(***************************************************************************)
EXTENDS Tools, TLAPS

\* From looking for binny to having replaced it: there is no local module to wrap.
Replacing == {"download", "clone", "build"}

(***************************************************************************)
(* The binny this process knows of does what is configured, unless it is   *)
(* only about to install itself, or has failed to.                         *)
(***************************************************************************)
Trusted ==
  /\ installed[CMD] = "tool dir" /\ ~caught /\ at # "ended"
  /\ ~(at \in {"install", "panic"} /\ call.cmd = CMD)
  /\ Runnable(disk[CMD])

KnowsBinny == Trusted => BinnyMeets(managed) \/ BinnyMeets(yaml)

IInv ==
  /\ TypeOK
  /\ at \in Replacing \cup {"version"} => ~managed[CMD].module
  /\ at = "install" => installed[CMD] = "tool dir"
  /\ ServesConfigured
  /\ KnowsBinny
  /\ NoNeedlessUpgrade

-----------------------------------------------------------------------------
LEMMA Prefixes ==
  ASSUME NEW s \in Seq(Nat), NEW t \in Seq(Nat), NEW n \in Nat, n <= Len(s), n <= Len(t)
  PROVE  SubSeq(s, 1, n) = SubSeq(t, 1, n) <=> \A i \in 1..n : s[i] = t[i]
  <1> DEFINE p == SubSeq(s, 1, n)
             q == SubSeq(t, 1, n)
  <1>1. p \in Seq(Nat) /\ Len(p) = n /\ \A i \in 1..n : p[i] = s[i]
    OBVIOUS
  <1>2. q \in Seq(Nat) /\ Len(q) = n /\ \A i \in 1..n : q[i] = t[i]
    OBVIOUS
  <1>3. ASSUME \A i \in 1..n : s[i] = t[i] PROVE p = q
    <2>1. \A i \in 1..n : p[i] = q[i]
      BY <1>1, <1>2, <1>3
    <2>. HIDE DEF p, q
    <2>. QED  BY <1>1, <1>2, <2>1
  <1>4. ASSUME p = q PROVE \A i \in 1..n : s[i] = t[i]
    <2>. HIDE DEF p, q
    <2>. QED  BY <1>1, <1>2, <1>4
  <1>. QED  BY <1>3, <1>4

\* What matchesVersion computes: number by number, one version begins like the other.
LEMMA MatchesIsAgree ==
  ASSUME NEW v \in Version, NEW w \in Version
  PROVE  MatchesVersion(v, w) <=> Agree(v, w)
  <1> DEFINE s == Tokens[v]
             t == Tokens[w]
             n == IF Len(s) < Len(t) THEN Len(s) ELSE Len(t)
  <1>1. s \in Seq(Nat) /\ t \in Seq(Nat) /\ v # None /\ w # None
    BY ToolsAssumption
  <1>2. n \in Nat /\ n <= Len(s) /\ n <= Len(t) /\ DOMAIN s \cap DOMAIN t = 1..n
    BY <1>1
  <1>3. SubSeq(s, 1, n) = SubSeq(t, 1, n) <=> \A i \in 1..n : s[i] = t[i]
    <2>. HIDE DEF n, s, t
    <2>. QED  BY <1>1, <1>2, Prefixes
  <1>4. n > 0 <=> s # <<>> /\ t # <<>>
    BY <1>1
  <1>5. v = w => s = t
    OBVIOUS
  <1>6. MatchesVersion(v, w) <=> IF s = <<>> \/ t = <<>> THEN v = w ELSE \A i \in 1..n : s[i] = t[i]
    BY <1>1, <1>2 DEF MatchesVersion
  <1>7. Agree(v, w) <=> v = w \/ (n > 0 /\ SubSeq(s, 1, n) = SubSeq(t, 1, n))
    BY DEF Agree
  <1>. HIDE DEF n, s, t
  <1>. QED  BY <1>3, <1>4, <1>5, <1>6, <1>7

LEMMA WantedIsVersion ==
  ASSUME NEW cfg \in Configs
  PROVE  FindVersion(cfg, CMD) \in Version
  <1>1. cfg[CMD] \in Spec /\ Embedded[CMD] \in Version
    BY ToolsAssumption DEF Cmd
  <1>. QED  BY <1>1 DEF FindVersion, Spec

LEMMA InitEstablishes == Init => IInv
  <1> SUFFICES ASSUME Init PROVE IInv
    OBVIOUS
  <1>1. TypeOK
    BY DEF Init, TypeOK, Nothing, File, Cmd, Uses
  <1>2. \A c \in Cmd : ~Runnable(disk[c]) /\ installed[c] = "none"
    BY DEF Init, Nothing, Runnable
  <1>. QED
    BY <1>1, <1>2 DEF IInv, Init, Replacing, ServesConfigured, KnowsBinny, Trusted, Cmd,
                      NoNeedlessUpgrade

-----------------------------------------------------------------------------
(* The types.                                                              *)

LEMMA InstallsAFile ==
  ASSUME TypeOK, NEW c \in Cmd
  PROVE  Installs(c) \in File
  <1>1. Embedded[c] \in Version \cup {None} /\ yaml[c] \in Spec
    BY ToolsAssumption DEF TypeOK
  <1>. QED  BY <1>1 DEF Installs, File, Spec, FromModule

LEMMA WrittenAreFiles ==
  /\ {Nothing, Partial, FromModule} \subseteq File
  /\ \A v \in Version : {[from |-> "release", version |-> v], [from |-> "source", version |-> v]} \subseteq File
  BY DEF Nothing, Partial, FromModule, File

\* Where the process is, and the pieces that the actions are made of.
Places == {"ended", "task", "locate", "version", "download", "clone", "build", "install", "exec",
           "panic"}
Directories == {"project", "temporary"}
Paths == {"none", "tool dir", "PATH"}
Envs == {"unread", "project", "nothing"}

LEMMA PiecesType ==
  ASSUME TypeOK
  PROVE  /\ Panics => at' \in Places /\ where' \in Directories
         /\ LoadDotEnv => dotenv' \in Envs
         /\ \A f \in File : disk' = [disk EXCEPT ![CMD] = f] => disk' \in [Cmd -> File]
         /\ \A f \in File : BinnyAt(f) =>
              /\ disk' \in [Cmd -> File] /\ installed' \in [Cmd -> Paths]
              /\ at' \in Places /\ where' \in Directories
  BY DEF TypeOK, Panics, LoadDotEnv, BinnyAt, Places, Directories, Paths, Envs

LEMMA TypeStep == TypeOK /\ [Next]_vars => TypeOK'
  <1> SUFFICES ASSUME TypeOK, [Next]_vars PROVE TypeOK'
    OBVIOUS
  <1>1. CMD \in Cmd /\ FindVersion(managed, CMD) \in Version /\ call.cmd \in Cmd
        /\ disk[CMD] \in File
    BY WantedIsVersion DEF Cmd, TypeOK
  <1>t. /\ disk \in [Cmd -> File] /\ yaml \in Configs /\ managed \in Configs
        /\ installed \in [Cmd -> Paths] /\ dotenv \in Envs /\ where \in Directories
        /\ at \in Places /\ call \in [cmd : Cmd, use : Uses] /\ caught \in BOOLEAN
    BY DEF TypeOK, Paths, Envs, Directories, Places
  <1> DEFINE Goal ==
        /\ disk' \in [Cmd -> File] /\ yaml' \in Configs /\ managed' \in Configs
        /\ installed' \in [Cmd -> Paths] /\ dotenv' \in Envs /\ where' \in Directories
        /\ at' \in Places /\ call' \in [cmd : Cmd, use : Uses] /\ caught' \in BOOLEAN
  <1> SUFFICES Goal
    BY DEF TypeOK, Paths, Envs, Directories, Places
  <1>2. CASE Start \/ End \/ Catch \/ TempDir
    BY <1>t, <1>2 DEF Start, End, Catch, TempDir, Places, Directories, Paths, Envs
  <1>3. CASE Command
    BY <1>t, <1>3, PiecesType DEF Command
  <1>4. CASE Kill
    BY <1>t, <1>1, <1>4, PiecesType, WrittenAreFiles DEF Kill, Places
  <1>5. CASE Clean
    BY <1>t, <1>5, PiecesType, WrittenAreFiles DEF Clean
  <1>6. ASSUME NEW c \in Cmd, NEW use \in Uses, ManagedToolPath(c, use) PROVE Goal
    <2>1. at' \in Places /\ where' \in Directories
      BY <1>t, <1>6, PiecesType DEF ManagedToolPath, Places
    <2>2. installed' \in [Cmd -> Paths]
      BY <1>t, <1>6 DEF ManagedToolPath, LookPath, Paths
    <2>3. call' \in [cmd : Cmd, use : Uses]
      BY <1>6 DEF ManagedToolPath
    <2>. QED  BY <1>t, <1>6, <2>1, <2>2, <2>3 DEF ManagedToolPath
  <1>7. ASSUME NEW c \in Tool, InstallDependency(c) PROVE Goal
    <2>1. at' \in Places /\ where' \in Directories
      BY <1>t, <1>7, PiecesType DEF InstallDependency, Places
    <2>2. call' \in [cmd : Cmd, use : Uses]
      BY <1>7 DEF InstallDependency, Cmd, Uses
    <2>. QED  BY <1>t, <1>7, <2>1, <2>2 DEF InstallDependency
  <1>8. CASE BinnyKnown \/ FindBinny
    BY <1>t, <1>1, <1>8, PiecesType DEF BinnyKnown, FindBinny, Places
  <1>9. CASE CheckVersion \/ Clone
    BY <1>t, <1>1, <1>9, PiecesType DEF CheckVersion, Clone, InstallFails, Places
  <1>10. CASE InstallBinnyShim
    BY <1>t, <1>1, <1>10, PiecesType, WrittenAreFiles DEF InstallBinnyShim
  <1>11. CASE Download \/ Build
    BY <1>t, <1>1, <1>11, PiecesType, WrittenAreFiles
       DEF Download, Build, InstallFails, Places, Directories
  <1>12. CASE Install
    <2>1. Installs(call.cmd) \in File
      BY <1>1, InstallsAFile
    <2>2. disk' \in [Cmd -> File] /\ installed' \in [Cmd -> Paths]
      <3>1. CASE InstallFails
        BY <1>t, <3>1 DEF InstallFails
      <3>2. CASE disk' = [disk EXCEPT ![call.cmd] = Installs(call.cmd)]
                 /\ installed' \in {installed, [installed EXCEPT ![call.cmd] = "tool dir"]}
        BY <1>t, <2>1, <3>2 DEF Paths
      <3>. QED  BY <1>12, <3>1, <3>2 DEF Install
    <2>. QED  BY <1>t, <1>12, <2>2, PiecesType DEF Install, InstallFails, Places
  <1>13. CASE Exec
    <2>1. disk' \in [Cmd -> File]
      BY <1>t, <1>13, InstallsAFile DEF Exec, InstallsAll
    <2>2. yaml' \in Configs
      BY <1>t, <1>13 DEF Exec, Updates
    <2>. QED  BY <1>t, <1>13, <2>1, <2>2, PiecesType DEF Exec, Places
  <1>14. CASE UNCHANGED vars
    BY <1>t, <1>14 DEF vars
  <1>. QED
    BY <1>2, <1>3, <1>4, <1>5, <1>6, <1>7, <1>8, <1>9, <1>10, <1>11, <1>12, <1>13, <1>14
       DEF Next, Installing, InstallBinny

-----------------------------------------------------------------------------
(* The tools served.                                                       *)

\* Whatever it reads, binny installs a version that is configured.
LEMMA InstallsConfigured ==
  ASSUME TypeOK, NEW c \in Cmd, UsesDefaults(c) \/ InLocalConfig(yaml, c)
  PROVE  /\ c \in Tool => \E cfg \in {managed, yaml} : Installs(c).version = FindVersion(cfg, c)
         /\ c = CMD => \E cfg \in {managed, yaml} :
              IF cfg[CMD].module THEN Installs(CMD).from = "module"
              ELSE Installs(CMD).version = FindVersion(cfg, CMD)
  <1>1. /\ c \in Tool => ~yaml[c].module
        /\ managed[c] \in Spec /\ yaml[c] \in Spec
    BY ToolsAssumption DEF TypeOK
  <1>2. CASE UsesDefaults(c)
    BY <1>1, <1>2 DEF UsesDefaults, InLocalConfig, Installs, FindVersion, Spec
  <1>3. CASE ~UsesDefaults(c) /\ InLocalConfig(yaml, c)
    BY <1>1, <1>3 DEF InLocalConfig, Installs, FindVersion, Spec, FromModule
  <1>. QED  BY <1>2, <1>3

\* What is about one tool.
Serves(t) ==
  installed[t] = "tool dir" /\ Runnable(disk[t]) =>
    \E cfg \in {managed, yaml} : disk[t].version = FindVersion(cfg, t)

LEMMA ServedStep ==
  ASSUME TypeOK, ServesConfigured, [Next]_vars
  PROVE  ServesConfigured'
  <1> SUFFICES ASSUME NEW t \in Tool PROVE Serves(t)'
    BY DEF ServesConfigured, Serves
  <1>1. Serves(t)
    BY DEF ServesConfigured, Serves
  <1>2. t \in Cmd /\ t # CMD /\ DOMAIN disk = Cmd /\ DOMAIN installed = Cmd /\ call.cmd \in Cmd
    BY ToolsAssumption DEF Cmd, TypeOK
  <1>3. CASE UNCHANGED <<managed, yaml>> /\ disk'[t] = disk[t]
             /\ (installed'[t] = "tool dir" => installed[t] = "tool dir")
    BY <1>1, <1>3 DEF Serves, FindVersion, Runnable
  <1>4. CASE Start
    BY <1>2, <1>4 DEF Start, Serves
  <1>5. CASE Clean
    <2>1. CASE where = "project"
      <3>1. disk'[t] = Nothing
        BY <1>2, <1>5, <2>1 DEF Clean
      <3>2. ~Runnable(disk[t])'
        BY <3>1 DEF Runnable, Nothing
      <3>. QED  BY <3>2 DEF Serves
    <2>2. CASE where # "project"
      BY <1>3, <1>5, <2>2 DEF Clean
    <2>. QED  BY <2>1, <2>2
  <1>6. CASE Kill
    BY <1>2, <1>3, <1>6 DEF Kill
  <1>7. CASE End \/ Catch \/ TempDir \/ Command
    BY <1>3, <1>7 DEF End, Catch, TempDir, Command
  <1>8. CASE \E c \in Cmd, use \in Uses : ManagedToolPath(c, use)
    BY <1>2, <1>3, <1>8 DEF ManagedToolPath, LookPath
  <1>9. CASE \E c \in Tool : InstallDependency(c)
    BY <1>3, <1>9 DEF InstallDependency
  <1>10. CASE BinnyKnown \/ InstallBinnyShim \/ FindBinny \/ CheckVersion \/ Download \/ Clone \/ Build
    <2>1. UNCHANGED <<managed, yaml>>
      BY <1>10 DEF BinnyKnown, InstallBinnyShim, FindBinny, CheckVersion, Download, Clone, Build
    <2>2. disk'[t] = disk[t] /\ installed'[t] = installed[t]
      BY <1>2, <1>10 DEF BinnyKnown, InstallBinnyShim, FindBinny, CheckVersion, Download, Clone,
                         Build, BinnyAt, InstallFails
    <2>. QED  BY <1>3, <2>1, <2>2
  <1>11. CASE Install
    <2>1. CASE InstallFails \/ call.cmd # t
      BY <1>2, <1>3, <1>11, <2>1 DEF Install, InstallFails
    <2>2. CASE ~InstallFails /\ call.cmd = t
      <3>1. disk'[t] = Installs(t) /\ UNCHANGED <<managed, yaml>>
            /\ (UsesDefaults(t) \/ InLocalConfig(yaml, t))
        BY <1>2, <1>11, <2>2 DEF Install
      <3>. QED  BY <1>2, <3>1, InstallsConfigured DEF Serves, FindVersion
    <2>. QED  BY <2>1, <2>2
  <1>12. CASE Exec
    <2>1. managed' = managed /\ installed' = installed
      BY <1>12 DEF Exec
    <2>2. CASE call.use = "update" /\ yaml' # yaml
      <3>1. yaml = managed /\ disk' = disk
        BY <1>12, <2>2 DEF Exec, Updates
      <3>. QED  BY <1>1, <2>1, <3>1 DEF Serves, FindVersion, Runnable
    <2>3. CASE yaml' = yaml
      <3>1. \/ disk'[t] = disk[t]
            \/ InLocalConfig(yaml, t) /\ disk'[t] = Installs(t)
        BY <1>2, <1>12, <2>3 DEF Exec, InstallsAll
      <3>2. CASE disk'[t] = disk[t]
        BY <1>3, <2>1, <2>3, <3>2
      <3>3. CASE InLocalConfig(yaml, t) /\ disk'[t] = Installs(t)
        BY <1>2, <2>1, <2>3, <3>3, InstallsConfigured DEF Serves, FindVersion
      <3>. QED  BY <3>1, <3>2, <3>3
    <2>. QED  BY <1>12, <2>2, <2>3 DEF Exec
  <1>13. CASE UNCHANGED vars
    BY <1>3, <1>13 DEF vars
  <1>. QED
    BY <1>4, <1>5, <1>6, <1>7, <1>8, <1>9, <1>10, <1>11, <1>12, <1>13 DEF Next, Installing, InstallBinny

-----------------------------------------------------------------------------
(* The binny that installs them.                                           *)

\* The parts of the invariant that are about binny.
Binny ==
  /\ at \in Replacing \cup {"version"} => ~managed[CMD].module
  /\ at = "install" => installed[CMD] = "tool dir"
  /\ KnowsBinny
  /\ NoNeedlessUpgrade

\* A version is replaced only if it does not match: otherwise it is what is configured.
LEMMA MatchesMeets ==
  ASSUME TypeOK, ~managed[CMD].module
  PROVE  BinnyMeets(managed) <=> MatchesVersion(disk[CMD].version, FindVersion(managed, CMD))
  <1>1. FindVersion(managed, CMD) \in Version /\ disk[CMD].version \in Version \cup {None}
    BY WantedIsVersion DEF TypeOK, File, Cmd
  <1>2. CASE disk[CMD].version = None
    BY <1>2 DEF BinnyMeets, MatchesVersion
  <1>3. CASE disk[CMD].version # None
    BY <1>1, <1>3, MatchesIsAgree DEF BinnyMeets
  <1>. QED  BY <1>2, <1>3

\* A binny just put in place, by this process for what it has read or by binny itself.
LEMMA PlacedMeets ==
  ASSUME TypeOK, NEW cfg \in {managed, yaml},
         IF cfg[CMD].module THEN disk'[CMD].from = "module"
         ELSE disk'[CMD].version = FindVersion(cfg, CMD)
  PROVE  BinnyMeets(cfg)'
  <1>1. FindVersion(cfg, CMD) \in Version
    BY WantedIsVersion DEF TypeOK
  <1>2. FindVersion(cfg, CMD) # None
    BY <1>1, ToolsAssumption
  <1>. QED  BY <1>1, <1>2 DEF BinnyMeets, Agree

\* Steps that leave binny, and what is known of it, as they are.
LEMMA BinnyLeft ==
  ASSUME Binny, UNCHANGED <<managed, yaml>>, disk'[CMD] = disk[CMD],
         installed'[CMD] = installed[CMD], at' \notin Replacing \cup {"version"},
         at' = "install" => installed[CMD] = "tool dir", Trusted' => Trusted
  PROVE  Binny'
  BY DEF Binny, KnowsBinny, NoNeedlessUpgrade, Replacing, BinnyMeets, FindVersion, Agree

\* A binny put in place, after which other tools may be installed.
LEMMA BinnyPlaced ==
  ASSUME TypeOK, UNCHANGED managed, UNCHANGED yaml, NEW cfg \in {managed, yaml},
         IF cfg[CMD].module THEN disk'[CMD].from = "module"
         ELSE disk'[CMD].version = FindVersion(cfg, CMD),
         at' \notin Replacing \cup {"version"}, at' = "install" => installed'[CMD] = "tool dir"
  PROVE  Binny'
  <1>1. BinnyMeets(cfg)'
    BY PlacedMeets
  <1>. QED  BY <1>1 DEF Binny, KnowsBinny, NoNeedlessUpgrade, Replacing

LEMMA BinnyStep ==
  ASSUME TypeOK, Binny, [Next]_vars
  PROVE  Binny'
  <1>1. CMD \in Cmd /\ CMD \notin Tool /\ CMD \notin OnPath /\ call.cmd \in Cmd
        /\ DOMAIN disk = Cmd /\ DOMAIN installed = Cmd
    BY ToolsAssumption DEF Cmd, TypeOK
  <1>2. CASE Start
    <2>1. installed'[CMD] = "none" /\ at' = "task"
      BY <1>1, <1>2 DEF Start
    <2>. QED  BY <2>1 DEF Binny, KnowsBinny, Trusted, NoNeedlessUpgrade, Replacing
  <1>3. CASE UNCHANGED vars
    BY <1>3 DEF vars, Binny, KnowsBinny, Trusted, Runnable, NoNeedlessUpgrade, BinnyMeets,
                FindVersion, Agree
  <1>4. CASE End \/ Catch \/ TempDir \/ Command
    <2>1. UNCHANGED <<disk, managed, yaml, installed, call>> /\ at' \in {"ended", "task", "panic"}
          /\ at \in {"task", "panic"} /\ (~caught' => ~caught)
      <3>1. CASE End \/ TempDir \/ Command
        BY <3>1 DEF End, TempDir, Command, Panics
      <3>2. CASE Catch
        BY <3>2 DEF Catch
      <3>. QED  BY <1>4, <3>1, <3>2
    <2>2. Trusted' => Trusted
      <3>1. at = "panic" /\ call.cmd = CMD => at' = "ended" \/ caught'
        BY <1>4 DEF End, Catch, TempDir, Command
      <3>. QED  BY <2>1, <3>1 DEF Trusted, Runnable
    <2>. QED  BY <2>1, <2>2, BinnyLeft DEF Replacing
  <1>5. CASE Kill
    BY <1>5 DEF Kill, Binny, KnowsBinny, Trusted, NoNeedlessUpgrade, Replacing
  <1>6. CASE Clean
    <2>1. CASE where = "project"
      <3>1. ~Runnable(disk[CMD])' /\ at' = "task"
        <4>1. disk'[CMD] = Nothing /\ at' = "task"
          BY <1>1, <1>6, <2>1 DEF Clean
        <4>. QED  BY <4>1 DEF Runnable, Nothing
      <3>. QED  BY <3>1 DEF Binny, KnowsBinny, Trusted, NoNeedlessUpgrade, Replacing
    <2>2. CASE where # "project"
      BY <1>6, <2>2, BinnyLeft DEF Clean, Panics, Trusted, Runnable, Replacing
    <2>. QED  BY <2>1, <2>2
  <1>7. ASSUME NEW c \in Cmd, NEW use \in Uses, ManagedToolPath(c, use) PROVE Binny'
    <2>1. installed'[CMD] = installed[CMD]
      BY <1>1, <1>7 DEF ManagedToolPath, LookPath
    <2>. QED
      BY <1>7, <2>1, BinnyLeft DEF ManagedToolPath, Panics, Trusted, Runnable, Replacing
  <1>8. ASSUME NEW c \in Tool, InstallDependency(c) PROVE Binny'
    BY <1>8, BinnyLeft DEF InstallDependency, Panics, Trusted, Runnable, Replacing
  <1>9. CASE BinnyKnown
    <2>1. disk'[CMD] = disk[CMD] /\ installed'[CMD] = installed[CMD] /\ installed[CMD] = "tool dir"
      BY <1>1, <1>9 DEF BinnyKnown, BinnyAt
    <2>. QED
      BY <1>9, <2>1, BinnyLeft DEF BinnyKnown, BinnyAt, Trusted, Runnable, Replacing
  <1>10. CASE InstallBinnyShim
    <2>1. CASE BinnyAt(FromModule)
      <3>1. managed[CMD].module /\ disk'[CMD].from = "module" /\ installed'[CMD] = "tool dir"
            /\ at' = "install" /\ UNCHANGED <<managed, yaml>>
        BY <1>1, <1>10, <2>1 DEF InstallBinnyShim, BinnyAt, FromModule
      <3>. QED  BY <3>1, BinnyPlaced DEF Replacing
    <2>2. CASE ~BinnyAt(FromModule)
      BY <1>10, <2>2
         DEF InstallBinnyShim, Panics, Binny, KnowsBinny, Trusted, NoNeedlessUpgrade, Replacing
    <2>. QED  BY <2>1, <2>2
  <1>11. CASE FindBinny
    <2>1. CASE at' = "download"
      <3>1. disk'[CMD] = Nothing /\ managed' = managed /\ ~managed[CMD].module
        BY <1>11, <2>1 DEF FindBinny, BinnyAt
      <3>2. ~Runnable(disk[CMD])' /\ ~BinnyMeets(managed)'
        BY <3>1 DEF Nothing, Runnable, BinnyMeets
      <3>. QED  BY <2>1, <3>1, <3>2 DEF Binny, KnowsBinny, Trusted, NoNeedlessUpgrade, Replacing
    <2>2. CASE at' = "version"
      BY <1>11, <2>2
         DEF FindBinny, BinnyAt, Binny, KnowsBinny, Trusted, Runnable, NoNeedlessUpgrade, Replacing,
             BinnyMeets, FindVersion, Agree
    <2>3. CASE at' \notin {"download", "version"}
      <3>1. at' = "install" /\ call'.cmd = CMD /\ installed'[CMD] = "tool dir"
        BY <1>1, <1>11, <2>3, ToolsAssumption DEF FindBinny, IsManagedTool, BinnyAt
      <3>. QED  BY <3>1 DEF Binny, KnowsBinny, Trusted, NoNeedlessUpgrade, Replacing
    <2>. QED  BY <2>1, <2>2, <2>3
  <1>12. CASE CheckVersion
    <2>1. at = "version" /\ ~managed[CMD].module /\ UNCHANGED <<managed, yaml, call, caught>>
      BY <1>12 DEF CheckVersion, Binny
    <2>2. CASE InstallFails
      BY <2>1, <2>2, BinnyLeft DEF InstallFails, Panics, Trusted, Runnable, Replacing
    <2>3. CASE BinnyAt(disk[CMD]) /\ MatchesVersion(disk[CMD].version, FindVersion(managed, CMD))
      <3>1. disk'[CMD] = disk[CMD] /\ installed'[CMD] = "tool dir" /\ at' = "install"
        BY <1>1, <2>3 DEF BinnyAt
      <3>2. BinnyMeets(managed)
        BY <2>1, <2>3, MatchesMeets
      <3>3. BinnyMeets(managed)'
        <4>1. FindVersion(managed, CMD)' = FindVersion(managed, CMD)
          BY <2>1 DEF FindVersion
        <4>. QED  BY <2>1, <3>1, <3>2, <4>1 DEF BinnyMeets, Agree
      <3>. QED  BY <3>1, <3>3 DEF Binny, KnowsBinny, NoNeedlessUpgrade, Replacing
    <2>4. CASE at' = "download" /\ UNCHANGED <<disk, installed>>
               /\ ~MatchesVersion(disk[CMD].version, FindVersion(managed, CMD))
      <3>1. ~BinnyMeets(managed)
        BY <2>1, <2>4, MatchesMeets
      <3>. QED
        BY <2>1, <2>4, <3>1
           DEF Binny, KnowsBinny, Trusted, Runnable, NoNeedlessUpgrade, Replacing, BinnyMeets,
               FindVersion, Agree
    <2>. QED  BY <1>12, <2>2, <2>3, <2>4 DEF CheckVersion
  <1>13. CASE Download \/ Build
    <2>1. ~managed[CMD].module /\ at \in Replacing /\ UNCHANGED <<managed, yaml, call, caught>>
      BY <1>13 DEF Download, Build, Binny, Replacing
    <2>2. CASE InstallFails
      BY <2>1, <2>2, BinnyLeft DEF InstallFails, Panics, Trusted, Runnable, Replacing
    <2>3. ASSUME NEW f, f.version = FindVersion(managed, CMD), BinnyAt(f) PROVE Binny'
      <3>1. disk'[CMD] = f /\ installed'[CMD] = "tool dir" /\ at' = "install"
        BY <1>1, <2>3 DEF BinnyAt
      <3>. QED  BY <2>1, <2>3, <3>1, BinnyPlaced DEF Replacing
    <2>4. CASE at = "download" /\ at' = "clone" /\ installed' = installed /\ disk'[CMD] = disk[CMD]
      BY <2>1, <2>4
         DEF Binny, KnowsBinny, Trusted, Runnable, NoNeedlessUpgrade, Replacing, BinnyMeets,
             FindVersion, Agree
    <2>5. CASE at' = "clone" /\ disk'[CMD] = Partial
      <3>1. ~Runnable(disk[CMD])'
        BY <2>5 DEF Runnable, Partial
      <3>. QED
        BY <2>1, <2>5, <3>1 DEF Binny, KnowsBinny, Trusted, NoNeedlessUpgrade, Replacing
    <2>6. CASE Download
      BY <1>1, <2>2, <2>3, <2>4, <2>5, <2>6 DEF Download
    <2>7. CASE Build
      BY <2>2, <2>3, <2>7 DEF Build
    <2>. QED  BY <1>13, <2>6, <2>7
  <1>14. CASE Clone
    <2>1. CASE InstallFails
      BY <1>14, <2>1, BinnyLeft DEF Clone, InstallFails, Panics, Trusted, Runnable, Replacing
    <2>2. CASE at' = "build" /\ UNCHANGED <<disk, installed>>
      BY <1>14, <2>2
         DEF Clone, Binny, KnowsBinny, Trusted, Runnable, NoNeedlessUpgrade, Replacing, BinnyMeets,
             FindVersion, Agree
    <2>. QED  BY <1>14, <2>1, <2>2 DEF Clone
  <1>15. CASE Install
    <2>1. CASE InstallFails
      BY <1>15, <2>1, BinnyLeft DEF Install, InstallFails, Panics, Trusted, Runnable, Replacing
    <2>2. CASE ~InstallFails /\ call.cmd # CMD
      <3>1. disk'[CMD] = disk[CMD] /\ installed'[CMD] = installed[CMD] /\ at' \in {"task", "exec"}
            /\ UNCHANGED <<managed, yaml, call, caught>>
        BY <1>1, <1>15, <2>2 DEF Install
      <3>2. Trusted' => Trusted
        <4>1. at = "install" /\ at # "ended" /\ at # "panic"
          BY <1>15 DEF Install
        <4>2. Runnable(disk[CMD])' => Runnable(disk[CMD])
          BY <3>1 DEF Runnable
        <4>. QED  BY <2>2, <3>1, <4>1, <4>2 DEF Trusted
      <3>. QED  BY <3>1, <3>2, BinnyLeft DEF Replacing
    <2>3. CASE ~InstallFails /\ call.cmd = CMD
      <3>1. /\ disk'[CMD] = Installs(CMD) /\ at' \in {"task", "exec"} /\ UNCHANGED <<managed, yaml>>
            /\ UsesDefaults(CMD) \/ InLocalConfig(yaml, CMD)
        BY <1>1, <1>15, <2>3 DEF Install
      <3>. QED  BY <1>1, <3>1, InstallsConfigured, BinnyPlaced DEF Replacing
    <2>. QED  BY <2>1, <2>2, <2>3
  <1>16. CASE Exec
    <2>1. at = "exec" /\ at' \in {"task", "panic"} /\ UNCHANGED <<managed, installed, call, caught>>
      BY <1>16 DEF Exec, Panics
    <2>2. CASE yaml' # yaml
      <3>1. yaml = managed /\ disk' = disk
        BY <1>16, <2>2 DEF Exec, Updates
      <3>2. Trusted' => Trusted
        BY <2>1, <3>1 DEF Trusted, Runnable
      <3>3. BinnyMeets(managed) => BinnyMeets(managed)'
        BY <2>1, <3>1 DEF BinnyMeets, FindVersion, Agree
      <3>. QED
        BY <2>1, <3>1, <3>2, <3>3 DEF Binny, KnowsBinny, NoNeedlessUpgrade, Replacing
    <2>3. CASE yaml' = yaml /\ disk'[CMD] = disk[CMD]
      BY <2>1, <2>3, BinnyLeft DEF Trusted, Runnable, Replacing
    <2>4. CASE yaml' = yaml /\ disk'[CMD] # disk[CMD]
      <3>1. disk'[CMD] = Installs(CMD) /\ InLocalConfig(yaml, CMD)
        BY <1>1, <1>16, <2>4 DEF Exec, InstallsAll
      <3>. QED  BY <1>1, <2>1, <2>4, <3>1, InstallsConfigured, BinnyPlaced DEF Replacing
    <2>. QED  BY <2>2, <2>3, <2>4
  <1>. QED
    BY <1>2, <1>3, <1>4, <1>5, <1>6, <1>7, <1>8, <1>9, <1>10, <1>11, <1>12, <1>13, <1>14, <1>15, <1>16
       DEF Next, Installing, InstallBinny

LEMMA Invariance == ToolsSpec => []IInv
  <1>1. IInv <=> TypeOK /\ ServesConfigured /\ Binny
    BY DEF IInv, Binny
  <1>2. IInv /\ [Next]_vars => IInv'
    <2>1. IInv' <=> TypeOK' /\ ServesConfigured' /\ Binny'
      BY DEF IInv, Binny
    <2>. QED  BY <1>1, <2>1, TypeStep, ServedStep, BinnyStep
  <1>. QED  BY <1>2, InitEstablishes, PTL DEF ToolsSpec
-----------------------------------------------------------------------------
(***************************************************************************)
(* The tool directory, what is remembered of it and where the process is   *)
(* keep their types: what is not on the PATH is not remembered.            *)
(***************************************************************************)
THEOREM Typed == ToolsSpec => []TypeOK
  <1>1. IInv => TypeOK
    BY DEF IInv
  <1>. QED  BY <1>1, Invariance, PTL

(***************************************************************************)
(* A remembered path (ManagedToolPath) leads to a version configured since *)
(* the process started, or to none.                                        *)
(***************************************************************************)
THEOREM ToolsAreCurrent == ToolsSpec => []ServesConfigured
  <1>1. IInv => ServesConfigured
    BY DEF IInv
  <1>. QED  BY <1>1, Invariance, PTL

(***************************************************************************)
(* Install has other tools installed by a binny that is what is configured. *)
(***************************************************************************)
THEOREM InstallersAreCurrent == ToolsSpec => []InstallerCurrent
  <1>1. IInv => InstallerCurrent
    BY DEF IInv, KnowsBinny, Trusted, InstallerCurrent
  <1>. QED  BY <1>1, Invariance, PTL

(***************************************************************************)
(* matchesVersion spares a binny that does what is configured.             *)
(***************************************************************************)
THEOREM UpgradesAreNeeded == ToolsSpec => []NoNeedlessUpgrade
  <1>1. IInv => NoNeedlessUpgrade
    BY DEF IInv
  <1>. QED  BY <1>1, Invariance, PTL
=============================================================================
