------------------------------ MODULE RunProofs ------------------------------
(***************************************************************************)
(* Of RunContext, for any contexts and callers: the current context is one *)
(* that commands can run under.  Of CommandIO, for any options as well:    *)
(* nothing a command prints is lost without an error, and no error is      *)
(* without what explains it.  Of Lifecycle, for any exit handlers and      *)
(* signals: what the exit code zero means, and the order in which exit     *)
(* handlers run.  Steps of the last two are steps of the first.            *)
(***************************************************************************)
EXTENDS CommandIO, Lifecycle, WellFoundedInduction, TLAPS

(* The contexts and the life of a command: RunContext.                     *)

\* A command that was not started has no process.
Fresh(s) == s.state = "created" => s.group = {} /\ s.exit = "none"

IInv == RunTypeOK /\ CurrentUsable /\ \A c \in Caller : Fresh(cmd[c])

LEMMA InitEstablishes == RunInit => IInv
  <1> SUFFICES ASSUME RunInit PROVE IInv
    OBVIOUS
  <1>1. contexts = <<Background>> /\ cancelled = {} /\ Context = 1
    BY DEF RunInit, Context
  <1>2. contexts \in Seq(Parent) /\ contexts # <<>>
    BY <1>1 DEF Parent
  <1>3. \A c \in Caller : cmd[c] = NoCommand
    BY DEF RunInit
  <1>4. cmd \in [Caller -> Command]
    <2>1. NoCommand \in Command
      BY DEF Command, NoCommand, Exit
    <2>. QED  BY <2>1 DEF RunInit
  <1>5. RunTypeOK
    BY <1>1, <1>2, <1>3, <1>4 DEF RunTypeOK, NoCommand
  <1>. QED  BY <1>1, <1>3, <1>5 DEF IInv, CurrentUsable, NoCommand, Fresh

(***************************************************************************)
(* A step that only changes the command of one caller: it keeps IInv if    *)
(* the command takes no newer context, and is hit only by one that is done. *)
(***************************************************************************)
LEMMA CommandBecomes ==
  ASSUME IInv, NEW c \in Caller, NEW s \in Command, cmd' = [cmd EXCEPT ![c] = s],
         UNCHANGED <<contexts, cancelled>>, s.ctx <= Context,
         "child" \in s.group => s.exit = "none",
         s.hit /\ s.ctx = Context => contexts[Context] \in cancelled, Fresh(s)
  PROVE  IInv'
  <1>1. cmd' \in [Caller -> Command] /\ cmd'[c] = s /\ \A d \in Caller \ {c} : cmd'[d] = cmd[d]
    BY DEF IInv, RunTypeOK
  <1>2. Context' = Context
    BY DEF Context
  <1>. QED  BY <1>1, <1>2 DEF IInv, RunTypeOK, CurrentUsable

\* A context is added behind the last: no command has it yet.
LEMMA ContextAdded ==
  ASSUME IInv, NEW u \in Parent, contexts' = Append(contexts, u), UNCHANGED cmd,
         cancelled' \subseteq cancelled \cup {Context}
  PROVE  IInv'
  <1>1. Context \in Nat /\ Context' = Context + 1 /\ contexts' \in Seq(Parent) /\ contexts' # <<>>
    BY DEF IInv, RunTypeOK, Context
  <1>2. Context' \notin cancelled'
    BY <1>1, ContextAssumption DEF IInv, RunTypeOK
  <1>3. cancelled' \subseteq 1..Context' \cup UserCtx
    BY <1>1 DEF IInv, RunTypeOK, Context
  <1>4. \A c \in Caller : cmd[c].ctx <= Context /\ cmd[c].ctx \in Nat
    BY DEF IInv, RunTypeOK, Command
  <1>5. \A c \in Caller : cmd'[c].ctx <= Context' /\ cmd'[c].ctx # Context'
    BY <1>1, <1>4
  <1>. QED  BY <1>1, <1>2, <1>3, <1>5 DEF IInv, RunTypeOK, CurrentUsable

LEMMA NextStep == IInv /\ [RunNext]_runVars => IInv'
  <1> SUFFICES ASSUME IInv, [RunNext]_runVars PROVE IInv'
    OBVIOUS
  <1>1. CASE UNCHANGED runVars
    BY <1>1 DEF runVars, IInv, RunTypeOK, CurrentUsable, Context, Fresh
  <1>2. ASSUME NEW u \in UserCtx, SetContext(u) PROVE IInv'
    BY <1>2, ContextAdded DEF SetContext, Parent
  <1>3. ASSUME NEW u \in UserCtx, UserCancel(u) PROVE IInv'
    <2>1. Context' = Context /\ Context \in Nat
      BY <1>3 DEF UserCancel, Context, IInv, RunTypeOK
    <2>2. Context # u
      BY <2>1, ContextAssumption
    <2>. QED  BY <1>3, <2>1, <2>2 DEF UserCancel, IInv, RunTypeOK, CurrentUsable
  <1>4. CASE Cancel
    BY <1>4, ContextAdded DEF Cancel, Parent
  <1>5. ASSUME NEW c \in Caller, NewCommand(c) \/ CommandStep(c) \/ ProcessStep(c) PROVE IInv'
    <2>1. /\ cmd[c] \in Command /\ cmd[c].ctx <= Context /\ Context \in Nat
          /\ "child" \in cmd[c].group => cmd[c].exit = "none"
          /\ cmd[c].hit /\ cmd[c].ctx = Context => contexts[Context] \in cancelled
          /\ Context \notin cancelled /\ Fresh(cmd[c])
      BY DEF IInv, RunTypeOK, CurrentUsable, Context
    <2>2. CASE NewCommand(c)
      <3>1. PICK noFail \in BOOLEAN, pipes \in BOOLEAN : NewCommandWith(c, noFail, pipes)
        BY <2>2 DEF NewCommand
      <3> DEFINE s == [NoCommand EXCEPT !.state = "created", !.ctx = Context, !.noFail = noFail,
                                        !.pipes = pipes]
      <3>2. /\ NoCommand \in Command /\ NoCommand.group = {} /\ NoCommand.exit = "none"
            /\ NoCommand.hit = FALSE
        BY DEF NoCommand, Command, Exit
      <3>3. s \in Command
        BY <2>1, <3>2 DEF Command
      <3>4. s.ctx = Context /\ s.hit = FALSE /\ "child" \notin s.group /\ Fresh(s)
        BY <3>2 DEF Fresh, Command
      <3>. HIDE DEF s
      <3>5. cmd' = [cmd EXCEPT ![c] = s]
        BY <3>1 DEF s, NewCommandWith
      <3>6. UNCHANGED <<contexts, cancelled>> /\ s.ctx <= Context
        BY <2>1, <3>1, <3>4 DEF NewCommandWith
      <3>. QED  BY <3>3, <3>4, <3>5, <3>6, CommandBecomes
    <2> DEFINE Keeps(s) == /\ s \in Command /\ cmd' = [cmd EXCEPT ![c] = s] /\ s.ctx = cmd[c].ctx
                           /\ "child" \in s.group => s.exit = "none"
                           /\ s.hit => cmd[c].hit \/ Done(cmd[c].ctx)
                           /\ Fresh(s)
    <2>3. ASSUME NEW s, Keeps(s), UNCHANGED <<contexts, cancelled>> PROVE IInv'
      <3>1. s \in Command /\ cmd' = [cmd EXCEPT ![c] = s] /\ s.ctx <= Context /\ Fresh(s)
            /\ ("child" \in s.group => s.exit = "none")
        BY <2>1, <2>3
      <3>2. ASSUME s.hit, s.ctx = Context PROVE contexts[Context] \in cancelled
        BY <2>1, <2>3, <3>2 DEF Done
      <3>. QED  BY <2>3, <3>1, <3>2, CommandBecomes
    <2>4. CASE BadOption(c)
      <3>1. Keeps([cmd[c] EXCEPT !.state = "done", !.result = "error"])
        BY <2>1, <2>4 DEF BadOption, Fresh, Command
      <3>. QED  BY <2>3, <2>4, <3>1 DEF BadOption
    <2>5. CASE Start(c)
      <3>1. Keeps([cmd[c] EXCEPT !.state = "running", !.group = {"child"}])
        BY <2>1, <2>5 DEF Start, Fresh, Command, Process
      <3>. QED  BY <2>3, <2>5, <3>1 DEF Start
    <2>6. CASE StartFails(c)
      <3>1. Keeps([cmd[c] EXCEPT !.state = "done", !.hit = Done(cmd[c].ctx), !.result = Result(c, TRUE)])
        BY <2>1, <2>6 DEF StartFails, Fresh, Command, Result, Done
      <3>. QED  BY <2>3, <2>6, <3>1 DEF StartFails
    <2>7. CASE Interrupt(c)
      <3>1. Keeps([cmd[c] EXCEPT !.hit = TRUE])
        BY <2>1, <2>7 DEF Interrupt, Fresh, Command
      <3>. QED  BY <2>3, <2>7, <3>1 DEF Interrupt
    <2>8. CASE WaitDelay(c)
      <3>1. Keeps([cmd[c] EXCEPT !.late = TRUE, !.group = @ \ {"child"},
                                 !.exit = IF @ = "none" THEN "signal" ELSE @])
        BY <2>1, <2>8 DEF WaitDelay, Fresh, Command, Exit
      <3>. QED  BY <2>3, <2>8, <3>1 DEF WaitDelay
    <2>9. CASE Return(c)
      <3>1. PICK failed \in BOOLEAN : cmd' = [cmd EXCEPT ![c].state = "done", ![c].result = Result(c, failed)]
        BY <2>1, <2>9 DEF Return, Returns, Command
      <3>2. Keeps([cmd[c] EXCEPT !.state = "done", !.result = Result(c, failed)])
        BY <2>1, <3>1 DEF Fresh, Command, Result
      <3>. QED  BY <2>3, <2>9, <3>2 DEF Return, Returns
    <2>10. CASE Spawn(c)
      <3>1. Keeps([cmd[c] EXCEPT !.group = @ \cup {"spawned"}])
        BY <2>1, <2>10 DEF Spawn, Fresh, Command, Process
      <3>. QED  BY <2>3, <2>10, <3>1 DEF Spawn
    <2>11. CASE End(c)
      <3>1. CASE "child" \in cmd[c].group
                 /\ \E e \in Exit : cmd' = [cmd EXCEPT ![c].group = @ \ {"child"}, ![c].exit = e]
        <4>1. PICK e \in Exit : cmd' = [cmd EXCEPT ![c].group = @ \ {"child"}, ![c].exit = e]
          BY <3>1
        <4>2. Keeps([cmd[c] EXCEPT !.group = @ \ {"child"}, !.exit = e])
          BY <2>1, <3>1, <4>1 DEF Fresh, Command
        <4>. QED  BY <2>3, <2>11, <4>2 DEF End
      <3>2. CASE "spawned" \in cmd[c].group /\ cmd' = [cmd EXCEPT ![c].group = @ \ {"spawned"}]
        <4>1. Keeps([cmd[c] EXCEPT !.group = @ \ {"spawned"}])
          BY <2>1, <3>2 DEF Fresh, Command
        <4>. QED  BY <2>3, <2>11, <4>1 DEF End
      <3>. QED  BY <2>11, <3>1, <3>2 DEF End, Exit
    <2>. QED
      BY <1>5, <2>2, <2>4, <2>5, <2>6, <2>7, <2>8, <2>9, <2>10, <2>11 DEF CommandStep, ProcessStep
  <1>. QED  BY <1>1, <1>2, <1>3, <1>4, <1>5 DEF RunNext

LEMMA Invariance == RunSpec => []IInv
  BY InitEstablishes, NextStep, PTL DEF RunSpec
-----------------------------------------------------------------------------
(***************************************************************************)
(* The state has its types: a command never has a context that was not     *)
(* made, nor a child that lives on after it was reaped.                    *)
(***************************************************************************)
THEOREM Typed == RunSpec => []RunTypeOK
  <1>1. IInv => RunTypeOK
    BY DEF IInv
  <1>. QED  BY <1>1, Invariance, PTL

(***************************************************************************)
(* "Cancel cancels any currently executing scripts" and no others: the     *)
(* context of commands to come (Context, run/context.go) is not cancelled  *)
(* by Cancel.                                                              *)
(***************************************************************************)
THEOREM CancelSparesWhatComes == RunSpec => []CurrentUsable
  <1>1. IInv => CurrentUsable
    BY DEF IInv
  <1>. QED  BY <1>1, Invariance, PTL
-----------------------------------------------------------------------------
(* What a command prints, and where it goes.                               *)

(***************************************************************************)
(* A stream's writers keep step, but for those that failed, which are one  *)
(* piece or more behind; what goes to a file is there when it is printed.  *)
(***************************************************************************)
InStep(o, s) ==
  /\ o.got[s] \in [o.to[s] -> Nat] /\ o.printed[s] \in Nat
  /\ o.failed[s] \subseteq o.to[s] \cap {"file", "callers"}
  /\ IF Copied(o.to, s) THEN o.failed[s] = {} => \A w \in o.to[s] : o.got[s][w] <= o.printed[s]
     ELSE o.failed[s] = {} /\ \A w \in o.to[s] : o.got[s][w] = o.printed[s]
  /\ \A v, w \in o.to[s] : /\ o.failed[s] = {} => o.got[s][v] = o.got[s][w]
                           /\ v \in o.failed[s] /\ w \notin o.failed[s] => o.got[s][v] < o.got[s][w]

Wellformed(o) ==
  /\ DOMAIN o = {"to", "fails", "printed", "got", "failed"}
  /\ DOMAIN o.printed = Stream /\ DOMAIN o.got = Stream /\ DOMAIN o.failed = Stream
  /\ o.to["stderr"] \cap {"os.Stderr", "in error"} # {}
  /\ \A s \in Stream : InStep(o, s)

\* All was copied to its end, or to the failure of a writer.
Copying(o) ==
  \A s \in Stream : o.failed[s] # {} \/ \A w \in o.to[s] : o.got[s][w] = o.printed[s]

\* What a call of Command that has come to an end says of its output.
Settled(m, o) ==
  m.state = "done" =>
    /\ "child" \notin m.group
    /\ m.exit # "none" /\ ~m.late => Copying(o)
    /\ m.result = "ok" /\ ~m.noFail => ~m.late /\ Copying(o) /\ \A s \in Stream : o.failed[s] = {}

Piped(m, o) ==
  m.state \in {"created", "running"} => (m.pipes <=> \E s \in Stream : Copied(o.to, s))

OutputInv ==
  /\ DOMAIN io = Caller
  /\ \A c \in Caller : Wellformed(io[c]) /\ Settled(cmd[c], io[c]) /\ Piped(cmd[c], io[c])

-----------------------------------------------------------------------------
(***************************************************************************)
(* CommandIO is RunContext with output: what is proved of the one holds of *)
(* the other.                                                              *)
(***************************************************************************)
LEMMA Runs == IOSpec => RunSpec
  <1>1. IOInit => RunInit
    BY DEF IOInit
  <1>2. [IONext]_ioVars => [RunNext]_runVars
    <2> SUFFICES ASSUME [IONext]_ioVars PROVE [RunNext]_runVars
      OBVIOUS
    <2>1. CASE UNCHANGED ioVars
      BY <2>1 DEF ioVars
    <2>2. CASE Contexts
      BY <2>2 DEF Contexts, RunNext
    <2>3. ASSUME NEW c \in Caller, NEW s \in Stream, Prints(c, s) \/ Copy(c, s) PROVE UNCHANGED runVars
      BY <2>3 DEF Prints, Copy
    <2>4. ASSUME NEW c \in Caller, Call(c) PROVE NewCommand(c)
      <3>1. PICK noFail, pipes : NewCommandWith(c, noFail, pipes) /\ noFail \in BOOLEAN /\ pipes \in BOOLEAN
        BY <2>4 DEF Call, IsGiven
      <3>. QED  BY <3>1 DEF NewCommand
    <2>5. ASSUME NEW c \in Caller, Finish(c) PROVE Return(c)
      BY <2>5 DEF Finish, Return
    <2>6. ASSUME NEW c \in Caller, OptionFails(c) \/ Launch(c) \/ Meanwhile(c)
          PROVE  CommandStep(c) \/ ProcessStep(c)
      BY <2>6 DEF OptionFails, Launch, Meanwhile, CommandStep
    <2>. QED
      BY <2>1, <2>2, <2>3, <2>4, <2>5, <2>6 DEF IONext, RunNext, CommandStep
  <1>. QED  BY <1>1, <1>2, PTL DEF IOSpec, RunSpec

LEMMA NothingYet ==
  ASSUME NEW o, NEW s, o.got[s] = [w \in o.to[s] |-> 0], o.printed[s] = 0, o.failed[s] = {}
  PROVE  InStep(o, s)
  <1>1. o.got[s] \in [o.to[s] -> Nat]
    OBVIOUS
  <1>2. \A w \in o.to[s] : o.got[s][w] = 0
    OBVIOUS
  <1>. QED  BY <1>1, <1>2 DEF InStep

LEMMA Begins ==
  ASSUME NEW to, NEW fails, to.stderr \cap {"os.Stderr", "in error"} # {}
  PROVE  Wellformed(NoOutput(to, fails))
  <1> DEFINE o == NoOutput(to, fails)
  <1>1. /\ DOMAIN o = {"to", "fails", "printed", "got", "failed"} /\ o.to = to
        /\ DOMAIN o.printed = Stream /\ DOMAIN o.got = Stream /\ DOMAIN o.failed = Stream
        /\ \A s \in Stream : /\ o.printed[s] = 0 /\ o.failed[s] = {}
                             /\ o.got[s] = [w \in to[s] |-> 0]
    BY DEF NoOutput
  <1>2. \A s \in Stream : InStep(o, s)
    BY <1>1, NothingYet
  <1>. QED  BY <1>1, <1>2 DEF Wellformed

LEMMA InitSettles == IOInit => OutputInv
  <1> SUFFICES ASSUME IOInit PROVE OutputInv
    OBVIOUS
  <1>1. DOMAIN io = Caller /\ \A c \in Caller : io[c] = NoOutput(Defaults, FALSE) /\ cmd[c].state = "idle"
    BY DEF IOInit, RunInit, NoCommand
  <1>2. Wellformed(NoOutput(Defaults, FALSE))
    BY Begins DEF Defaults
  <1>. QED  BY <1>1, <1>2 DEF OutputInv, Settled, Piped

LEMMA SameStream ==
  ASSUME NEW o, NEW n, NEW s, InStep(o, s), n.to = o.to, n.printed[s] = o.printed[s],
         n.got[s] = o.got[s], n.failed[s] = o.failed[s]
  PROVE  InStep(n, s)
  BY DEF InStep

(***************************************************************************)
(* A piece is printed or copied: nothing changes but what is known of one  *)
(* stream of a command that runs.                                          *)
(***************************************************************************)
LEMMA OneStream ==
  ASSUME OutputInv, NEW c \in Caller, NEW s \in Stream, cmd[c].state = "running", UNCHANGED cmd,
         NEW n, DOMAIN io' = Caller, io'[c] = n, \A d \in Caller \ {c} : io'[d] = io[d],
         DOMAIN n = DOMAIN io[c], n.to = io[c].to,
         DOMAIN n.printed = Stream, DOMAIN n.got = Stream, DOMAIN n.failed = Stream,
         \A t \in Stream \ {s} : /\ n.printed[t] = io[c].printed[t] /\ n.got[t] = io[c].got[t]
                                 /\ n.failed[t] = io[c].failed[t],
         InStep(n, s)
  PROVE  OutputInv'
  <1>1. Wellformed(io[c])
    BY DEF OutputInv
  <1>2. \A t \in Stream \ {s} : InStep(n, t)
    BY <1>1, SameStream DEF Wellformed
  <1>3. Wellformed(n)
    BY <1>1, <1>2 DEF Wellformed
  <1>4. Settled(cmd'[c], n) /\ Piped(cmd'[c], n)
    BY DEF Settled, Piped, OutputInv
  <1>. QED  BY <1>3, <1>4 DEF OutputInv

LEMMA PrintStep == ASSUME OutputInv, NEW c \in Caller, NEW s \in Stream, Prints(c, s) PROVE OutputInv'
  <1> DEFINE o == io[c]
             got == IF Copied(o.to, s) THEN o.got[s] ELSE Given(o.got[s], DOMAIN o.got[s])
             n == [o EXCEPT !.printed[s] = @ + 1, !.got[s] = got]
  <1>1. Wellformed(o) /\ InStep(o, s) /\ DOMAIN io = Caller
    BY DEF OutputInv, Wellformed
  <1>2. io' = [io EXCEPT ![c] = n] /\ UNCHANGED cmd /\ cmd[c].state = "running" /\ Open(c, s)
    BY DEF Prints, runVars
  <1>3. /\ DOMAIN n = DOMAIN o /\ n.to = o.to /\ n.failed = o.failed
        /\ n.printed = [o.printed EXCEPT ![s] = @ + 1] /\ n.got = [o.got EXCEPT ![s] = got]
    BY <1>1 DEF Wellformed
  <1>4. n.printed[s] = o.printed[s] + 1 /\ n.got[s] = got
    BY <1>1, <1>3 DEF Wellformed
  <1>5. InStep(n, s)
    <2>1. CASE Copied(o.to, s)
      <3>1. n.got[s] = o.got[s] /\ n.failed[s] = o.failed[s] /\ n.printed[s] \in Nat
            /\ n.printed[s] >= o.printed[s]
        BY <1>1, <1>3, <1>4, <2>1 DEF InStep
      <3>. HIDE DEF got, n
      <3>2. \A w \in o.to[s] : o.got[s][w] \in Nat
        BY <1>1 DEF InStep
      <3>3. \A w \in n.to[s] : o.got[s][w] <= o.printed[s] => n.got[s][w] <= n.printed[s]
        BY <1>1, <1>3, <3>1, <3>2 DEF InStep
      <3>4. /\ n.to = o.to /\ n.failed[s] \subseteq n.to[s] \cap {"file", "callers"}
            /\ n.got[s] \in [n.to[s] -> Nat]
            /\ \A v, w \in n.to[s] :
                 /\ n.failed[s] = {} => n.got[s][v] = n.got[s][w]
                 /\ v \in n.failed[s] /\ w \notin n.failed[s] => n.got[s][v] < n.got[s][w]
        BY <1>1, <1>3, <3>1 DEF InStep
      <3>5. n.failed[s] = {} => \A w \in n.to[s] : n.got[s][w] <= n.printed[s]
        BY <1>1, <1>3, <2>1, <3>1, <3>3 DEF InStep
      <3>. QED  BY <2>1, <3>1, <3>4, <3>5 DEF InStep
    <2>2. CASE ~Copied(o.to, s)
      <3>1. got \in [o.to[s] -> Nat] /\ \A w \in o.to[s] : got[w] = o.printed[s] + 1
        BY <1>1, <2>2 DEF InStep, Given
      <3>. HIDE DEF got, n
      <3>. QED  BY <1>1, <1>3, <1>4, <2>2, <3>1 DEF InStep
    <2>. QED  BY <2>1, <2>2
  <1>6. DOMAIN io' = Caller /\ io'[c] = n /\ \A d \in Caller \ {c} : io'[d] = io[d]
    BY <1>1, <1>2
  <1>7. /\ DOMAIN n.printed = Stream /\ DOMAIN n.got = Stream /\ DOMAIN n.failed = Stream
        /\ \A t \in Stream \ {s} : /\ n.printed[t] = o.printed[t] /\ n.got[t] = o.got[t]
                                   /\ n.failed[t] = o.failed[t]
    BY <1>1, <1>3 DEF Wellformed
  <1>. HIDE DEF got, n
  <1>. QED  BY <1>2, <1>3, <1>5, <1>6, <1>7, OneStream

LEMMA CopyStep == ASSUME OutputInv, NEW c \in Caller, NEW s \in Stream, Copy(c, s) PROVE OutputInv'
  <1>1. PICK F \in Failures(io[c].to[s]) : Tee(c, s, F)
    BY DEF Copy
  <1> DEFINE o == io[c]
             got == Given(o.got[s], DOMAIN o.got[s] \ F)
             n == [o EXCEPT !.failed[s] = F, !.got[s] = got]
  <1>2. Wellformed(o) /\ InStep(o, s) /\ DOMAIN io = Caller
    BY DEF OutputInv, Wellformed
  <1>3. /\ io' = [io EXCEPT ![c] = n] /\ UNCHANGED cmd /\ cmd[c].state = "running"
        /\ Copied(o.to, s) /\ o.failed[s] = {} /\ Unread(c, s)
    BY <1>1 DEF Copy, Tee, runVars, Open
  <1>4. /\ DOMAIN n = DOMAIN o /\ n.to = o.to /\ n.printed = o.printed
        /\ n.failed = [o.failed EXCEPT ![s] = F] /\ n.got = [o.got EXCEPT ![s] = got]
    BY <1>2 DEF Wellformed
  <1>5. n.failed[s] = F /\ n.got[s] = got /\ F \subseteq o.to[s] \cap {"file", "callers"}
    BY <1>2, <1>4 DEF Wellformed, Failures
  <1>6. InStep(n, s)
    <2>1. got \in [o.to[s] -> Nat]
          /\ \A w \in o.to[s] : got[w] = IF w \in F THEN o.got[s][w] ELSE o.got[s][w] + 1
      BY <1>2 DEF InStep, Given
    <2>2. \A w \in o.to[s] : o.got[s][w] \in Nat /\ o.got[s][w] < o.printed[s]
      BY <1>2, <1>3 DEF InStep, Unread
    <2>3. \A v, w \in o.to[s] : o.got[s][v] = o.got[s][w]
      BY <1>2, <1>3 DEF InStep
    <2>. HIDE DEF got, n
    <2>4. n.got[s] \in [n.to[s] -> Nat] /\ n.printed[s] \in Nat
      BY <1>2, <1>4, <1>5, <2>1 DEF InStep
    <2>5. \A w \in n.to[s] : n.got[s][w] <= n.printed[s]
      BY <1>2, <1>4, <1>5, <2>1, <2>2 DEF InStep
    <2>6. ASSUME NEW v \in n.to[s], NEW w \in n.to[s]
          PROVE  /\ n.failed[s] = {} => n.got[s][v] = n.got[s][w]
                 /\ v \in n.failed[s] /\ w \notin n.failed[s] => n.got[s][v] < n.got[s][w]
      <3>1. o.got[s][v] = o.got[s][w] /\ o.got[s][v] \in Nat
        BY <1>4, <2>2, <2>3, <2>6
      <3>2. /\ n.got[s][v] = IF v \in F THEN o.got[s][v] ELSE o.got[s][v] + 1
            /\ n.got[s][w] = IF w \in F THEN o.got[s][w] ELSE o.got[s][w] + 1
        BY <1>4, <1>5, <2>1, <2>6
      <3>. QED  BY <1>5, <3>1, <3>2
    <2>7. Copied(n.to, s) /\ n.failed[s] \subseteq n.to[s] \cap {"file", "callers"}
      BY <1>3, <1>4, <1>5
    <2>. QED  BY <2>4, <2>5, <2>6, <2>7 DEF InStep
  <1>7. DOMAIN io' = Caller /\ io'[c] = n /\ \A d \in Caller \ {c} : io'[d] = io[d]
    BY <1>2, <1>3
  <1>8. /\ DOMAIN n.printed = Stream /\ DOMAIN n.got = Stream /\ DOMAIN n.failed = Stream
        /\ \A t \in Stream \ {s} : /\ n.printed[t] = o.printed[t] /\ n.got[t] = o.got[t]
                                   /\ n.failed[t] = o.failed[t]
    BY <1>2, <1>4 DEF Wellformed
  <1>. HIDE DEF got, n
  <1>. QED  BY <1>3, <1>4, <1>6, <1>7, <1>8, OneStream

LEMMA CallStep ==
  ASSUME OutputInv, RunTypeOK, NEW c \in Caller, Call(c) PROVE OutputInv'
  <1>1. PICK opts \in OptionLists :
          LET to == Wired(opts) IN
          /\ NewCommandWith(c, IsGiven(opts, "NoFail"), \E s \in Stream : Copied(to, s))
          /\ io' = [io EXCEPT ![c] = NoOutput(to, IsGiven(opts, "fails"))]
    BY DEF Call
  <1> DEFINE to == Wired(opts)
             n == NoOutput(to, IsGiven(opts, "fails"))
  <1>2. to.stderr \cap {"os.Stderr", "in error"} # {}
    BY DEF Wired, Capture
  <1>3. Wellformed(n) /\ n.to = to
    BY <1>2, Begins DEF NoOutput
  <1>4. /\ cmd'[c].state = "created" /\ (cmd'[c].pipes <=> \E s \in Stream : Copied(to, s))
        /\ \A d \in Caller \ {c} : cmd'[d] = cmd[d]
    BY <1>1 DEF RunTypeOK, Command, NewCommandWith, NoCommand
  <1>5. DOMAIN io' = Caller /\ io'[c] = n /\ \A d \in Caller \ {c} : io'[d] = io[d]
    BY <1>1 DEF OutputInv
  <1>. HIDE DEF n, to
  <1>6. Settled(cmd'[c], n) /\ Piped(cmd'[c], n)
    BY <1>3, <1>4 DEF Settled, Piped
  <1>. QED  BY <1>3, <1>4, <1>5, <1>6 DEF OutputInv

(***************************************************************************)
(* A step of one command that leaves its output alone.                     *)
(***************************************************************************)
LEMMA CommandOnly ==
  ASSUME OutputInv, NEW c \in Caller, NEW m, cmd'[c] = m, \A d \in Caller \ {c} : cmd'[d] = cmd[d],
         UNCHANGED io, Settled(m, io[c]), Piped(m, io[c])
  PROVE  OutputInv'
  BY DEF OutputInv

LEMMA StartSteps ==
  ASSUME OutputInv, RunTypeOK, NEW c \in Caller, Fresh(cmd[c]), OptionFails(c) \/ Launch(c)
  PROVE  OutputInv'
  <1>1. cmd[c] \in Command /\ cmd[c].state = "created" /\ cmd[c].group = {} /\ cmd[c].exit = "none"
    BY DEF RunTypeOK, OptionFails, Launch, BadOption, Start, StartFails, Fresh
  <1>2. UNCHANGED io /\ \A d \in Caller \ {c} : cmd'[d] = cmd[d]
    BY DEF RunTypeOK, OptionFails, Launch, BadOption, Start, StartFails
  <1>3. CASE Start(c)
    <2>1. cmd'[c].state = "running" /\ cmd'[c].pipes = cmd[c].pipes
      BY <1>1, <1>3 DEF Start, RunTypeOK, Command
    <2>2. Settled(cmd'[c], io[c]) /\ Piped(cmd'[c], io[c])
      BY <1>1, <2>1 DEF Settled, Piped, OutputInv
    <2>. QED  BY <1>2, <2>2, CommandOnly
  <1>4. CASE BadOption(c) \/ StartFails(c)
    <2>1. /\ cmd'[c].state = "done" /\ cmd'[c].group = {} /\ cmd'[c].exit = "none"
          /\ cmd'[c].result = "ok" => cmd'[c].noFail
      BY <1>1, <1>4 DEF BadOption, StartFails, Result, RunTypeOK, Command
    <2>2. Settled(cmd'[c], io[c]) /\ Piped(cmd'[c], io[c])
      BY <2>1 DEF Settled, Piped
    <2>. QED  BY <1>2, <2>2, CommandOnly
  <1>. QED  BY <1>3, <1>4 DEF OptionFails, Launch

LEMMA FinishStep == ASSUME OutputInv, RunTypeOK, NEW c \in Caller, Finish(c) PROVE OutputInv'
  <1> DEFINE o == io[c]
             broken == \E s \in Stream : o.failed[s] # {}
             failed == cmd[c].exit # "zero" \/ cmd[c].hit \/ cmd[c].late \/ broken
  <1>1. cmd[c] \in Command /\ cmd[c].state = "running" /\ "child" \notin cmd[c].group
        /\ UNCHANGED io /\ \A d \in Caller \ {c} : cmd'[d] = cmd[d]
    BY DEF Finish, Returns, RunTypeOK
  <1>2. /\ cmd'[c].state = "done" /\ cmd'[c].group = cmd[c].group /\ cmd'[c].exit = cmd[c].exit
        /\ cmd'[c].late = cmd[c].late /\ cmd'[c].noFail = cmd[c].noFail
        /\ cmd'[c].result = Result(c, failed)
    BY <1>1 DEF Finish, Returns, RunTypeOK, Command, Result
  <1>3. Wellformed(o)
    BY DEF OutputInv
  <1>4. ASSUME ~cmd[c].late PROVE Copying(o)
    <2> SUFFICES ASSUME NEW s \in Stream, o.failed[s] = {}
                 PROVE  \A w \in o.to[s] : o.got[s][w] = o.printed[s]
      BY DEF Copying
    <2>1. InStep(o, s)
      BY <1>3 DEF Wellformed
    <2>2. CASE ~Copied(o.to, s)
      BY <2>1, <2>2 DEF InStep
    <2>3. CASE Copied(o.to, s)
      <3>1. ~Unread(c, s)
        BY <1>4, <2>3 DEF Finish
      <3>2. PICK v \in o.to[s] : ~(o.got[s][v] < o.printed[s])
        BY <3>1 DEF Unread
      <3>3. o.got[s][v] = o.printed[s]
        BY <2>1, <2>3, <3>2 DEF InStep
      <3>. QED  BY <2>1, <3>3 DEF InStep
    <2>. QED  BY <2>2, <2>3
  <1>5. cmd'[c].result = "ok" /\ ~cmd'[c].noFail => ~failed
    BY <1>2 DEF Result
  <1>6. Settled(cmd'[c], o) /\ Piped(cmd'[c], o)
    BY <1>1, <1>2, <1>4, <1>5 DEF Settled, Piped
  <1>. QED  BY <1>1, <1>6, CommandOnly

LEMMA MeanwhileStep == ASSUME OutputInv, RunTypeOK, NEW c \in Caller, Meanwhile(c) PROVE OutputInv'
  <1>1. cmd[c] \in Command /\ UNCHANGED io /\ \A d \in Caller \ {c} : cmd'[d] = cmd[d]
    BY DEF Meanwhile, Interrupt, WaitDelay, ProcessStep, Spawn, End, RunTypeOK
  <1>2. Settled(cmd[c], io[c]) /\ Piped(cmd[c], io[c])
    BY DEF OutputInv
  <1>3. /\ cmd'[c].state = cmd[c].state /\ cmd'[c].pipes = cmd[c].pipes
        /\ cmd'[c].result = cmd[c].result /\ cmd'[c].noFail = cmd[c].noFail
    BY <1>1 DEF Meanwhile, Interrupt, WaitDelay, ProcessStep, Spawn, End, RunTypeOK, Command
  <1>4. cmd[c].state = "done" =>
          /\ "child" \notin cmd'[c].group
          /\ cmd'[c].exit = cmd[c].exit /\ cmd'[c].late = cmd[c].late
    BY <1>1, <1>2 DEF Settled, Meanwhile, Interrupt, WaitDelay, ProcessStep, Spawn, End, RunTypeOK, Command
  <1>5. Settled(cmd'[c], io[c]) /\ Piped(cmd'[c], io[c])
    BY <1>2, <1>3, <1>4 DEF Settled, Piped
  <1>. QED  BY <1>1, <1>5, CommandOnly

LEMMA OutputStep == IInv /\ OutputInv /\ [IONext]_ioVars => OutputInv'
  <1> SUFFICES ASSUME IInv, OutputInv, [IONext]_ioVars PROVE OutputInv'
    OBVIOUS
  <1>1. RunTypeOK /\ \A c \in Caller : Fresh(cmd[c])
    BY DEF IInv
  <1>2. CASE UNCHANGED ioVars
    BY <1>2 DEF ioVars, runVars, OutputInv
  <1>3. CASE Contexts
    BY <1>3 DEF Contexts, Cancel, SetContext, UserCancel, OutputInv
  <1>. QED
    BY <1>1, <1>2, <1>3, CallStep, StartSteps, FinishStep, MeanwhileStep, PrintStep, CopyStep DEF IONext

LEMMA OutputInvariance == IOSpec => []OutputInv
  BY Runs, InitSettles, OutputStep, Invariance, PTL DEF IOSpec
-----------------------------------------------------------------------------
(***************************************************************************)
(* Induction up to n, over the members of a set: by the least number that  *)
(* is not one, as the naturals are well founded.                           *)
(***************************************************************************)
LEMMA UpTo ==
  ASSUME NEW n \in Nat, NEW T, 0 \in T, \A m \in 0..n : m \in T /\ m < n => m + 1 \in T
  PROVE  \A m \in 0..n : m \in T
  <1> DEFINE R == {p \in Nat \X Nat : p[1] < p[2]}
             S == {m \in 0..n : m \notin T}
  <1>1. IsWellFoundedOn(R, Nat)
    BY NatLessThanWellFounded DEF OpToRel
  <1> SUFFICES ASSUME S # {} PROVE FALSE
    OBVIOUS
  <1>2. PICK m \in S : \A k \in S : ~ (<<k, m>> \in R)
    <2>1. S \subseteq Nat
      OBVIOUS
    <2>. HIDE DEF R, S
    <2>. QED  BY <1>1, <2>1, WFMin
  <1>3. m \in 0..n /\ m # 0 /\ m - 1 \in 0..n /\ m - 1 < n /\ (m - 1) + 1 = m /\ <<m - 1, m>> \in R
    OBVIOUS
  <1>. QED  BY <1>2, <1>3

\* A record of what each stream goes to is a wiring.
LEMMA TwoStreams ==
  ASSUME NEW a, NEW b, a \subseteq Writer, b \subseteq Writer
  PROVE  [stdout |-> a, stderr |-> b] \in Wiring
  BY DEF Wiring, Stream

\* An option sends a stream to writers that there are.
LEMMA Rewires ==
  ASSUME NEW o \in Option, NEW to \in Wiring PROVE Apply(o, to) \in Wiring
  <1>1. CASE o.option \in Stream
    <2>1. o.writer \in Writer
      BY <1>1 DEF Option, Stream, Writer
    <2>2. Apply(o, to) = [to EXCEPT ![o.option] = {o.writer}]
      BY <1>1 DEF Apply, Stream
    <2>. QED  BY <1>1, <2>1, <2>2 DEF Wiring
  <1>2. CASE o.option = "Write"
    BY <1>2 DEF Apply, Wiring, Stream, Writer
  <1>3. CASE o.option = "Quiet"
    BY <1>3 DEF Apply, Wiring, Stream, Writer
  <1>4. CASE o.option = "NoFail" \/ o.option = "fails"
    BY <1>4 DEF Apply, Stream
  <1>. QED  BY <1>1, <1>2, <1>3, <1>4 DEF Option

(***************************************************************************)
(* Command wires its streams, whatever its options, to writers that there  *)
(* are.  The first step is that its loop over the options, a function      *)
(* defined by recursion, exists.                                           *)
(***************************************************************************)
LEMMA WiresEveryList ==
  ASSUME NEW opts \in Seq(Option) PROVE Wired(opts) \in Wiring
  <1> DEFINE step(g, i) == IF i = 0 THEN Defaults ELSE Apply(opts[i], g[i - 1])
             Defined(m) == \E g : g = [i \in 0..m |-> step(g, i)]
             to == CHOOSE g : g = [i \in 0..Len(opts) |-> step(g, i)]
  <1>1. Len(opts) \in Nat
    OBVIOUS
  <1>2. Defined(Len(opts))
    <2>1. Defined(0)
      <3>1. [i \in 0..0 |-> Defaults] = [i \in 0..0 |-> step([k \in 0..0 |-> Defaults], i)]
        OBVIOUS
      <3>. QED  BY <3>1
    <2>2. ASSUME NEW m \in 0..Len(opts), Defined(m), m < Len(opts)
          PROVE  Defined(m + 1)
      <3>1. PICK g : g = [i \in 0..m |-> step(g, i)]
        BY <2>2
      <3> DEFINE h == [i \in 0..m + 1 |-> IF i = m + 1 THEN step(g, i) ELSE g[i]]
      <3>2. ASSUME NEW i \in 0..m + 1 PROVE h[i] = step(h, i)
        <4>1. i # 0 => i - 1 \in 0..m + 1 /\ i - 1 # m + 1 /\ h[i - 1] = g[i - 1]
          BY <1>1
        <4>2. i # m + 1 => i \in 0..m
          BY <1>1
        <4>3. i # m + 1 => g[i] = step(g, i)
          BY <3>1, <4>2
        <4>4. step(h, i) = step(g, i)
          BY <4>1
        <4>5. h[i] = IF i = m + 1 THEN step(g, i) ELSE g[i]
          OBVIOUS
        <4>. HIDE DEF h, step
        <4>. QED  BY <4>3, <4>4, <4>5
      <3>3. h = [i \in 0..m + 1 |-> h[i]]
        OBVIOUS
      <3>4. h = [i \in 0..m + 1 |-> step(h, i)]
        <4>. HIDE DEF h, step
        <4>. QED  BY <3>2, <3>3
      <3>. HIDE DEF h, step
      <3>. QED  BY <3>4
    <2> DEFINE T == {m \in 0..Len(opts) : Defined(m)}
    <2>. HIDE DEF Defined
    <2>3. 0 \in T /\ \A m \in 0..Len(opts) : m \in T /\ m < Len(opts) => m + 1 \in T
      BY <1>1, <2>1, <2>2
    <2>4. \A m \in 0..Len(opts) : m \in T
      <3>. HIDE DEF T
      <3>. QED  BY <1>1, <2>3, UpTo
    <2>. QED  BY <1>1, <2>4
  <1>3. to = [i \in 0..Len(opts) |-> step(to, i)]
    <2>. HIDE DEF step
    <2>. QED  BY <1>2
  <1>4. Wired(opts) = Capture(to[Len(opts)])
    BY DEF Wired
  <1>5. \A i \in 0..Len(opts) : to[i] = step(to, i)
    <2>. HIDE DEF step, to
    <2>. QED  BY <1>3
  <1>. HIDE DEF to
  <1>6. to[Len(opts)] \in Wiring
    <2> DEFINE T == {i \in 0..Len(opts) : to[i] \in Wiring}
    <2>1. 0 \in T
      <3>1. to[0] = Defaults
        BY <1>1, <1>5
      <3>2. Defaults \in Wiring
        BY TwoStreams DEF Defaults, Writer
      <3>. QED  BY <1>1, <3>1, <3>2
    <2>2. ASSUME NEW i \in 0..Len(opts), i \in T, i < Len(opts) PROVE i + 1 \in T
      <3>1. i + 1 \in 1..Len(opts) /\ opts[i + 1] \in Option /\ (i + 1) - 1 = i
        BY <1>1, <2>2
      <3>2. to[i + 1] = Apply(opts[i + 1], to[i])
        BY <1>1, <1>5, <3>1
      <3>. QED  BY <1>1, <2>2, <3>1, <3>2, Rewires
    <2>3. \A i \in 0..Len(opts) : i \in T
      <3>. HIDE DEF T
      <3>. QED  BY <1>1, <2>1, <2>2, UpTo
    <2>. QED  BY <1>1, <2>3
  <1>7. ASSUME NEW w \in Wiring PROVE Capture(w) \in Wiring
    <2>1. w.stdout \subseteq Writer /\ w.stderr \subseteq Writer
      BY DEF Wiring, Stream
    <2>2. Capture(w).stdout \subseteq Writer /\ Capture(w).stderr \subseteq Writer
      BY <2>1 DEF Capture, Writer
    <2>. QED  BY <2>2, TwoStreams DEF Capture
  <1>. QED  BY <1>4, <1>6, <1>7

(***************************************************************************)
(* What a writer was given is no more than what was printed.               *)
(***************************************************************************)
Kept(o) == o \in Output /\ \A s \in Stream : \A w \in o.to[s] : o.got[s][w] <= o.printed[s]

AllKept == DOMAIN io = Caller /\ \A c \in Caller : Kept(io[c])

\* What the writers of a stream can have been given.
Amounts == UNION {[W -> 0..MaxPrints] : W \in SUBSET Writer}

\* An output, but for what relates its fields.
Fields == [to : Wiring, fails : BOOLEAN, printed : [Stream -> 0..MaxPrints],
           got : [Stream -> Amounts], failed : Wiring]

LEMMA KeptIs ==
  ASSUME NEW o
  PROVE  Kept(o) <=> /\ o \in Fields
                     /\ \A s \in Stream : /\ o.got[s] \in [o.to[s] -> 0..MaxPrints]
                                          /\ o.failed[s] \subseteq o.to[s]
                                          /\ \A w \in o.to[s] : o.got[s][w] <= o.printed[s]
  <1>1. o \in Output <=>
          o \in Fields /\ \A s \in Stream : DOMAIN o.got[s] = o.to[s] /\ o.failed[s] \subseteq o.to[s]
    BY DEF Output, Fields, Amounts
  <1>2. ASSUME o \in Fields, NEW s \in Stream, DOMAIN o.got[s] = o.to[s]
        PROVE  o.got[s] \in [o.to[s] -> 0..MaxPrints]
    <2>1. o.got[s] \in Amounts
      BY <1>2 DEF Fields
    <2>2. PICK W \in SUBSET Writer : o.got[s] \in [W -> 0..MaxPrints]
      BY <2>1 DEF Amounts
    <2>. QED  BY <1>2, <2>2
  <1>. QED  BY <1>1, <1>2 DEF Kept

\* Amounts for the writers a stream goes to.
LEMMA AmountsFor ==
  ASSUME NEW to \in Wiring, NEW s \in Stream, NEW g \in [to[s] -> 0..MaxPrints] PROVE g \in Amounts
  <1>1. to[s] \in SUBSET Writer
    BY DEF Wiring
  <1>. QED  BY <1>1 DEF Amounts

LEMMA KeptAtFirst ==
  ASSUME NEW to \in Wiring, NEW fails \in BOOLEAN PROVE Kept(NoOutput(to, fails))
  <1> DEFINE o == NoOutput(to, fails)
             zero(s) == [w \in to[s] |-> 0]
  <1>1. \A s \in Stream : zero(s) \in [to[s] -> 0..MaxPrints] /\ \A w \in to[s] : zero(s)[w] = 0
    BY OptionAssumption
  <1>2. \A s \in Stream : zero(s) \in Amounts
    <2>. HIDE DEF zero
    <2>. QED  BY <1>1, AmountsFor
  <1>3. o.to = to /\ \A s \in Stream : o.got[s] = zero(s) /\ o.failed[s] = {} /\ o.printed[s] = 0
    BY DEF NoOutput
  <1>4. o \in Fields
    <2>1. [s \in Stream |-> zero(s)] \in [Stream -> Amounts]
      BY <1>2
    <2>2. [s \in Stream |-> {}] \in Wiring
      BY DEF Wiring
    <2>3. [s \in Stream |-> 0] \in [Stream -> 0..MaxPrints]
      BY OptionAssumption
    <2>. QED  BY <2>1, <2>2, <2>3 DEF NoOutput, Fields
  <1>. HIDE DEF o, zero
  <1>5. Kept(o)
    BY <1>1, <1>3, <1>4, KeptIs
  <1>. QED  BY <1>5 DEF o

\* A step of one stream: what was printed, what its writers have, and which failed.
LEMMA KeptNext ==
  ASSUME NEW o, Kept(o), NEW s \in Stream, NEW n \in Fields, n.to = o.to,
         \A t \in Stream \ {s} : /\ n.printed[t] = o.printed[t] /\ n.got[t] = o.got[t]
                                 /\ n.failed[t] = o.failed[t],
         n.got[s] \in [o.to[s] -> 0..MaxPrints], n.failed[s] \subseteq o.to[s],
         \A w \in o.to[s] : n.got[s][w] <= n.printed[s]
  PROVE  Kept(n)
  <1>1. \A t \in Stream : /\ o.got[t] \in [o.to[t] -> 0..MaxPrints]
                          /\ o.failed[t] \subseteq o.to[t]
                          /\ \A w \in o.to[t] : o.got[t][w] <= o.printed[t]
    BY KeptIs
  <1>2. \A t \in Stream : /\ n.got[t] \in [n.to[t] -> 0..MaxPrints]
                          /\ n.failed[t] \subseteq n.to[t]
                          /\ \A w \in n.to[t] : n.got[t][w] <= n.printed[t]
    BY <1>1
  <1>. QED  BY <1>2, KeptIs

LEMMA KeptPrint ==
  ASSUME NEW c \in Caller, NEW s \in Stream, Kept(io[c]), c \in DOMAIN io, Prints(c, s)
  PROVE  \E n : Kept(n) /\ io' = [io EXCEPT ![c] = n]
  <1> DEFINE o == io[c]
             g == IF Copied(o.to, s) THEN o.got[s] ELSE Given(o.got[s], DOMAIN o.got[s])
             p == o.printed[s] + 1
             n == [o EXCEPT !.printed[s] = p, !.got[s] = g]
  <1>1. o \in Fields /\ o.got[s] \in [o.to[s] -> 0..MaxPrints] /\ o.failed[s] \subseteq o.to[s]
        /\ \A w \in o.to[s] : o.got[s][w] <= o.printed[s]
    BY KeptIs
  <1>2. io' = [io EXCEPT ![c] = n] /\ o.printed[s] < MaxPrints
    BY DEF Prints
  <1>3. o.printed[s] \in 0..MaxPrints
    BY <1>1 DEF Fields
  <1>4. p \in 0..MaxPrints
    BY <1>2, <1>3, OptionAssumption
  <1>5. g \in [o.to[s] -> 0..MaxPrints] /\ \A w \in o.to[s] : g[w] <= p
    <2>1. CASE Copied(o.to, s)
      <3>1. \A w \in o.to[s] : o.got[s][w] \in 0..MaxPrints
        BY <1>1
      <3>. QED  BY <1>1, <1>3, <2>1, <3>1, OptionAssumption
    <2>2. CASE ~Copied(o.to, s)
      <3>1. g = [w \in o.to[s] |-> o.got[s][w] + 1]
        BY <1>1, <2>2 DEF Given
      <3>2. \A w \in o.to[s] : o.got[s][w] \in 0..MaxPrints /\ o.got[s][w] + 1 <= p
        BY <1>1, <1>3
      <3>3. \A w \in o.to[s] : o.got[s][w] + 1 \in 0..MaxPrints
        BY <1>4, <3>2, OptionAssumption
      <3>. QED  BY <3>1, <3>2, <3>3
    <2>. QED  BY <2>1, <2>2
  <1>6. g \in Amounts
    <2>1. o.to \in Wiring
      BY <1>1 DEF Fields
    <2>. HIDE DEF g, o
    <2>. QED  BY <1>5, <2>1, AmountsFor
  <1>. HIDE DEF g, p
  <1>7. /\ n \in Fields /\ n.to = o.to /\ n.printed[s] = p /\ n.got[s] = g /\ n.failed = o.failed
        /\ \A t \in Stream \ {s} : n.printed[t] = o.printed[t] /\ n.got[t] = o.got[t]
    BY <1>1, <1>4, <1>6 DEF Fields
  <1>. HIDE DEF n
  <1>8. Kept(n)
    BY <1>1, <1>5, <1>7, KeptNext
  <1>. QED  BY <1>2, <1>8

LEMMA KeptCopy ==
  ASSUME NEW c \in Caller, NEW s \in Stream, Kept(io[c]), c \in DOMAIN io, Copy(c, s)
  PROVE  \E n : Kept(n) /\ io' = [io EXCEPT ![c] = n]
  <1>1. PICK F \in Failures(io[c].to[s]) : Tee(c, s, F)
    BY DEF Copy
  <1> DEFINE o == io[c]
             g == Given(o.got[s], DOMAIN o.got[s] \ F)
             n == [o EXCEPT !.failed[s] = F, !.got[s] = g]
  <1>2. o \in Fields /\ o.got[s] \in [o.to[s] -> 0..MaxPrints] /\ o.printed[s] \in 0..MaxPrints
        /\ \A w \in o.to[s] : o.got[s][w] <= o.printed[s]
    BY KeptIs DEF Fields
  <1>3. io' = [io EXCEPT ![c] = n] /\ \A w \in o.to[s] : o.got[s][w] < o.printed[s]
    BY <1>1 DEF Copy, Tee, Unread
  <1>4. g \in [o.to[s] -> 0..MaxPrints] /\ \A w \in o.to[s] : g[w] <= o.printed[s]
    <2>1. g = [w \in o.to[s] |-> IF w \in o.to[s] \ F THEN o.got[s][w] + 1 ELSE o.got[s][w]]
      BY <1>2 DEF Given
    <2>2. \A w \in o.to[s] : o.got[s][w] \in 0..MaxPrints /\ o.got[s][w] + 1 <= o.printed[s]
      BY <1>2, <1>3
    <2>3. \A w \in o.to[s] : o.got[s][w] + 1 \in 0..MaxPrints
      BY <1>2, <2>2, OptionAssumption
    <2>. HIDE DEF g, o
    <2>. QED  BY <1>2, <2>1, <2>2, <2>3
  <1>5. F \subseteq o.to[s] /\ o.to \in Wiring /\ F \in SUBSET Writer
    BY <1>2 DEF Failures, Fields, Wiring
  <1>6. g \in Amounts
    <2>. HIDE DEF g, o
    <2>. QED  BY <1>4, <1>5, AmountsFor
  <1>. HIDE DEF g
  <1>7. /\ n \in Fields /\ n.to = o.to /\ n.printed = o.printed /\ n.got[s] = g /\ n.failed[s] = F
        /\ \A t \in Stream \ {s} : n.got[t] = o.got[t] /\ n.failed[t] = o.failed[t]
    <2>1. [o.failed EXCEPT ![s] = F] \in Wiring /\ o.failed \in [Stream -> SUBSET Writer]
      BY <1>2, <1>5 DEF Fields, Wiring
    <2>. QED  BY <1>2, <1>6, <2>1 DEF Fields
  <1>. HIDE DEF n
  <1>8. Kept(n)
    BY <1>2, <1>4, <1>5, <1>7, KeptNext
  <1>. QED  BY <1>3, <1>8

LEMMA KeptStep == AllKept /\ [IONext]_ioVars => AllKept'
  <1> SUFFICES ASSUME AllKept, [IONext]_ioVars PROVE AllKept'
    OBVIOUS
  <1>1. CASE UNCHANGED io
    BY <1>1 DEF AllKept
  <1>2. ASSUME NEW c \in Caller, NEW n, Kept(n), io' = [io EXCEPT ![c] = n] PROVE AllKept'
    <2>1. DOMAIN io' = Caller /\ io'[c] = n /\ \A d \in Caller \ {c} : io'[d] = io[d]
      BY <1>2 DEF AllKept
    <2>. QED  BY <1>2, <2>1 DEF AllKept
  <1>3. ASSUME NEW c \in Caller, Call(c) PROVE AllKept'
    <2>1. PICK opts \in OptionLists : io' = [io EXCEPT ![c] = NoOutput(Wired(opts), IsGiven(opts, "fails"))]
      BY <1>3 DEF Call
    <2>2. Wired(opts) \in Wiring
      BY OptionAssumption, WiresEveryList
    <2>3. IsGiven(opts, "fails") \in BOOLEAN
      BY DEF IsGiven
    <2>. QED  BY <1>2, <2>1, <2>2, <2>3, KeptAtFirst
  <1>4. ASSUME NEW c \in Caller, NEW s \in Stream, Prints(c, s) \/ Copy(c, s) PROVE AllKept'
    <2>1. \E n : Kept(n) /\ io' = [io EXCEPT ![c] = n]
      BY <1>4, KeptPrint, KeptCopy DEF AllKept
    <2>. QED  BY <1>2, <2>1
  <1>. QED
    BY <1>1, <1>3, <1>4 DEF IONext, ioVars, Contexts, OptionFails, Launch, Finish, Meanwhile

(***************************************************************************)
(* The state has its types: every stream goes to writers that there are,   *)
(* each of which was given no more than was printed, and those that failed *)
(* are among them, whatever the options and their order.                   *)
(***************************************************************************)
THEOREM OutputTyped == IOSpec => []IOTypeOK
  <1>1. IOInit => AllKept
    <2>1. Defaults \in Wiring
      BY TwoStreams DEF Defaults, Writer
    <2>. QED  BY <2>1, KeptAtFirst DEF IOInit, AllKept
  <1>2. RunTypeOK /\ AllKept => IOTypeOK
    BY DEF AllKept, Kept, IOTypeOK
  <1>. QED  BY <1>1, <1>2, KeptStep, Runs, Typed, PTL DEF IOSpec

-----------------------------------------------------------------------------
(***************************************************************************)
(* Command "returns stdout": without an error, and without NoFail, all     *)
(* that was printed has reached every writer of its stream.                *)
(***************************************************************************)
THEOREM OutputIsWhole == IOSpec => []NoSilentLoss
  <1>1. OutputInv => NoSilentLoss
    BY DEF OutputInv, NoSilentLoss, Settled, Copying
  <1>. QED  BY <1>1, OutputInvariance, PTL

(***************************************************************************)
(* A command that ran and failed has shown what it printed on stderr, or   *)
(* its error has it, up to the failure of a writer of the caller's.        *)
(***************************************************************************)
THEOREM ErrorsAreExplained == IOSpec => []FailureExplained
  <1>1. OutputInv => FailureExplained
    <2> SUFFICES ASSUME OutputInv, NEW c \in Caller, cmd[c].state = "done", cmd[c].exit # "none",
                        ~cmd[c].late
                 PROVE  \E w \in io[c].to["stderr"] \cap {"os.Stderr", "in error"} :
                          \/ io[c].got["stderr"][w] = io[c].printed["stderr"]
                          \/ \E v \in io[c].failed["stderr"] :
                               io[c].got["stderr"][v] < io[c].got["stderr"][w]
      BY DEF FailureExplained
    <2>1. Wellformed(io[c]) /\ Copying(io[c]) /\ InStep(io[c], "stderr")
      BY DEF OutputInv, Settled, Wellformed, Stream
    <2>2. PICK w \in io[c].to["stderr"] \cap {"os.Stderr", "in error"} : TRUE
      BY <2>1 DEF Wellformed
    <2>3. w \notin io[c].failed["stderr"]
      BY <2>1, <2>2 DEF InStep
    <2>. QED  BY <2>1, <2>2, <2>3 DEF Copying, InStep, Stream
  <1>. QED  BY <1>1, OutputInvariance, PTL
-----------------------------------------------------------------------------
(* From Makefile to the end of the process: Lifecycle.                     *)

(***************************************************************************)
(* What was thrown is dealt with before DoExit is reached: tasks run with  *)
(* nothing thrown, and HandleErrors lets only OkError pass.                *)
(***************************************************************************)
Handled ==
  /\ main \in {"tasks", "command"} => thrown = "nothing"
  /\ main \in {"returned", "exiting", "stuck"} => thrown \in {"nothing", "OkError"}
  /\ exit = "zero" => main = "exiting" /\ next = 0

(***************************************************************************)
(* Once it holds the lock DoExit is `next' handlers from the first, and no *)
(* handler is added.                                                       *)
(***************************************************************************)
Unwinding ==
  /\ handlers \in Seq(HandlerKinds) /\ handled \in Seq(Nat) /\ next \in Nat
  /\ IF main \in {"exiting", "stuck"} THEN Len(handled) + next = Len(handlers)
     ELSE handled = <<>> /\ next = 0
  /\ \A i \in DOMAIN handled : handled[i] = Len(handlers) + 1 - i

LifecycleInv == Handled /\ Unwinding

LEMMA LifecycleInit == Init => LifecycleInv
  BY DEF Init, LifecycleInv, Handled, Unwinding

LEMMA HandledStep == Handled /\ [Next]_vars => Handled'
  <1> SUFFICES ASSUME Handled, [Next]_vars PROVE Handled'
    OBVIOUS
  <1> USE DEF Handled, Alive
  <1>1. CASE UNCHANGED <<mainVars, exit>>
    BY <1>1 DEF mainVars
  <1>2. CASE TaskRuns \/ TaskResumes \/ TaskThrows \/ Catch \/ TasksReturn
    BY <1>2 DEF TaskRuns, TaskResumes, TaskThrows, Catch, TasksReturn
  <1>3. CASE HandleErrors
    BY <1>3 DEF HandleErrors
  <1>4. CASE DoExit \/ RunHandler \/ ExitZero
    BY <1>4 DEF DoExit, RunHandler, ExitZero, mainVars
  <1>5. CASE OnExit
    BY <1>5 DEF OnExit
  <1>6. CASE SecondSignal
    BY <1>6 DEF SecondSignal, mainVars
  <1>. QED
    BY <1>1, <1>2, <1>3, <1>4, <1>5, <1>6
       DEF Next, MainStep, WatcherStep, Signal, FirstSignal, SignalCancels, Commands, Processes,
           Exited, vars

LEMMA UnwindingStep == Unwinding /\ [Next]_vars => Unwinding'
  <1> SUFFICES ASSUME Unwinding, [Next]_vars PROVE Unwinding'
    OBVIOUS
  <1>1. CASE UNCHANGED mainVars
    BY <1>1 DEF mainVars, Unwinding
  <1>2. CASE TaskRuns \/ TaskResumes \/ TaskThrows \/ Catch \/ TasksReturn \/ HandleErrors
    BY <1>2 DEF TaskRuns, TaskResumes, TaskThrows, Catch, TasksReturn, HandleErrors, Unwinding
  <1>3. CASE OnExit
    BY <1>3 DEF OnExit, Unwinding
  <1>4. CASE DoExit
    BY <1>4 DEF DoExit, Unwinding
  <1>5. CASE RunHandler
    <2>1. main = "exiting" /\ main' \in {"exiting", "stuck"} /\ next > 0 /\ next' = next - 1
          /\ handled' = Append(handled, next) /\ handlers' = handlers
      BY <1>5 DEF RunHandler
    <2>2. handled \in Seq(Nat) /\ next \in Nat /\ Len(handlers) \in Nat
          /\ Len(handled) + next = Len(handlers)
      BY <2>1 DEF Unwinding
    <2>3. handled' \in Seq(Nat) /\ Len(handled') = Len(handled) + 1 /\ next' \in Nat
      BY <2>1, <2>2
    <2>4. ASSUME NEW i \in DOMAIN handled' PROVE handled'[i] = Len(handlers) + 1 - i
      <3>1. CASE i = Len(handled) + 1
        BY <2>1, <2>2, <3>1
      <3>2. CASE i \in DOMAIN handled
        BY <2>1, <2>2, <3>2 DEF Unwinding
      <3>3. i \in 1..(Len(handled) + 1)
        BY <2>1, <2>2, <2>4
      <3>. QED  BY <2>2, <3>1, <3>2, <3>3
    <2>5. handlers' \in Seq(HandlerKinds)
      BY <2>1 DEF Unwinding
    <2>6. Len(handled') + next' = Len(handlers')
      <3>1. Len(handled) \in Nat /\ next' = next - 1 /\ Len(handlers') = Len(handlers)
        BY <2>1, <2>2
      <3>. QED  BY <2>2, <2>3, <3>1
    <2>7. \A i \in DOMAIN handled' : handled'[i] = Len(handlers') + 1 - i
      BY <2>1, <2>4
    <2>. QED  BY <2>1, <2>3, <2>5, <2>6, <2>7 DEF Unwinding
  <1>. QED
    BY <1>1, <1>2, <1>3, <1>4, <1>5
       DEF Next, MainStep, ExitZero, WatcherStep, Signal, FirstSignal, SignalCancels, SecondSignal,
           Commands, Processes, Exited, vars

(***************************************************************************)
(* A step of the process is one of the main goroutine's command, of the    *)
(* contexts, or of neither: what is proved of RunContext holds.            *)
(***************************************************************************)
LEMMA LifecycleRuns == Spec => RunSpec
  <1>1. Init => RunInit
    BY DEF Init
  <1>2. [Next]_vars => [RunNext]_runVars
    <2> SUFFICES ASSUME [Next]_vars PROVE [RunNext]_runVars
      OBVIOUS
    <2>1. CASE TaskRuns
      BY <2>1, LifecycleAssumption DEF TaskRuns, RunNext
    <2>2. CASE SignalCancels
      BY <2>2 DEF SignalCancels, RunNext
    <2>3. CASE Commands \/ Processes
      BY <2>3, LifecycleAssumption DEF Commands, Processes, RunNext
    <2>4. CASE UNCHANGED vars \/ Exited
      BY <2>4 DEF vars, Exited
    <2>5. CASE TaskResumes \/ TaskThrows \/ Catch \/ TasksReturn \/ HandleErrors \/ OnExit
      BY <2>5 DEF TaskResumes, TaskThrows, Catch, TasksReturn, HandleErrors, OnExit
    <2>6. CASE DoExit \/ RunHandler \/ ExitZero \/ Signal \/ FirstSignal \/ SecondSignal
      BY <2>6 DEF DoExit, RunHandler, ExitZero, Signal, FirstSignal, SecondSignal
    <2>. QED
      BY <2>1, <2>2, <2>3, <2>4, <2>5, <2>6 DEF Next, MainStep, WatcherStep
  <1>. QED  BY <1>1, <1>2, PTL DEF Spec, RunSpec

\* The types that do not depend on one another.
Places ==
  /\ main \in {"tasks", "command", "panicking", "returned", "exiting", "stuck"}
  /\ thrown \in Thrown \cup {"nothing"}
  /\ inbox \in BOOLEAN
  /\ sent \in 0..MaxSignals
  /\ watcher \in {"first", "cancel", "second"}
  /\ exit \in {"none", "zero", "failure", "crash", "forced"}

LEMMA PlacesStep == Places /\ [Next]_vars => Places'
  <1> SUFFICES ASSUME Places, [Next]_vars PROVE Places'
    OBVIOUS
  <1> USE DEF Places
  <1>1. CASE UNCHANGED <<mainVars, signalVars, exit>>
    BY <1>1 DEF mainVars, signalVars
  <1>2. CASE TaskRuns \/ TaskResumes \/ TaskThrows \/ Catch \/ TasksReturn \/ OnExit
    BY <1>2 DEF TaskRuns, TaskResumes, TaskThrows, Catch, TasksReturn, OnExit, Thrown, signalVars
  <1>3. CASE HandleErrors \/ DoExit \/ RunHandler \/ ExitZero
    BY <1>3 DEF HandleErrors, DoExit, RunHandler, ExitZero, mainVars, signalVars
  <1>4. CASE Signal
    <2>1. sent' \in 0..MaxSignals
      BY <1>4, LifecycleAssumption DEF Signal
    <2>. QED  BY <1>4, <2>1 DEF Signal, mainVars
  <1>5. CASE FirstSignal \/ SignalCancels \/ SecondSignal
    BY <1>5 DEF FirstSignal, SignalCancels, SecondSignal, mainVars
  <1>. QED
    BY <1>1, <1>2, <1>3, <1>4, <1>5
       DEF Next, MainStep, WatcherStep, Commands, Processes, Exited, vars

LEMMA LifecycleInvariance == Spec => []LifecycleInv
  <1>1. LifecycleInv /\ [Next]_vars => LifecycleInv'
    BY HandledStep, UnwindingStep DEF LifecycleInv
  <1>. QED  BY <1>1, LifecycleInit, PTL DEF Spec
-----------------------------------------------------------------------------
(***************************************************************************)
(* The process ends with code zero only if nothing thrown went uncaught,   *)
(* the value OkError excepted (HandleErrors).                              *)
(***************************************************************************)
THEOREM ZeroIsSuccess == Spec => []ZeroMeansSuccess
  <1>1. LifecycleInv => ZeroMeansSuccess
    BY DEF LifecycleInv, Handled, ZeroMeansSuccess
  <1>. QED  BY <1>1, LifecycleInvariance, PTL

(***************************************************************************)
(* DoExit runs handlers in reverse order, each once, and all of them when  *)
(* the process ends with code zero.                                        *)
(***************************************************************************)
THEOREM LastInFirstOut == Spec => []HandlersUndoInOrder
  <1>1. LifecycleInv => HandlersUndoInOrder
    BY DEF LifecycleInv, Handled, Unwinding, HandlersUndoInOrder
  <1>. QED  BY <1>1, LifecycleInvariance, PTL

(***************************************************************************)
(* The state has its types; what DoExit still has to call, and what it has *)
(* called, are registered handlers.                                        *)
(***************************************************************************)
THEOREM LifecycleTyped == Spec => []TypeOK
  <1>1. Init => Places
    <2>1. 0 \in 0..MaxSignals
      BY LifecycleAssumption
    <2>. QED  BY <2>1 DEF Init, Places
  <1>2. LifecycleInv /\ Places /\ RunTypeOK => TypeOK
    <2> SUFFICES ASSUME LifecycleInv, Places, RunTypeOK PROVE TypeOK
      OBVIOUS
    <2>1. handlers \in Seq(HandlerKinds) /\ handled \in Seq(Nat) /\ next \in Nat
          /\ Len(handled) \in Nat /\ Len(handlers) \in Nat
      BY DEF LifecycleInv, Unwinding
    <2>2. Len(handled) + next <= Len(handlers)
      BY <2>1 DEF LifecycleInv, Unwinding
    <2>3. next \in 0..Len(handlers)
      BY <2>1, <2>2
    <2>4. \A i \in 1..Len(handled) : handled[i] \in 1..Len(handlers)
      BY <2>1, <2>2 DEF LifecycleInv, Unwinding
    <2>5. handled \in Seq(1..Len(handlers))
      BY <2>1, <2>4
    <2>. QED  BY <2>1, <2>3, <2>5 DEF Places, TypeOK
  <1>. QED  BY <1>1, <1>2, PlacesStep, LifecycleRuns, Typed, LifecycleInvariance, PTL DEF Spec
=============================================================================
