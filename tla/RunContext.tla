---------------------------- MODULE RunContext ----------------------------
(***************************************************************************)
(* Running commands under a context that can be cancelled: run/context.go, *)
(* run.Command of run/run.go, and the process groups of run/run_opts.go.   *)
(*                                                                         *)
(* Contexts are numbered in the order they are made; currentContext is the *)
(* last one, and every access to it holds contextLock, so that Context,    *)
(* SetContext and Cancel are single steps.  The processes, and what        *)
(* exec.Cmd does with them (Start, Wait, the goroutine that watches the    *)
(* context, WaitDelay), are external.                                      *)
(***************************************************************************)
EXTENDS Naturals, Sequences

CONSTANTS
  Caller,      \* goroutines that run commands, one at a time each
  UserCtx,     \* contexts a program may pass to SetContext
  Background,  \* context.Background()
  MaxContexts  \* bound: how many contexts a behaviour makes

ASSUME ContextAssumption ==
  /\ Background \notin UserCtx
  /\ UserCtx \cap Nat = {} /\ Background \notin Nat
  /\ MaxContexts \in Nat \ {0}

VARIABLES
  contexts,   \* the parent of each context made so far
  cancelled,  \* the contexts, made here or the user's, that were cancelled
  cmd         \* the latest command of each caller

runVars == <<contexts, cancelled, cmd>>

Parent == UserCtx \cup {Background}

\* What a command's process group can hold: its child, and what that spawned.
Process == {"child", "spawned"}

\* How the child ended.
Exit == {"none", "zero", "nonzero", "signal"}

(***************************************************************************)
(* A call of Command.  `ctx' is the context CommandContext was given,      *)
(* `group' the processes alive, `hit' whether the context's end reached    *)
(* it, `late' whether WaitDelay has passed, `noFail' whether the option    *)
(* NoFail was given, `pipes' whether os/exec copies what is printed to a   *)
(* writer; output may also go to a file that the child is given.           *)
(***************************************************************************)
Command ==
  [state : {"idle", "created", "running", "done"}, ctx : Nat, noFail : BOOLEAN, pipes : BOOLEAN,
   group : SUBSET Process, exit : Exit, hit : BOOLEAN, late : BOOLEAN,
   result : {"none", "ok", "error"}]

NoCommand ==
  [state |-> "idle", ctx |-> 0, noFail |-> FALSE, pipes |-> FALSE, group |-> {}, exit |-> "none",
   hit |-> FALSE, late |-> FALSE, result |-> "none"]

Context == Len(contexts)

\* A context is done when it or its parent was cancelled.
Done(i) == i \in cancelled \/ contexts[i] \in cancelled

\* What Command returns: NoFail turns an error of c.Run into none.
Result(c, failed) == IF failed /\ ~cmd[c].noFail THEN "error" ELSE "ok"

RunInit ==
  /\ contexts = <<Background>>
  /\ cancelled = {}
  /\ cmd = [c \in Caller |-> NoCommand]

-----------------------------------------------------------------------------
SetContext(u) ==
  /\ Context < MaxContexts
  /\ contexts' = Append(contexts, u)
  /\ UNCHANGED <<cancelled, cmd>>

\* Fault: the context is cancelled and not replaced.
CancelKeeps ==
  /\ Context < MaxContexts
  /\ cancelled' = cancelled \cup {Context}
  /\ UNCHANGED <<contexts, cmd>>

\* Cancel cancels the current context and makes a fresh one.
Cancel ==
  /\ Context < MaxContexts
  /\ cancelled' = cancelled \cup {Context}
  /\ contexts' = Append(contexts, Background)
  /\ UNCHANGED cmd

\* The program cancels a context of its own.
UserCancel(u) ==
  /\ cancelled' = cancelled \cup {u}
  /\ UNCHANGED <<contexts, cmd>>

-----------------------------------------------------------------------------
\* Command up to its options: the command takes the context of the moment.
NewCommandWith(c, noFail, pipes) ==
  /\ cmd[c].state \in {"idle", "done"}
  /\ cmd' = [cmd EXCEPT ![c] = [NoCommand EXCEPT !.state = "created", !.ctx = Context,
                                                 !.noFail = noFail, !.pipes = pipes]]
  /\ UNCHANGED <<contexts, cancelled>>

NewCommand(c) == \E noFail, pipes \in BOOLEAN : NewCommandWith(c, noFail, pipes)

\* An option returns an error, which Command returns whatever NoFail says.
BadOption(c) ==
  /\ cmd[c].state = "created"
  /\ cmd' = [cmd EXCEPT ![c].state = "done", ![c].result = "error"]
  /\ UNCHANGED <<contexts, cancelled>>

\* c.Run starts the child, in a process group of its own.
Start(c) ==
  /\ cmd[c].state = "created"
  /\ ~Done(cmd[c].ctx)
  /\ cmd' = [cmd EXCEPT ![c].state = "running", ![c].group = {"child"}]
  /\ UNCHANGED <<contexts, cancelled>>

\* c.Run starts nothing: no such program, or the context is done.
StartFails(c) ==
  /\ cmd[c].state = "created"
  /\ cmd' = [cmd EXCEPT ![c].state = "done", ![c].hit = Done(cmd[c].ctx),
                        ![c].result = Result(c, TRUE)]
  /\ UNCHANGED <<contexts, cancelled>>

\* The context is done before the child is reaped: SIGINT is sent to the process
\* group, and WaitDelay begins.
Interrupt(c) ==
  /\ cmd[c].state = "running"
  /\ "child" \in cmd[c].group
  /\ ~cmd[c].hit
  /\ Done(cmd[c].ctx)
  /\ cmd' = [cmd EXCEPT ![c].hit = TRUE]
  /\ UNCHANGED <<contexts, cancelled>>

\* Fault: the delay runs from the child's end only.
WaitDelayAfterEnd(c) ==
  /\ cmd[c].state = "running"
  /\ ~cmd[c].late
  /\ "child" \notin cmd[c].group /\ cmd[c].pipes
  /\ cmd' = [cmd EXCEPT ![c].late = TRUE]
  /\ UNCHANGED <<contexts, cancelled>>

\* Fault: the wait is given up and the child left alone.
WaitDelayAbandons(c) ==
  /\ cmd[c].state = "running"
  /\ ~cmd[c].late
  /\ IF "child" \in cmd[c].group THEN cmd[c].hit ELSE cmd[c].pipes
  /\ cmd' = [cmd EXCEPT ![c].late = TRUE, ![c].exit = IF @ = "none" THEN "signal" ELSE @]
  /\ UNCHANGED <<contexts, cancelled>>

\* WaitDelay has passed since the interrupt, or since the end of a child whose output
\* is copied: the child is killed and the pipes to its group are closed.
WaitDelay(c) ==
  /\ cmd[c].state = "running"
  /\ ~cmd[c].late
  /\ IF "child" \in cmd[c].group THEN cmd[c].hit ELSE cmd[c].pipes
  /\ cmd' = [cmd EXCEPT ![c].late = TRUE, ![c].group = @ \ {"child"},
                        ![c].exit = IF @ = "none" THEN "signal" ELSE @]
  /\ UNCHANGED <<contexts, cancelled>>

\* c.Run returns once the child has ended and nothing is copied any more: all that
\* held the pipes has ended, WaitDelay has closed them, or a writer has failed.
Returns(c, broken) ==
  /\ cmd[c].state = "running"
  /\ "child" \notin cmd[c].group
  /\ IF cmd[c].pipes THEN cmd[c].late \/ broken \/ cmd[c].group = {} ELSE ~broken
  /\ LET failed == cmd[c].exit # "zero" \/ cmd[c].hit \/ cmd[c].late \/ broken
     IN  cmd' = [cmd EXCEPT ![c].state = "done", ![c].result = Result(c, failed)]
  /\ UNCHANGED <<contexts, cancelled>>

Return(c) == \E broken \in BOOLEAN : Returns(c, broken)

CommandStep(c) == BadOption(c) \/ Start(c) \/ StartFails(c) \/ Interrupt(c) \/ WaitDelay(c) \/ Return(c)

\* The child starts a process that shares its group and its output.
Spawn(c) ==
  /\ "child" \in cmd[c].group
  /\ cmd' = [cmd EXCEPT ![c].group = @ \cup {"spawned"}]
  /\ UNCHANGED <<contexts, cancelled>>

\* A process ends, of its own accord or by a signal.
End(c) ==
  /\ \/ /\ "child" \in cmd[c].group
        /\ \E e \in Exit \ {"none"} :
             cmd' = [cmd EXCEPT ![c].group = @ \ {"child"}, ![c].exit = e]
     \/ /\ "spawned" \in cmd[c].group
        /\ cmd' = [cmd EXCEPT ![c].group = @ \ {"spawned"}]
  /\ UNCHANGED <<contexts, cancelled>>

ProcessStep(c) == Spawn(c) \/ End(c)

RunNext ==
  \/ \E u \in UserCtx : SetContext(u) \/ UserCancel(u)
  \/ Cancel
  \/ \E c \in Caller : NewCommand(c) \/ CommandStep(c) \/ ProcessStep(c)

RunSpec == RunInit /\ [][RunNext]_runVars
-----------------------------------------------------------------------------
RunTypeOK ==
  /\ contexts \in Seq(Parent) /\ contexts # <<>>
  /\ cancelled \subseteq 1..Context \cup UserCtx
  /\ cmd \in [Caller -> Command]
  /\ \A c \in Caller : /\ cmd[c].ctx <= Context
                       /\ "child" \in cmd[c].group => cmd[c].exit = "none"

(***************************************************************************)
(* Cancel leaves a context that commands can run under: the current one is *)
(* never cancelled by this package, whatever SetContext and Cancel do, so  *)
(* a Cancel only reaches commands created before it.                       *)
(***************************************************************************)
CurrentUsable ==
  /\ Context \notin cancelled
  /\ \A c \in Caller : cmd[c].hit /\ cmd[c].ctx = Context => contexts[Context] \in cancelled

(***************************************************************************)
(* A command whose context is done comes back, whatever its processes do   *)
(* with SIGINT: WaitDelay sees to it.                                      *)
(***************************************************************************)
CancelledReturns ==
  \A c \in Caller :
    (cmd[c].state = "running" /\ Done(cmd[c].ctx)) ~> cmd[c].state # "running"
=============================================================================
