----------------------------- MODULE Lifecycle -----------------------------
(***************************************************************************)
(* From Makefile to the end of the process: the tasks, which run commands, *)
(* register exit handlers and fail; HandleErrors (lang/errors.go), DoExit  *)
(* (config/exit.go) and the signal goroutine (run/signal.go), around the   *)
(* commands of RunContext.                                                 *)
(*                                                                         *)
(* The tasks run on the main goroutine, as TaskRunner has it; here they    *)
(* are what they do to the rest of the process.  os.Exit ends every        *)
(* goroutine at once and runs nothing that was deferred; processes live on.*)
(***************************************************************************)
EXTENDS RunContext

CONSTANTS
  Main,          \* the main goroutine
  HandlerKinds,  \* what exit handlers may do: run, panic, call OnExit
  MaxHandlers,   \* bound: handlers registered
  MaxSignals     \* bound: signals sent

ASSUME LifecycleAssumption ==
  /\ Main \in Caller
  /\ HandlerKinds \subseteq {"plain", "panics", "registers"}
  /\ MaxHandlers \in Nat /\ MaxSignals \in Nat

VARIABLES
  main,      \* where the main goroutine is
  thrown,    \* the value the main goroutine last panicked with
  handlers,  \* config.onExit
  next,      \* DoExit: the handlers left to run
  handled,   \* history: the handlers DoExit has called, in order
  inbox,     \* the signals channel holds a signal
  sent,      \* how many signals the process got
  watcher,   \* where the goroutine of HandleSignals is
  exit       \* how the process ended

mainVars == <<main, thrown, handlers, next, handled>>
signalVars == <<inbox, sent, watcher>>
vars == <<runVars, mainVars, signalVars, exit>>

(***************************************************************************)
(* What may be thrown: the sentinel by value, and by pointer, the only way *)
(* it is an error; a StackTraceError with an exit code, one without (zero, *)
(* or -1 of a child ended by a signal), or anything else.                  *)
(***************************************************************************)
Thrown == {"OkError", "*OkError", "coded", "uncoded", "other"}

Alive == exit = "none"

Init ==
  /\ RunInit
  /\ main = "tasks"
  /\ thrown = "nothing"
  /\ handlers = <<>>
  /\ next = 0
  /\ handled = <<>>
  /\ inbox = FALSE
  /\ sent = 0
  /\ watcher = "first"
  /\ exit = "none"
-----------------------------------------------------------------------------
(* Tasks.                                                                  *)

\* A task calls Command.
TaskRuns ==
  /\ Alive /\ main = "tasks"
  /\ NewCommand(Main)
  /\ main' = "command"
  /\ UNCHANGED <<thrown, handlers, next, handled, signalVars, exit>>

\* Command is back: Run returns its output, or throws its error, which carries
\* the child's exit code.
TaskResumes ==
  /\ Alive /\ main = "command"
  /\ cmd[Main].state = "done"
  /\ \/ cmd[Main].result = "ok" /\ main' = "tasks" /\ UNCHANGED thrown
     \/ /\ cmd[Main].result = "error"
        /\ main' = "panicking"
        /\ thrown' = IF cmd[Main].exit = "nonzero" THEN "coded" ELSE "uncoded"
  /\ UNCHANGED <<runVars, handlers, next, handled, signalVars, exit>>

TaskThrows ==
  /\ Alive /\ main = "tasks"
  /\ thrown' \in Thrown \ {"coded", "uncoded"}
  /\ main' = "panicking"
  /\ UNCHANGED <<runVars, handlers, next, handled, signalVars, exit>>

\* Catch recovers the panic of the function it called.
Catch ==
  /\ Alive /\ main = "panicking"
  /\ main' = "tasks"
  /\ thrown' = "nothing"
  /\ UNCHANGED <<runVars, handlers, next, handled, signalVars, exit>>

TasksReturn ==
  /\ Alive /\ main = "tasks"
  /\ main' = "returned"
  /\ UNCHANGED <<runVars, thrown, handlers, next, handled, signalVars, exit>>

\* OnExit, from any goroutine, waits while DoExit holds the lock.
OnExit ==
  /\ Alive /\ main \notin {"exiting", "stuck"}
  /\ Len(handlers) < MaxHandlers
  /\ \E kind \in HandlerKinds : handlers' = Append(handlers, kind)
  /\ UNCHANGED <<runVars, main, thrown, next, handled, signalVars, exit>>
-----------------------------------------------------------------------------
(* The end.                                                                *)

\* Fault: an error that carries no exit code is not an error.
HandleErrorsByCode ==
  /\ Alive /\ main = "panicking"
  /\ \/ thrown \in {"OkError", "uncoded"} /\ main' = "returned" /\ UNCHANGED exit
     \/ thrown \in {"*OkError", "coded", "other"} /\ exit' = "failure" /\ UNCHANGED main
  /\ UNCHANGED <<runVars, thrown, handlers, next, handled, signalVars>>

\* HandleErrors, deferred by runTaskFile.
HandleErrors ==
  /\ Alive /\ main = "panicking"
  /\ \/ thrown = "OkError" /\ main' = "returned" /\ UNCHANGED exit
     \/ thrown # "OkError" /\ exit' = "failure" /\ UNCHANGED main
  /\ UNCHANGED <<runVars, thrown, handlers, next, handled, signalVars>>

\* Fault: the first handler run is one past the last.
DoExitPastEnd ==
  /\ Alive /\ main = "returned"
  /\ main' = "exiting"
  /\ next' = Len(handlers) + 1
  /\ UNCHANGED <<runVars, thrown, handlers, handled, signalVars, exit>>

\* DoExit, deferred by Makefile, takes the lock.
DoExit ==
  /\ Alive /\ main = "returned"
  /\ main' = "exiting"
  /\ next' = Len(handlers)
  /\ UNCHANGED <<runVars, thrown, handlers, handled, signalVars, exit>>

\* Fault: handlers run in the order they were registered.
RunHandlerFirst ==
  /\ Alive /\ main = "exiting" /\ next > 0
  /\ next' = next - 1
  /\ handled' = Append(handled, Len(handlers) - next + 1)
  /\ LET kind == handlers[Len(handlers) - next + 1] IN
     /\ main' = IF kind = "registers" THEN "stuck" ELSE main
     /\ exit' = IF kind = "panics" THEN "crash" ELSE exit
  /\ UNCHANGED <<runVars, thrown, handlers, signalVars>>

\* DoExit calls the last handler left.  One that panics ends the process; one
\* that calls OnExit waits for the lock DoExit holds.
RunHandler ==
  /\ Alive /\ main = "exiting" /\ next > 0
  /\ next' = next - 1
  /\ handled' = Append(handled, next)
  /\ LET kind == handlers[next] IN
     /\ main' = IF kind = "registers" THEN "stuck" ELSE main
     /\ exit' = IF kind = "panics" THEN "crash" ELSE exit
  /\ UNCHANGED <<runVars, thrown, handlers, signalVars>>

\* main returns.
ExitZero ==
  /\ Alive /\ main = "exiting" /\ next = 0
  /\ exit' = "zero"
  /\ UNCHANGED <<runVars, mainVars, signalVars>>
-----------------------------------------------------------------------------
(* Signals.                                                                *)

\* The process gets SIGINT or SIGTERM: one waits in the channel, more are dropped.
Signal ==
  /\ Alive /\ sent < MaxSignals
  /\ sent' = sent + 1
  /\ inbox' = TRUE
  /\ UNCHANGED <<runVars, mainVars, watcher, exit>>

FirstSignal ==
  /\ Alive /\ watcher = "first" /\ inbox
  /\ inbox' = FALSE
  /\ watcher' = "cancel"
  /\ UNCHANGED <<runVars, mainVars, sent, exit>>

\* Fault: the signal is logged and nothing cancelled.
SignalLogs ==
  /\ Alive /\ watcher = "cancel"
  /\ watcher' = "second"
  /\ UNCHANGED <<runVars, mainVars, inbox, sent, exit>>

SignalCancels ==
  /\ Alive /\ watcher = "cancel"
  /\ Cancel
  /\ watcher' = "second"
  /\ UNCHANGED <<mainVars, inbox, sent, exit>>

\* Fault: later signals are drained and logged.
SecondSignalLogs ==
  /\ Alive /\ watcher = "second" /\ inbox
  /\ inbox' = FALSE
  /\ UNCHANGED <<runVars, mainVars, sent, watcher, exit>>

SecondSignal ==
  /\ Alive /\ watcher = "second" /\ inbox
  /\ inbox' = FALSE
  /\ exit' = "forced"
  /\ UNCHANGED <<runVars, mainVars, sent, watcher>>
-----------------------------------------------------------------------------
\* The command the tasks wait for; RunContext has those of other goroutines.
Commands ==
  /\ Alive
  /\ CommandStep(Main)
  /\ UNCHANGED <<mainVars, signalVars, exit>>

Processes ==
  /\ ProcessStep(Main)
  /\ UNCHANGED <<mainVars, signalVars, exit>>

MainStep ==
  \/ TaskRuns \/ TaskResumes \/ TaskThrows \/ Catch \/ TasksReturn
  \/ HandleErrors \/ DoExit \/ RunHandler \/ ExitZero

WatcherStep == FirstSignal \/ SignalCancels \/ SecondSignal

Exited == ~Alive /\ UNCHANGED vars

Next == MainStep \/ OnExit \/ Signal \/ WatcherStep \/ Commands \/ Processes \/ Exited

Spec == Init /\ [][Next]_vars

(***************************************************************************)
(* The goroutines are scheduled fairly and commands that can end do; that  *)
(* the tasks ever end, or a child does, is not assumed.                    *)
(***************************************************************************)
Fairness ==
  /\ WF_vars(WatcherStep)
  /\ WF_vars(DoExit) /\ WF_vars(RunHandler) /\ WF_vars(ExitZero)
  /\ WF_vars(Commands /\ (Interrupt(Main) \/ WaitDelay(Main) \/ Return(Main)))

FairSpec == Spec /\ Fairness
-----------------------------------------------------------------------------
TypeOK ==
  /\ RunTypeOK
  /\ main \in {"tasks", "command", "panicking", "returned", "exiting", "stuck"}
  /\ thrown \in Thrown \cup {"nothing"}
  /\ handlers \in Seq(HandlerKinds)
  /\ next \in 0..Len(handlers)
  /\ handled \in Seq(1..Len(handlers))
  /\ inbox \in BOOLEAN
  /\ sent \in 0..MaxSignals
  /\ watcher \in {"first", "cancel", "second"}
  /\ exit \in {"none", "zero", "failure", "crash", "forced"}

(***************************************************************************)
(* The process ends with code zero only when nothing that was thrown went  *)
(* uncaught, the value OkError excepted: a command that was killed carries *)
(* no exit code, and is an error all the same.                             *)
(***************************************************************************)
ZeroMeansSuccess ==
  exit = "zero" => thrown \in {"nothing", "OkError"}

(***************************************************************************)
(* DoExit runs handlers "in reverse order (LIFO)", each once, and all that *)
(* were registered when the process ends by itself.                        *)
(***************************************************************************)
HandlersUndoInOrder ==
  /\ \A i \in DOMAIN handled : handled[i] = Len(handlers) + 1 - i
  /\ exit = "zero" => Len(handled) = Len(handlers)

(***************************************************************************)
(* The first signal ends the command a task is waiting for, or the tasks   *)
(* end before: Signal, Cancel, SIGINT to the group, WaitDelay.             *)
(***************************************************************************)
SignalEndsCommand ==
  (sent > 0 /\ watcher = "first" /\ cmd[Main].state = "running")
    ~> (cmd[Main].state # "running" \/ ~Alive)

(***************************************************************************)
(* A second signal ends the process, whatever main is doing: a command     *)
(* that does not end, or exit handlers stuck on the lock of DoExit.        *)
(***************************************************************************)
SecondSignalExits == (inbox /\ watcher # "first") ~> ~Alive

(***************************************************************************)
(* "Automatic cleanup via config.DoExit() on completion" (Makefile), and   *)
(* DoExit "is automatically called by Makefile() via defer".  os.Exit in   *)
(* HandleErrors skips what was deferred.                                   *)
(***************************************************************************)
CleanupOnCompletion == exit \in {"zero", "failure"} => Len(handled) = Len(handlers)
=============================================================================
