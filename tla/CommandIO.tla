----------------------------- MODULE CommandIO -----------------------------
(***************************************************************************)
(* What becomes of the output of a command: the options of run.Command     *)
(* (run/run.go) wire its stdout and stderr to writers, os/exec copies what *)
(* is printed, through the tees of stream/tee.go, while the command runs,  *)
(* is cancelled, or leaves processes behind (RunContext).                  *)
(*                                                                         *)
(* Output is counted in pieces: one print, copied as a whole.              *)
(***************************************************************************)
EXTENDS RunContext

CONSTANTS
  OptionLists,  \* what calls of Command are given
  MaxPrints     \* bound: what a command prints on each stream

Stream == {"stdout", "stderr"}

(***************************************************************************)
(* The writers: os.Stderr, the only one that is a file a child can be      *)
(* given; io.Discard; the file of Write; one of the caller's, which may    *)
(* fail; the buffer whose contents Command returns; the one whose contents *)
(* go into its error.                                                      *)
(***************************************************************************)
Writer == {"os.Stderr", "discard", "file", "callers", "returned", "in error"}

\* With config.Debug, Quiet does nothing: as if it were not given.
Option == [option : {"Quiet", "NoFail", "Write", "fails"}]
          \cup [option : Stream, writer : {"os.Stderr", "discard", "callers"}]

Wiring == [Stream -> SUBSET Writer]

ASSUME OptionAssumption ==
  /\ OptionLists \subseteq Seq(Option)
  /\ MaxPrints \in Nat

VARIABLE io  \* the output of each caller's latest command

ioVars == <<runVars, io>>

(***************************************************************************)
(* `to' is where each stream goes, `fails' whether an option failed, `got' *)
(* what each of its writers was given, `failed' those whose error ended    *)
(* the copying of the stream.                                              *)
(***************************************************************************)
Output ==
  { o \in [to : Wiring, fails : BOOLEAN, printed : [Stream -> 0..MaxPrints],
           got : [Stream -> UNION {[W -> 0..MaxPrints] : W \in SUBSET Writer}], failed : Wiring] :
      \A s \in Stream : DOMAIN o.got[s] = o.to[s] /\ o.failed[s] \subseteq o.to[s] }

NoOutput(to, fails) ==
  [to |-> to, fails |-> fails, printed |-> [s \in Stream |-> 0],
   got |-> [s \in Stream |-> [w \in to[s] |-> 0]], failed |-> [s \in Stream |-> {}]]

IOTypeOK == RunTypeOK /\ \A c \in Caller : io[c] \in Output

-----------------------------------------------------------------------------
(* Options.                                                                *)

\* The first option, of Command itself.
Defaults == [stdout |-> {"discard"}, stderr |-> {"os.Stderr"}]

\* Fault: stderr is kept for the error only if it was discarded.
CaptureDiscarded(to) ==
  [stdout |-> IF to.stdout = {"discard"} THEN {"returned"} ELSE to.stdout,
   stderr |-> IF to.stderr = {"discard"} THEN {"discard", "in error"} ELSE to.stderr]

\* The last option: return what would be discarded, and put into errors what is not shown.
Capture(to) ==
  [stdout |-> IF to.stdout = {"discard"} THEN {"returned"} ELSE to.stdout,
   stderr |-> IF to.stderr = {"os.Stderr"} THEN to.stderr ELSE to.stderr \cup {"in error"}]

Apply(o, to) ==
  CASE o.option \in Stream -> [to EXCEPT ![o.option] = {o.writer}]
    [] o.option = "Write"  -> [to EXCEPT !.stdout = @ \cup {"file"}]
    [] o.option = "Quiet"  -> [to EXCEPT !.stderr = IF @ = {"os.Stderr"} THEN {"discard"} ELSE @]
    [] OTHER               -> to

Wired(opts) ==
  LET to[i \in 0..Len(opts)] == IF i = 0 THEN Defaults ELSE Apply(opts[i], to[i - 1])
  IN  Capture(to[Len(opts)])

IsGiven(opts, option) == \E i \in DOMAIN opts : opts[i].option = option

\* os/exec copies what goes anywhere but to a file.
Copied(to, s) == to[s] # {"os.Stderr"}

\* A piece more for some of the writers.
Given(got, W) == [w \in DOMAIN got |-> IF w \in W THEN got[w] + 1 ELSE got[w]]

IOInit == RunInit /\ io = [c \in Caller |-> NoOutput(Defaults, FALSE)]

-----------------------------------------------------------------------------
\* Command up to and with its options.
Call(c) ==
  \E opts \in OptionLists :
    LET to == Wired(opts) IN
    /\ NewCommandWith(c, IsGiven(opts, "NoFail"), \E s \in Stream : Copied(to, s))
    /\ io' = [io EXCEPT ![c] = NoOutput(to, IsGiven(opts, "fails"))]

OptionFails(c) == io[c].fails /\ BadOption(c) /\ UNCHANGED io

Launch(c) == ~io[c].fails /\ (Start(c) \/ StartFails(c)) /\ UNCHANGED io

\* What takes what is printed on a stream: a file, or a pipe that is still read.
Open(c, s) == Copied(io[c].to, s) => ~cmd[c].late /\ io[c].failed[s] = {}

\* A process of the group prints: into the file it was given, or into the pipe.
Prints(c, s) ==
  /\ cmd[c].state = "running" /\ cmd[c].group # {}
  /\ io[c].printed[s] < MaxPrints
  /\ Open(c, s)
  /\ io' = [io EXCEPT ![c].printed[s] = @ + 1,
                      ![c].got[s] = IF Copied(io[c].to, s) THEN @ ELSE Given(@, DOMAIN @)]
  /\ UNCHANGED runVars

\* While no writer has failed, all have been given the same.
Unread(c, s) == \A w \in io[c].to[s] : io[c].got[s][w] < io[c].printed[s]

\* Those that may fail when written to: Write has closed its file, the caller's may.
Failures(to) == {F \in SUBSET (to \cap {"file", "callers"}) : "file" \in to => "file" \in F}

\* Fault: errors of writers are dropped.
TeeForgives(c, s, F) == io' = [io EXCEPT ![c].got[s] = Given(@, DOMAIN @ \ F)]

\* teeWriter.Write gives a piece to every writer, and returns the errors of those that
\* failed; one that takes less than it is given has to say so, as any io.Writer.
Tee(c, s, F) == io' = [io EXCEPT ![c].failed[s] = F, ![c].got[s] = Given(@, DOMAIN @ \ F)]

\* The goroutine of a stream copies until the pipe is closed or a writer fails.
Copy(c, s) ==
  /\ cmd[c].state = "running"
  /\ Copied(io[c].to, s) /\ Open(c, s) /\ Unread(c, s)
  /\ \E F \in Failures(io[c].to[s]) : Tee(c, s, F)
  /\ UNCHANGED runVars

\* c.Run returns when the copying of both streams has ended.
Finish(c) ==
  /\ \A s \in Stream :
       Copied(io[c].to, s) =>
         cmd[c].late \/ io[c].failed[s] # {} \/ (cmd[c].group = {} /\ ~Unread(c, s))
  /\ Returns(c, \E s \in Stream : io[c].failed[s] # {})
  /\ UNCHANGED io

\* What os/exec and the processes do of RunContext without regard to output.
Meanwhile(c) ==
  (Interrupt(c) \/ WaitDelay(c) \/ ProcessStep(c)) /\ UNCHANGED io

Contexts ==
  (Cancel \/ \E u \in UserCtx : SetContext(u) \/ UserCancel(u)) /\ UNCHANGED io

IONext ==
  \/ Contexts
  \/ \E c \in Caller :
       \/ Call(c) \/ OptionFails(c) \/ Launch(c) \/ Finish(c) \/ Meanwhile(c)
       \/ \E s \in Stream : Prints(c, s) \/ Copy(c, s)

IOSpec == IOInit /\ [][IONext]_ioVars

\* As in RunContext; the goroutines that copy are not held up by writers.
IOFairness ==
  \A c \in Caller :
    /\ WF_ioVars(Interrupt(c) /\ UNCHANGED io) /\ WF_ioVars(WaitDelay(c) /\ UNCHANGED io)
    /\ WF_ioVars(Finish(c)) /\ \A s \in Stream : WF_ioVars(Copy(c, s))

IOFairSpec == IOSpec /\ IOFairness
-----------------------------------------------------------------------------
(***************************************************************************)
(* Command "waits until completion, and returns stdout": when it returns   *)
(* no error, and NoFail has not hidden one, every writer an option named   *)
(* has all that was printed, and so has the string returned.               *)
(***************************************************************************)
NoSilentLoss ==
  \A c \in Caller :
    cmd[c].state = "done" /\ cmd[c].result = "ok" /\ ~cmd[c].noFail =>
      \A s \in Stream : \A w \in io[c].to[s] : io[c].got[s][w] = io[c].printed[s]

(***************************************************************************)
(* A command that ran and failed leaves a trace: what it printed on stderr *)
(* was shown, or is in the error, whatever the options and their order; a  *)
(* writer of the caller's that fails takes away only what comes after.  Of *)
(* a command that WaitDelay cut off what was in the pipes is lost, and the *)
(* error says only that: those are left out.                               *)
(***************************************************************************)
FailureExplained ==
  \A c \in Caller :
    cmd[c].state = "done" /\ cmd[c].result = "error" /\ cmd[c].exit # "none" /\ ~cmd[c].late =>
      \E w \in io[c].to["stderr"] \cap {"os.Stderr", "in error"} :
        \/ io[c].got["stderr"][w] = io[c].printed["stderr"]
        \/ \E v \in io[c].failed["stderr"] : io[c].got["stderr"][v] < io[c].got["stderr"][w]

(***************************************************************************)
(* "Write redirects stdout to a file": when a command has ended well and   *)
(* undisturbed, the file has what it printed.                              *)
(***************************************************************************)
WriteRedirects ==
  \A c \in Caller :
    /\ cmd[c].state = "done" /\ cmd[c].exit = "zero" /\ ~cmd[c].hit /\ ~cmd[c].late
    /\ "file" \in io[c].to["stdout"]
    => io[c].got["stdout"]["file"] = io[c].printed["stdout"]
=============================================================================
