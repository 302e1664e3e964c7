----------------------- MODULE RsvgConvertRasterizer -----------------------
(***************************************************************************)
(* The default SVG rasteriser: every call of rasterize() spawns a child    *)
(* (rsvg-convert), feeds it the SVG from a background GCD worker, collects *)
(* its stdout and then its stderr, waits for the worker and for the child, *)
(* and returns a PNG or throws.                                            *)
(*                                                                         *)
(* A call has three processes: the caller (pc), the closure that writes    *)
(* stdin (writer), and the child, which is external to the repository and  *)
(* is modelled by what a program with three pipes can do.  Data are        *)
(* counted in chunks, PipeCap of which fill a pipe; what is in a pipe is   *)
(* the difference of what was put in and what was taken out.               *)
(***************************************************************************)
EXTENDS Integers, FiniteSets

CONSTANTS
  Calls,       \* concurrent calls of rasterize()
  PoolCallers, \* those made from a thread of the GCD pool itself
  Workers,     \* threads the global GCD queue may run at once
  PipeCap,     \* chunks a pipe holds
  SvgSize,     \* chunks of the SVG
  PngSize,     \* chunks of the complete PNG
  MaxErr       \* most chunks of diagnostics a child prints

ASSUME RasterizerAssumption ==
  /\ PoolCallers \subseteq Calls
  /\ Workers \in Nat \ {0}
  /\ PipeCap \in Nat \ {0}
  /\ SvgSize \in Nat
  /\ PngSize \in Nat \ {0}
  /\ MaxErr \in Nat

VARIABLES
  pc,           \* where the caller is in rasterize()
  writer,       \* where the stdin closure is
  child,        \* what the child is doing
  status,       \* how the child ended
  written,      \* SVG chunks put in the stdin pipe
  consumed,     \* SVG chunks the child took out of it
  produced,     \* PNG chunks the child put in the stdout pipe
  collected,    \* PNG chunks readDataToEndOfFile has returned so far
  errProduced,  \* diagnostics put in the stderr pipe
  errCollected, \* diagnostics read back
  writeError,   \* whether the ErrorBox holds an error
  outcome       \* what rasterize() returned or threw

vars == <<pc, writer, child, status, written, consumed, produced, collected,
          errProduced, errCollected, writeError, outcome>>

inVars   == <<written, consumed>>
outVars  == <<produced, collected>>
errVars  == <<errProduced, errCollected>>

CallerState == {"idle", "readStdout", "readStderr", "waitWriter", "waitExit",
                "returned"}
WriterState == {"none", "queued", "writing", "caught", "closed", "signalled"}
ChildState  == {"unborn", "running", "reading", "writingOut", "writingErr",
                "exited"}
Outcome     == {"none", "png", "launchError", "writeError", "exitError"}

Init ==
  /\ pc           = [c \in Calls |-> "idle"]
  /\ writer       = [c \in Calls |-> "none"]
  /\ child        = [c \in Calls |-> "unborn"]
  /\ status       = [c \in Calls |-> "none"]
  /\ written      = [c \in Calls |-> 0]
  /\ consumed     = [c \in Calls |-> 0]
  /\ produced     = [c \in Calls |-> 0]
  /\ collected    = [c \in Calls |-> 0]
  /\ errProduced  = [c \in Calls |-> 0]
  /\ errCollected = [c \in Calls |-> 0]
  /\ writeError   = [c \in Calls |-> FALSE]
  /\ outcome      = [c \in Calls |-> "none"]

(* The write end of the child's stdin is open until the closure closes it. *)
StdinOpen(c) == writer[c] \notin {"closed", "signalled"}

(* GCD threads in use: running closures, and callers that sit on one.      *)
BusyWorkers ==
  {<<"writer", c>> : c \in {d \in Calls : writer[d] \in {"writing", "caught", "closed"}}}
    \cup {<<"caller", c>> : c \in {d \in PoolCallers : pc[d] \notin {"idle", "returned"}}}

WorkerFree == Cardinality(BusyWorkers) < Workers

CallerAt(c, from, to) ==
  /\ pc[c] = from
  /\ pc' = [pc EXCEPT ![c] = to]

WriterAt(c, from, to) ==
  /\ writer[c] = from
  /\ writer' = [writer EXCEPT ![c] = to]

ChildAt(c, from, to) ==
  /\ child[c] = from
  /\ child' = [child EXCEPT ![c] = to]

-----------------------------------------------------------------------------
(* The caller.                                                             *)

(* process.run() succeeds and the closure is handed to the queue.          *)
Launch(c) ==
  /\ CallerAt(c, "idle", "readStdout")
  /\ c \in PoolCallers => WorkerFree
  /\ WriterAt(c, "none", "queued")
  /\ ChildAt(c, "unborn", "running")
  /\ UNCHANGED <<status, inVars, outVars, errVars, writeError, outcome>>

LaunchFails(c) ==
  /\ CallerAt(c, "idle", "returned")
  /\ outcome' = [outcome EXCEPT ![c] = "launchError"]
  /\ UNCHANGED <<writer, child, status, inVars, outVars, errVars, writeError>>

(* Mutant: the sequential write-then-read the code comments warn of.       *)
ReadStdoutAfterWriting(c) ==
  /\ pc[c] = "readStdout"
  /\ writer[c] = "signalled"
  /\ collected[c] < produced[c]
  /\ collected' = [collected EXCEPT ![c] = @ + 1]
  /\ UNCHANGED <<pc, writer, child, status, inVars, produced, errVars,
                 writeError, outcome>>

ReadStdout(c) ==
  /\ pc[c] = "readStdout"
  /\ collected[c] < produced[c]
  /\ collected' = [collected EXCEPT ![c] = @ + 1]
  /\ UNCHANGED <<pc, writer, child, status, inVars, produced, errVars,
                 writeError, outcome>>

(* readDataToEndOfFile returns at end of file: pipe empty, child gone.     *)
StdoutEOF(c) ==
  /\ collected[c] = produced[c]
  /\ child[c] = "exited"
  /\ CallerAt(c, "readStdout", "readStderr")
  /\ UNCHANGED <<writer, child, status, inVars, outVars, errVars, writeError,
                 outcome>>

ReadStderr(c) ==
  /\ pc[c] = "readStderr"
  /\ errCollected[c] < errProduced[c]
  /\ errCollected' = [errCollected EXCEPT ![c] = @ + 1]
  /\ UNCHANGED <<pc, writer, child, status, inVars, outVars, errProduced,
                 writeError, outcome>>

StderrEOF(c) ==
  /\ errCollected[c] = errProduced[c]
  /\ child[c] = "exited"
  /\ CallerAt(c, "readStderr", "waitWriter")
  /\ UNCHANGED <<writer, child, status, inVars, outVars, errVars, writeError,
                 outcome>>

(* Mutant: does not wait for the closure.                                  *)
SkipWaitWriter(c) ==
  /\ CallerAt(c, "waitWriter", "waitExit")
  /\ UNCHANGED <<writer, child, status, inVars, outVars, errVars, writeError,
                 outcome>>

(* writeSemaphore.wait() *)
WaitWriter(c) ==
  /\ writer[c] = "signalled"
  /\ CallerAt(c, "waitWriter", "waitExit")
  /\ UNCHANGED <<writer, child, status, inVars, outVars, errVars, writeError,
                 outcome>>

(* Mutant: returns stdout whatever the exit status.                        *)
WaitExitUnchecked(c) ==
  /\ child[c] = "exited"
  /\ CallerAt(c, "waitExit", "returned")
  /\ outcome' = [outcome EXCEPT ![c] =
       IF writeError[c] THEN "writeError" ELSE "png"]
  /\ UNCHANGED <<writer, child, status, inVars, outVars, errVars, writeError>>

(* waitUntilExit(), then the write error, then the exit status.            *)
WaitExit(c) ==
  /\ child[c] = "exited"
  /\ CallerAt(c, "waitExit", "returned")
  /\ outcome' = [outcome EXCEPT ![c] =
       IF writeError[c] THEN "writeError"
       ELSE IF status[c] # "success" THEN "exitError" ELSE "png"]
  /\ UNCHANGED <<writer, child, status, inVars, outVars, errVars, writeError>>

CallerStep(c) ==
  \/ ReadStdout(c) \/ StdoutEOF(c)
  \/ ReadStderr(c) \/ StderrEOF(c)
  \/ WaitWriter(c) \/ WaitExit(c)

-----------------------------------------------------------------------------
(* The closure on the background queue.                                    *)

WriterStart(c) ==
  /\ WorkerFree
  /\ WriterAt(c, "queued", "writing")
  /\ UNCHANGED <<pc, child, status, inVars, outVars, errVars, writeError,
                 outcome>>

(* write(contentsOf:) moves one chunk; it blocks on a full pipe.           *)
WriterWrite(c) ==
  /\ writer[c] = "writing"
  /\ child[c] # "exited"
  /\ written[c] < SvgSize
  /\ written[c] - consumed[c] < PipeCap
  /\ written' = [written EXCEPT ![c] = @ + 1]
  /\ UNCHANGED <<pc, writer, child, status, consumed, outVars, errVars,
                 writeError, outcome>>

WriterClose(c) ==
  /\ written[c] = SvgSize
  /\ WriterAt(c, "writing", "closed")
  /\ UNCHANGED <<pc, child, status, inVars, outVars, errVars, writeError,
                 outcome>>

(* write() into a pipe nobody reads fails (EPIPE), or close() fails; the   *)
(* catch clause puts the error in the box.                                 *)
WriterCatch(c) ==
  /\ child[c] = "exited" \/ written[c] = SvgSize
  /\ WriterAt(c, "writing", "caught")
  /\ writeError' = [writeError EXCEPT ![c] = TRUE]
  /\ UNCHANGED <<pc, child, status, inVars, outVars, errVars, outcome>>

(* try? stdinHandle.close() in the catch clause.                           *)
WriterCloseAfterError(c) ==
  /\ WriterAt(c, "caught", "closed")
  /\ UNCHANGED <<pc, child, status, inVars, outVars, errVars, writeError,
                 outcome>>

(* The deferred signal; the thread goes back to the pool.                  *)
WriterSignal(c) ==
  /\ WriterAt(c, "closed", "signalled")
  /\ UNCHANGED <<pc, child, status, inVars, outVars, errVars, writeError,
                 outcome>>

WriterStep(c) ==
  \/ WriterStart(c) \/ WriterWrite(c) \/ WriterClose(c)
  \/ WriterCatch(c) \/ WriterCloseAfterError(c) \/ WriterSignal(c)

-----------------------------------------------------------------------------
(* The child (external).  It decides what to do next while "running"; a    *)
(* system call it has entered blocks until the pipe lets it through.       *)

ChildBeginRead(c) ==
  /\ StdinOpen(c) \/ consumed[c] < written[c]
  /\ ChildAt(c, "running", "reading")
  /\ UNCHANGED <<pc, writer, status, inVars, outVars, errVars, writeError,
                 outcome>>

ChildRead(c) ==
  /\ consumed[c] < written[c]
  /\ ChildAt(c, "reading", "running")
  /\ consumed' = [consumed EXCEPT ![c] = @ + 1]
  /\ UNCHANGED <<pc, writer, status, written, outVars, errVars, writeError,
                 outcome>>

ChildReadEOF(c) ==
  /\ consumed[c] = written[c]
  /\ ~StdinOpen(c)
  /\ ChildAt(c, "reading", "running")
  /\ UNCHANGED <<pc, writer, status, inVars, outVars, errVars, writeError,
                 outcome>>

ChildBeginOut(c) ==
  /\ produced[c] < PngSize
  /\ ChildAt(c, "running", "writingOut")
  /\ UNCHANGED <<pc, writer, status, inVars, outVars, errVars, writeError,
                 outcome>>

ChildWriteOut(c) ==
  /\ produced[c] - collected[c] < PipeCap
  /\ ChildAt(c, "writingOut", "running")
  /\ produced' = [produced EXCEPT ![c] = @ + 1]
  /\ UNCHANGED <<pc, writer, status, inVars, collected, errVars, writeError,
                 outcome>>

ChildBeginErr(c) ==
  /\ errProduced[c] < MaxErr
  /\ ChildAt(c, "running", "writingErr")
  /\ UNCHANGED <<pc, writer, status, inVars, outVars, errVars, writeError,
                 outcome>>

ChildWriteErr(c) ==
  /\ errProduced[c] - errCollected[c] < PipeCap
  /\ ChildAt(c, "writingErr", "running")
  /\ errProduced' = [errProduced EXCEPT ![c] = @ + 1]
  /\ UNCHANGED <<pc, writer, status, inVars, outVars, errCollected,
                 writeError, outcome>>

(* Exit status 0 is the child's word that the whole PNG is written.        *)
ChildSucceed(c) ==
  /\ produced[c] = PngSize
  /\ ChildAt(c, "running", "exited")
  /\ status' = [status EXCEPT ![c] = "success"]
  /\ UNCHANGED <<pc, writer, inVars, outVars, errVars, writeError, outcome>>

ChildFail(c) ==
  /\ ChildAt(c, "running", "exited")
  /\ status' = [status EXCEPT ![c] = "failure"]
  /\ UNCHANGED <<pc, writer, inVars, outVars, errVars, writeError, outcome>>

(* A signal ends the child even inside a blocked system call.              *)
ChildKilled(c) ==
  /\ child[c] \in {"reading", "writingOut", "writingErr"}
  /\ child' = [child EXCEPT ![c] = "exited"]
  /\ status' = [status EXCEPT ![c] = "failure"]
  /\ UNCHANGED <<pc, writer, inVars, outVars, errVars, writeError, outcome>>

ChildStep(c) ==
  \/ ChildBeginRead(c) \/ ChildRead(c) \/ ChildReadEOF(c)
  \/ ChildBeginOut(c) \/ ChildWriteOut(c)
  \/ ChildBeginErr(c) \/ ChildWriteErr(c)
  \/ ChildSucceed(c) \/ ChildFail(c)

-----------------------------------------------------------------------------

CallStep(c) ==
  \/ Launch(c) \/ LaunchFails(c)
  \/ CallerStep(c) \/ WriterStep(c)
  \/ ChildStep(c) \/ ChildKilled(c)

(* The program may stop once no call is in progress.                       *)
Quiescent ==
  /\ \A c \in Calls : pc[c] = "returned"
  /\ UNCHANGED vars

Next == Quiescent \/ \E c \in Calls : CallStep(c)

(* Threads of the host and the child are scheduled; nobody is obliged to   *)
(* call rasterize(), nor to kill a child.                                  *)
Fairness ==
  \A c \in Calls :
    /\ WF_vars(CallerStep(c))
    /\ WF_vars(WriterStep(c))
    /\ WF_vars(ChildStep(c))

Spec == Init /\ [][Next]_vars

FairSpec == Spec /\ Fairness

-----------------------------------------------------------------------------
(* Correctness.                                                            *)

(* Caller, closure and child are at one of their statements, and no pipe   *)
(* is given more than there is: the SVG, the PNG, the diagnostics.         *)
TypeOK ==
  /\ pc \in [Calls -> CallerState]
  /\ writer \in [Calls -> WriterState]
  /\ child \in [Calls -> ChildState]
  /\ status \in [Calls -> {"none", "success", "failure"}]
  /\ written \in [Calls -> 0..SvgSize]
  /\ consumed \in [Calls -> 0..SvgSize]
  /\ produced \in [Calls -> 0..PngSize]
  /\ collected \in [Calls -> 0..PngSize]
  /\ errProduced \in [Calls -> 0..MaxErr]
  /\ errCollected \in [Calls -> 0..MaxErr]
  /\ writeError \in [Calls -> BOOLEAN]
  /\ outcome \in [Calls -> Outcome]

(* A returned PNG is the whole picture of the whole SVG: the child ended   *)
(* with status 0, everything it printed was read, all of the SVG was       *)
(* written (rasterize: the checks before `return stdout`).                 *)
PngIsComplete ==
  \A c \in Calls : outcome[c] = "png" =>
    /\ status[c] = "success"
    /\ collected[c] = PngSize
    /\ written[c] = SvgSize

(* The error for a nonzero exit carries all the child printed on stderr,   *)
(* although the caller starts to read stderr only when stdout has ended.   *)
DiagnosticsComplete ==
  \A c \in Calls : outcome[c] = "exitError" =>
    /\ status[c] = "failure"
    /\ errCollected[c] = errProduced[c]

(* When rasterize() comes back neither the child nor the closure is still  *)
(* at work, so no handle, thread or process of the call outlives it.       *)
NothingLeftBehind ==
  \A c \in Calls :
    pc[c] = "returned" /\ outcome[c] # "launchError" =>
      child[c] = "exited" /\ writer[c] = "signalled"

(* An error of the closure is never lost to the caller: the box is read    *)
(* after the semaphore, hence after the last moment it can be filled.      *)
WriteErrorReported ==
  \A c \in Calls :
    pc[c] = "returned" /\ writeError[c] => outcome[c] = "writeError"

(* Every call that launched its child comes back.  It holds when the       *)
(* child's diagnostics fit the stderr pipe (MaxErr <= PipeCap) and the     *)
(* pool callers leave a GCD thread to the closures.                        *)
Terminates ==
  \A c \in Calls : pc[c] = "readStdout" ~> pc[c] = "returned"

(* The protocol the implementation refines: the caller's program counter   *)
(* and outcome are its phase; its picture is what a PNG result holds.      *)
PhaseOf(c) ==
  IF pc[c] = "idle" THEN "before"
  ELSE IF pc[c] # "returned" THEN "running"
  ELSE IF outcome[c] = "png" THEN "png" ELSE "thrown"

PictureOf(c) == IF outcome[c] = "png" THEN collected[c] ELSE 0

Promise == INSTANCE SVGRasterizer WITH
  phase   <- [c \in Calls |-> PhaseOf(c)],
  picture <- [c \in Calls |-> PictureOf(c)]

(* Seen from outside, a call hands over a whole PNG or throws, once.       *)
RefinesPromise == Promise!Spec

(* The same with the promise that a call ends.                             *)
RefinesFairPromise == Promise!FairSpec

=============================================================================
