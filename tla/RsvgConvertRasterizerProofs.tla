-------------------- MODULE RsvgConvertRasterizerProofs --------------------
(***************************************************************************)
(* Proofs about the SVG rasteriser, for any number of concurrent calls,    *)
(* pool threads, pipe capacity and sizes.                                  *)
(***************************************************************************)
EXTENDS RsvgConvertRasterizer, TLAPS

(* A child inside write() still has a chunk of its budget to write: what   *)
(* keeps the counters of the pipes in range.                               *)
InWrite(c) ==
  /\ child[c] = "writingOut" => produced[c] < PngSize
  /\ child[c] = "writingErr" => errProduced[c] < MaxErr

TypeInv == TypeOK /\ \A c \in Calls : InWrite(c)

(* What the position of the three processes of a call says of its data.    *)
ChildInv(c) ==
  /\ status[c] = "none" <=> child[c] # "exited"
  /\ status[c] = "success" => produced[c] = PngSize

WriterInv(c) ==
  /\ writer[c] = "caught" => writeError[c]
  /\ StdinOpen(c) \/ writeError[c] \/ written[c] = SvgSize

CallerInv(c) ==
  /\ pc[c] \in {"readStderr", "waitWriter", "waitExit"} =>
       child[c] = "exited" /\ collected[c] = produced[c]
  /\ pc[c] \in {"waitWriter", "waitExit"} => errCollected[c] = errProduced[c]
  /\ pc[c] = "waitExit" => writer[c] = "signalled"

NotLaunchedInv(c) ==
  pc[c] = "idle" \/ outcome[c] = "launchError" =>
    child[c] = "unborn" /\ writer[c] = "none" /\ ~writeError[c]

ReturnedInv(c) ==
  /\ outcome[c] = "none" <=> pc[c] # "returned"
  /\ outcome[c] \in {"png", "writeError", "exitError"} =>
       /\ child[c] = "exited" /\ writer[c] = "signalled"
       /\ collected[c] = produced[c] /\ errCollected[c] = errProduced[c]
       /\ writeError[c] <=> outcome[c] = "writeError"
       /\ outcome[c] = "png" => status[c] = "success"
       /\ outcome[c] = "exitError" => status[c] = "failure"

CallInv(c) ==
  /\ ChildInv(c)
  /\ WriterInv(c)
  /\ CallerInv(c)
  /\ NotLaunchedInv(c)
  /\ ReturnedInv(c)

IInv == TypeInv /\ \A c \in Calls : CallInv(c)

-----------------------------------------------------------------------------

(* Every variable keeps its type: no counter leaves its range, in          *)
(* particular nothing is read from a pipe that was not put into it.        *)
LEMMA InitTypeInv == Init => TypeInv
  BY RasterizerAssumption
  DEF Init, TypeInv, InWrite, TypeOK, CallerState, WriterState, ChildState, Outcome

(* A step of any of the three processes keeps every variable in its type.  *)
LEMMA StepTypeInv ==
  ASSUME TypeInv, [Next]_vars
  PROVE  TypeInv'
<1> USE RasterizerAssumption
        DEF TypeInv, InWrite, TypeOK, CallerState, WriterState, ChildState, Outcome,
            inVars, outVars, errVars
<1>1. ASSUME NEW c \in Calls, CallStep(c)
      PROVE  TypeInv'
  <2>1. CASE Launch(c)
    BY <2>1 DEF Launch, CallerAt, WriterAt, ChildAt
  <2>2. CASE LaunchFails(c)
    BY <2>2 DEF LaunchFails, CallerAt
  <2>3. CASE ReadStdout(c)
    BY <2>3 DEF ReadStdout
  <2>4. CASE StdoutEOF(c)
    BY <2>4 DEF StdoutEOF, CallerAt
  <2>5. CASE ReadStderr(c)
    BY <2>5 DEF ReadStderr
  <2>6. CASE StderrEOF(c)
    BY <2>6 DEF StderrEOF, CallerAt
  <2>7. CASE WaitWriter(c)
    BY <2>7 DEF WaitWriter, CallerAt
  <2>8. CASE WaitExit(c)
    BY <2>8 DEF WaitExit, CallerAt
  <2>9. CASE WriterStart(c)
    BY <2>9 DEF WriterStart, WriterAt
  <2>10. CASE WriterWrite(c)
    BY <2>10 DEF WriterWrite
  <2>11. CASE WriterClose(c)
    BY <2>11 DEF WriterClose, WriterAt
  <2>12. CASE WriterCatch(c)
    BY <2>12 DEF WriterCatch, WriterAt
  <2>13. CASE WriterCloseAfterError(c)
    BY <2>13 DEF WriterCloseAfterError, WriterAt
  <2>14. CASE WriterSignal(c)
    BY <2>14 DEF WriterSignal, WriterAt
  <2>15. CASE ChildBeginRead(c)
    BY <2>15 DEF ChildBeginRead, ChildAt
  <2>16. CASE ChildRead(c)
    BY <2>16 DEF ChildRead, ChildAt
  <2>17. CASE ChildReadEOF(c)
    BY <2>17 DEF ChildReadEOF, ChildAt
  <2>18. CASE ChildBeginOut(c)
    BY <2>18 DEF ChildBeginOut, ChildAt
  <2>19. CASE ChildWriteOut(c)
    BY <2>19 DEF ChildWriteOut, ChildAt
  <2>20. CASE ChildBeginErr(c)
    BY <2>20 DEF ChildBeginErr, ChildAt
  <2>21. CASE ChildWriteErr(c)
    BY <2>21 DEF ChildWriteErr, ChildAt
  <2>22. CASE ChildSucceed(c)
    BY <2>22 DEF ChildSucceed, ChildAt
  <2>23. CASE ChildFail(c)
    BY <2>23 DEF ChildFail, ChildAt
  <2>24. CASE ChildKilled(c)
    BY <2>24 DEF ChildKilled
  <2>25. QED
    BY <1>1, <2>1, <2>2, <2>3, <2>4, <2>5, <2>6, <2>7, <2>8, <2>9, <2>10, <2>11, <2>12, <2>13, <2>14, <2>15, <2>16, <2>17, <2>18, <2>19, <2>20, <2>21, <2>22, <2>23, <2>24
       DEF CallStep, CallerStep, WriterStep, ChildStep
<1>2. CASE UNCHANGED vars
  BY <1>2 DEF vars
<1>3. QED
  BY <1>1, <1>2 DEF Next, Quiescent

(* The rasteriser's state is always of its type.                           *)
THEOREM TypeCorrect == Spec => []TypeOK
<1>1. TypeInv => TypeOK
  BY DEF TypeInv
<1>2. QED
  BY <1>1, InitTypeInv, StepTypeInv, PTL DEF Spec

-----------------------------------------------------------------------------

(* Before any call is made there is nothing to account for.                *)
LEMMA InitIInv == Init => IInv
<1>1. ASSUME Init PROVE \A c \in Calls : CallInv(c)
  BY <1>1 DEF Init, CallInv, ChildInv, WriterInv, StdinOpen, CallerInv,
              NotLaunchedInv, ReturnedInv
<1>2. QED
  BY <1>1, InitTypeInv DEF IInv

(* A step of one call keeps the invariant of every call.                   *)
LEMMA StepCallInv ==
  ASSUME IInv, [Next]_vars, NEW d \in Calls
  PROVE  CallInv(d)'
<1> USE RasterizerAssumption
        DEF TypeOK, CallerState, WriterState, ChildState, Outcome,
            InWrite, CallInv, ChildInv, WriterInv, StdinOpen, CallerInv,
            NotLaunchedInv, ReturnedInv, inVars, outVars, errVars
<1>a. CallInv(d) /\ TypeOK /\ InWrite(d)
  BY DEF IInv, TypeInv
<1>1. ASSUME NEW c \in Calls, CallStep(c)
      PROVE  CallInv(d)'
  <2>1. CASE Launch(c)
    BY <2>1, <1>a DEF Launch, CallerAt, WriterAt, ChildAt
  <2>2. CASE LaunchFails(c)
    BY <2>2, <1>a DEF LaunchFails, CallerAt
  <2>3. CASE ReadStdout(c)
    BY <2>3, <1>a DEF ReadStdout
  <2>4. CASE StdoutEOF(c)
    BY <2>4, <1>a DEF StdoutEOF, CallerAt
  <2>5. CASE ReadStderr(c)
    BY <2>5, <1>a DEF ReadStderr
  <2>6. CASE StderrEOF(c)
    BY <2>6, <1>a DEF StderrEOF, CallerAt
  <2>7. CASE WaitWriter(c)
    BY <2>7, <1>a DEF WaitWriter, CallerAt
  <2>8. CASE WaitExit(c)
    BY <2>8, <1>a DEF WaitExit, CallerAt
  <2>9. CASE WriterStart(c)
    BY <2>9, <1>a DEF WriterStart, WriterAt
  <2>10. CASE WriterWrite(c)
    BY <2>10, <1>a DEF WriterWrite
  <2>11. CASE WriterClose(c)
    BY <2>11, <1>a DEF WriterClose, WriterAt
  <2>12. CASE WriterCatch(c)
    BY <2>12, <1>a DEF WriterCatch, WriterAt
  <2>13. CASE WriterCloseAfterError(c)
    BY <2>13, <1>a DEF WriterCloseAfterError, WriterAt
  <2>14. CASE WriterSignal(c)
    BY <2>14, <1>a DEF WriterSignal, WriterAt
  <2>15. CASE ChildBeginRead(c)
    BY <2>15, <1>a DEF ChildBeginRead, ChildAt
  <2>16. CASE ChildRead(c)
    BY <2>16, <1>a DEF ChildRead, ChildAt
  <2>17. CASE ChildReadEOF(c)
    BY <2>17, <1>a DEF ChildReadEOF, ChildAt
  <2>18. CASE ChildBeginOut(c)
    BY <2>18, <1>a DEF ChildBeginOut, ChildAt
  <2>19. CASE ChildWriteOut(c)
    BY <2>19, <1>a DEF ChildWriteOut, ChildAt
  <2>20. CASE ChildBeginErr(c)
    BY <2>20, <1>a DEF ChildBeginErr, ChildAt
  <2>21. CASE ChildWriteErr(c)
    BY <2>21, <1>a DEF ChildWriteErr, ChildAt
  <2>22. CASE ChildSucceed(c)
    BY <2>22, <1>a DEF ChildSucceed, ChildAt
  <2>23. CASE ChildFail(c)
    BY <2>23, <1>a DEF ChildFail, ChildAt
  <2>24. CASE ChildKilled(c)
    BY <2>24, <1>a DEF ChildKilled
  <2>25. QED
    BY <1>1, <2>1, <2>2, <2>3, <2>4, <2>5, <2>6, <2>7, <2>8, <2>9, <2>10, <2>11, <2>12, <2>13, <2>14, <2>15, <2>16, <2>17, <2>18, <2>19, <2>20, <2>21, <2>22, <2>23, <2>24
       DEF CallStep, CallerStep, WriterStep, ChildStep
<1>2. CASE UNCHANGED vars
  BY <1>2, <1>a DEF vars
<1>3. QED
  BY <1>1, <1>2 DEF Next, Quiescent

(* Both halves of the invariant survive a step.                            *)
LEMMA StepIInv == IInv /\ [Next]_vars => IInv'
  BY StepTypeInv, StepCallInv DEF IInv

(* The strengthened invariant holds in every reachable state.              *)
LEMMA AlwaysIInv == Spec => []IInv
  BY InitIInv, StepIInv, PTL DEF Spec

-----------------------------------------------------------------------------

(* A PNG result is the whole picture of the whole SVG.                     *)
THEOREM PngResultComplete == Spec => []PngIsComplete
<1>1. IInv => PngIsComplete
  BY DEF IInv, TypeInv, TypeOK, CallInv, ChildInv, WriterInv, StdinOpen,
         ReturnedInv, PngIsComplete
<1>2. QED
  BY <1>1, AlwaysIInv, PTL

(* The exit error holds all of stderr.                                     *)
THEOREM ExitErrorComplete == Spec => []DiagnosticsComplete
<1>1. IInv => DiagnosticsComplete
  BY DEF IInv, CallInv, ReturnedInv, DiagnosticsComplete
<1>2. QED
  BY <1>1, AlwaysIInv, PTL

(* Neither child nor closure outlives the call.                            *)
THEOREM CallCleansUp == Spec => []NothingLeftBehind
<1>1. IInv => NothingLeftBehind
  BY DEF IInv, TypeInv, TypeOK, Outcome, CallInv, ReturnedInv,
         NothingLeftBehind
<1>2. QED
  BY <1>1, AlwaysIInv, PTL

(* An error of the closure reaches the caller.                             *)
THEOREM WriteErrorSurfaces == Spec => []WriteErrorReported
<1>1. IInv => WriteErrorReported
  BY DEF IInv, TypeInv, TypeOK, Outcome, CallInv, NotLaunchedInv,
         ReturnedInv, WriteErrorReported
<1>2. QED
  BY <1>1, AlwaysIInv, PTL

-----------------------------------------------------------------------------

(* Before a call begins the promise has not begun either.                  *)
LEMMA InitRefines == Init => Promise!Init
  BY DEF Init, Promise!Init, PhaseOf, PictureOf

(* What a step that leaves phase and picture of every call alone is.       *)
LEMMA InvisibleStep ==
  ASSUME \A d \in Calls : PhaseOf(d)' = PhaseOf(d) /\ PictureOf(d)' = PictureOf(d)
  PROVE  UNCHANGED Promise!vars
  BY DEF Promise!vars

(* Every step of a call is a step of the promise or invisible to it.       *)
LEMMA StepRefines ==
  ASSUME IInv, IInv', [Next]_vars
  PROVE  [Promise!Next]_(Promise!vars)
<1> USE RasterizerAssumption
        DEF TypeOK, CallerState, Outcome, inVars, outVars, errVars
<1>a. /\ TypeOK /\ TypeOK'
      /\ \A c \in Calls : ReturnedInv(c) /\ ReturnedInv(c)'
      /\ \A c \in Calls : ChildInv(c)
  BY DEF IInv, TypeInv, CallInv
<1> DEFINE Same(d) ==
      PhaseOf(d)' = PhaseOf(d) /\ PictureOf(d)' = PictureOf(d)
<1>1. ASSUME NEW c \in Calls, CallStep(c)
      PROVE  [Promise!Next]_(Promise!vars)
  <2>1. CASE Launch(c)
    <3>1. /\ PhaseOf(c) = "before" /\ PhaseOf(c)' = "running"
         /\ PictureOf(c)' = PictureOf(c)
         /\ \A d \in Calls \ {c} : Same(d)
      BY <2>1, <1>a
         DEF Launch, CallerAt, ReturnedInv, ChildInv, PhaseOf, PictureOf
    <3>2. Promise!Begin(c)
      BY <3>1 DEF Promise!Begin
    <3>3. QED
      BY <3>2 DEF Promise!Next
  <2>2. CASE LaunchFails(c)
    <3>1. /\ PhaseOf(c) = "before" /\ PhaseOf(c)' = "thrown"
         /\ PictureOf(c)' = PictureOf(c)
         /\ \A d \in Calls \ {c} : Same(d)
      BY <2>2, <1>a
         DEF LaunchFails, CallerAt, ReturnedInv, ChildInv, PhaseOf, PictureOf
    <3>2. Promise!Throw(c)
      BY <3>1 DEF Promise!Throw
    <3>3. QED
      BY <3>2 DEF Promise!Next
  <2>3. CASE ReadStdout(c)
    <3>1. \A d \in Calls : Same(d)
      BY <2>3, <1>a DEF ReadStdout, ReturnedInv, PhaseOf, PictureOf
    <3>2. QED
      BY <3>1, InvisibleStep
  <2>4. CASE StdoutEOF(c)
    <3>1. \A d \in Calls : Same(d)
      BY <2>4, <1>a DEF StdoutEOF, CallerAt, ReturnedInv, PhaseOf, PictureOf
    <3>2. QED
      BY <3>1, InvisibleStep
  <2>5. CASE ReadStderr(c)
    <3>1. \A d \in Calls : Same(d)
      BY <2>5, <1>a DEF ReadStderr, ReturnedInv, PhaseOf, PictureOf
    <3>2. QED
      BY <3>1, InvisibleStep
  <2>6. CASE StderrEOF(c)
    <3>1. \A d \in Calls : Same(d)
      BY <2>6, <1>a DEF StderrEOF, CallerAt, ReturnedInv, PhaseOf, PictureOf
    <3>2. QED
      BY <3>1, InvisibleStep
  <2>7. CASE WaitWriter(c)
    <3>1. \A d \in Calls : Same(d)
      BY <2>7, <1>a DEF WaitWriter, CallerAt, ReturnedInv, PhaseOf, PictureOf
    <3>2. QED
      BY <3>1, InvisibleStep
  <2>8. CASE WaitExit(c)
    <3>1. CASE outcome'[c] = "png"
      <4>1. /\ PhaseOf(c) = "running" /\ PhaseOf(c)' = "png"
           /\ PictureOf(c)' = PngSize
           /\ \A d \in Calls \ {c} : Same(d)
        BY <2>8, <3>1, <1>a
           DEF WaitExit, CallerAt, ReturnedInv, ChildInv, PhaseOf, PictureOf
      <4>2. Promise!Deliver(c)
        BY <4>1 DEF Promise!Deliver
      <4>3. QED
        BY <4>2 DEF Promise!Next
    <3>2. CASE outcome'[c] # "png"
      <4>1. /\ PhaseOf(c) = "running" /\ PhaseOf(c)' = "thrown"
           /\ PictureOf(c)' = PictureOf(c)
           /\ \A d \in Calls \ {c} : Same(d)
        BY <2>8, <3>2, <1>a
           DEF WaitExit, CallerAt, ReturnedInv, ChildInv, PhaseOf, PictureOf
      <4>2. Promise!Throw(c)
        BY <4>1 DEF Promise!Throw
      <4>3. QED
        BY <4>2 DEF Promise!Next
    <3>3. QED
      BY <3>1, <3>2
  <2>9. CASE WriterStart(c)
    <3>1. \A d \in Calls : Same(d)
      BY <2>9, <1>a DEF WriterStart, WriterAt, ReturnedInv, PhaseOf, PictureOf
    <3>2. QED
      BY <3>1, InvisibleStep
  <2>10. CASE WriterWrite(c)
    <3>1. \A d \in Calls : Same(d)
      BY <2>10, <1>a DEF WriterWrite, ReturnedInv, PhaseOf, PictureOf
    <3>2. QED
      BY <3>1, InvisibleStep
  <2>11. CASE WriterClose(c)
    <3>1. \A d \in Calls : Same(d)
      BY <2>11, <1>a DEF WriterClose, WriterAt, ReturnedInv, PhaseOf, PictureOf
    <3>2. QED
      BY <3>1, InvisibleStep
  <2>12. CASE WriterCatch(c)
    <3>1. \A d \in Calls : Same(d)
      BY <2>12, <1>a DEF WriterCatch, WriterAt, ReturnedInv, PhaseOf, PictureOf
    <3>2. QED
      BY <3>1, InvisibleStep
  <2>13. CASE WriterCloseAfterError(c)
    <3>1. \A d \in Calls : Same(d)
      BY <2>13, <1>a DEF WriterCloseAfterError, WriterAt, ReturnedInv, PhaseOf, PictureOf
    <3>2. QED
      BY <3>1, InvisibleStep
  <2>14. CASE WriterSignal(c)
    <3>1. \A d \in Calls : Same(d)
      BY <2>14, <1>a DEF WriterSignal, WriterAt, ReturnedInv, PhaseOf, PictureOf
    <3>2. QED
      BY <3>1, InvisibleStep
  <2>15. CASE ChildBeginRead(c)
    <3>1. \A d \in Calls : Same(d)
      BY <2>15, <1>a DEF ChildBeginRead, ChildAt, ReturnedInv, PhaseOf, PictureOf
    <3>2. QED
      BY <3>1, InvisibleStep
  <2>16. CASE ChildRead(c)
    <3>1. \A d \in Calls : Same(d)
      BY <2>16, <1>a DEF ChildRead, ChildAt, ReturnedInv, PhaseOf, PictureOf
    <3>2. QED
      BY <3>1, InvisibleStep
  <2>17. CASE ChildReadEOF(c)
    <3>1. \A d \in Calls : Same(d)
      BY <2>17, <1>a DEF ChildReadEOF, ChildAt, ReturnedInv, PhaseOf, PictureOf
    <3>2. QED
      BY <3>1, InvisibleStep
  <2>18. CASE ChildBeginOut(c)
    <3>1. \A d \in Calls : Same(d)
      BY <2>18, <1>a DEF ChildBeginOut, ChildAt, ReturnedInv, PhaseOf, PictureOf
    <3>2. QED
      BY <3>1, InvisibleStep
  <2>19. CASE ChildWriteOut(c)
    <3>1. \A d \in Calls : Same(d)
      BY <2>19, <1>a DEF ChildWriteOut, ChildAt, ReturnedInv, PhaseOf, PictureOf
    <3>2. QED
      BY <3>1, InvisibleStep
  <2>20. CASE ChildBeginErr(c)
    <3>1. \A d \in Calls : Same(d)
      BY <2>20, <1>a DEF ChildBeginErr, ChildAt, ReturnedInv, PhaseOf, PictureOf
    <3>2. QED
      BY <3>1, InvisibleStep
  <2>21. CASE ChildWriteErr(c)
    <3>1. \A d \in Calls : Same(d)
      BY <2>21, <1>a DEF ChildWriteErr, ChildAt, ReturnedInv, PhaseOf, PictureOf
    <3>2. QED
      BY <3>1, InvisibleStep
  <2>22. CASE ChildSucceed(c)
    <3>1. \A d \in Calls : Same(d)
      BY <2>22, <1>a DEF ChildSucceed, ChildAt, ReturnedInv, PhaseOf, PictureOf
    <3>2. QED
      BY <3>1, InvisibleStep
  <2>23. CASE ChildFail(c)
    <3>1. \A d \in Calls : Same(d)
      BY <2>23, <1>a DEF ChildFail, ChildAt, ReturnedInv, PhaseOf, PictureOf
    <3>2. QED
      BY <3>1, InvisibleStep
  <2>24. CASE ChildKilled(c)
    <3>1. \A d \in Calls : Same(d)
      BY <2>24, <1>a DEF ChildKilled, ReturnedInv, PhaseOf, PictureOf
    <3>2. QED
      BY <3>1, InvisibleStep
  <2>25. QED
    BY <1>1, <2>1, <2>2, <2>3, <2>4, <2>5, <2>6, <2>7, <2>8, <2>9, <2>10, <2>11, <2>12, <2>13, <2>14, <2>15, <2>16, <2>17, <2>18, <2>19, <2>20, <2>21, <2>22, <2>23, <2>24
       DEF CallStep, CallerStep, WriterStep, ChildStep
<1>2. CASE UNCHANGED vars
  <2>1. \A d \in Calls : Same(d)
    BY <1>2 DEF vars, PhaseOf, PictureOf
  <2>2. QED
    BY <2>1, InvisibleStep
<1>3. QED
  BY <1>1, <1>2 DEF Next, Quiescent

(* rasterize() keeps the safety part of the protocol's promise.            *)
THEOREM KeepsPromise == Spec => RefinesPromise
<1>1. IInv /\ IInv' /\ [Next]_vars => [Promise!Next]_(Promise!vars)
  BY StepRefines
<1>2. QED
  BY <1>1, InitRefines, AlwaysIInv, PTL
     DEF Spec, RefinesPromise, Promise!Spec

=============================================================================
