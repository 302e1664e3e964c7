--------------------------- MODULE SVGRasterizer ---------------------------
(***************************************************************************)
(* What the protocol SVGRasterizer promises its caller: a call of          *)
(* rasterize() ends once, either with a whole PNG or by throwing, and it   *)
(* does end.                                                               *)
(***************************************************************************)
EXTENDS Naturals

CONSTANTS
  Calls,    \* calls of rasterize()
  PngSize   \* chunks of a complete PNG

VARIABLES
  phase,    \* "before", "running", "png" or "thrown"
  picture   \* chunks of PNG handed to the caller

vars == <<phase, picture>>

Init ==
  /\ phase = [c \in Calls |-> "before"]
  /\ picture = [c \in Calls |-> 0]

Begin(c) ==
  /\ phase[c] = "before"
  /\ phase' = [phase EXCEPT ![c] = "running"]
  /\ UNCHANGED picture

Deliver(c) ==
  /\ phase[c] = "running"
  /\ phase' = [phase EXCEPT ![c] = "png"]
  /\ picture' = [picture EXCEPT ![c] = PngSize]

(* A call may also throw before anything runs (the launch failed).         *)
Throw(c) ==
  /\ phase[c] \in {"before", "running"}
  /\ phase' = [phase EXCEPT ![c] = "thrown"]
  /\ UNCHANGED picture

Next == \E c \in Calls : Begin(c) \/ Deliver(c) \/ Throw(c)

(* A call that has begun ends.                                             *)
Fairness ==
  \A c \in Calls : WF_vars(phase[c] = "running" /\ (Deliver(c) \/ Throw(c)))

Spec == Init /\ [][Next]_vars

FairSpec == Spec /\ Fairness

=============================================================================
