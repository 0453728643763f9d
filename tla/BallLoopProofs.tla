--------------------------- MODULE BallLoopProofs ---------------------------
(***************************************************************************)
(* What holds of the ball's nested sd-event loops for any set of event     *)
(* sources of the backend.                                                 *)
(***************************************************************************)
EXTENDS BallLoop, TLAPS

\* Where the outer loop is tells what it may have done to the inner one.
InStep ==
  /\ pc = "dispatch" => loop = "pending"
  /\ pc = "check" => loop # "initial"
  /\ pc = "asleep" /\ attached => loop # "initial"
  /\ loop = "pending" => queued # {}
  /\ OnlyLeftoversDisable

\* A loop that is prepared watches what is enabled, and only a loop that is
\* prepared ever gets the backend disabled.
Watched ==
  /\ loop # "initial" => wanted \subseteq watched
  /\ ~attached => loop # "initial"

IInv == TypeOK /\ InStep /\ Watched

LEMMA Invariance == Spec => []IInv
<1>1. Init => IInv
  BY DEF Init, LoopInit, IInv, TypeOK, LoopTypeOK, InStep, Watched, OnlyLeftoversDisable
<1>2. IInv /\ [Next]_vars => IInv'
  <2> SUFFICES ASSUME IInv, [Next]_vars PROVE IInv'
    OBVIOUS
  <2> USE DEF IInv, TypeOK, LoopTypeOK, InStep, Watched, OnlyLeftoversDisable, loopVars, callVars
  <2>0. UNCHANGED bursts
    BY DEF Next, vars
  <2>1. CASE Prepare
    BY <2>0, <2>1 DEF Prepare, cc_event_prepare, SdEventPrepare
  <2>2. CASE Wake \/ OtherHandler
    BY <2>0, <2>2 DEF Wake, OtherHandler
  <2>3. CASE Check
    BY <2>0, <2>3 DEF Check, cc_event_check, SdEventWait
  <2>4. CASE Dispatch
    BY <2>0, <2>4 DEF Dispatch, cc_event_dispatch, SdEventDispatch
  <2>5. CASE SourceFires
    BY <2>0, <2>5 DEF SourceFires, Fire
  <2>6. CASE UNCHANGED vars
    BY <2>0, <2>6 DEF vars
  <2> QED
    BY <2>1, <2>2, <2>3, <2>4, <2>5, <2>6 DEF Next, OuterLoop
<1> QED
  BY <1>1, <1>2, PTL DEF Spec

\* The ball is disabled only by its check of a loop with work left over.
THEOREM BallLosesLeftovers == Spec => []OnlyLeftoversDisable
<1>1. IInv => OnlyLeftoversDisable
  BY DEF IInv, InStep
<1> QED
  BY <1>1, Invariance, PTL

\* The type invariant.
THEOREM BallLoopTypes == Spec => []TypeOK
<1>1. IInv => TypeOK
  BY DEF IInv
<1> QED
  BY <1>1, Invariance, PTL

\* The ball may poll the descriptor of the backend at any time: what it did not
\* watch would wake nobody.
THEOREM BallWatches == Spec => []NeverSleepsUnwatched
<1>1. IInv => NeverSleepsUnwatched
  BY DEF IInv, InStep, Watched, NeverSleepsUnwatched
<1> QED
  BY <1>1, Invariance, PTL

-----------------------------------------------------------------------------
(* One source at a time. *)

\* At most one source has fired, and it is dispatched before the loop is
\* prepared again.
OneAtATime ==
  ~bursts =>
    /\ \A s, t \in queued : s = t
    /\ \A s, t \in due \ queued : s = t
    /\ loop # "pending" => queued = {}
    /\ pc \in {"prepare", "asleep", "check"} => loop # "pending"
    /\ pc = "check" => loop = "armed"
    /\ NeverBusy
    /\ attached

LEMMA OneAtATimeInvariance == Spec => [](IInv /\ OneAtATime)
<1>1. Init => OneAtATime
  BY DEF Init, LoopInit, OneAtATime, NeverBusy
<1>2. ASSUME IInv, IInv', OneAtATime, [Next]_vars PROVE OneAtATime'
  <2> USE <1>2 DEF IInv, TypeOK, LoopTypeOK, InStep, OneAtATime, NeverBusy, loopVars, callVars
  <2>0. UNCHANGED bursts
    BY DEF Next, vars
  <2>1. CASE Prepare
    BY <2>0, <2>1 DEF Prepare, cc_event_prepare, SdEventPrepare
  <2>2. CASE Wake \/ OtherHandler
    BY <2>0, <2>2 DEF Wake, OtherHandler
  <2>3. CASE Check
    BY <2>0, <2>3 DEF Check, cc_event_check, SdEventWait
  <2>4. CASE Dispatch
    BY <2>0, <2>4 DEF Dispatch, cc_event_dispatch, SdEventDispatch
  <2>5. CASE SourceFires
    BY <2>0, <2>5 DEF SourceFires, Fire
  <2>6. CASE UNCHANGED vars
    BY <2>0, <2>6 DEF vars
  <2> QED
    BY <2>1, <2>2, <2>3, <2>4, <2>5, <2>6 DEF Next, OuterLoop
<1> QED
  BY <1>1, <1>2, Invariance, PTL DEF Spec

\* If no two sources of the backend ever fire together, the ball never meets
\* -EBUSY: bursts are what its embedding cannot take.
THEOREM OneAtATimeWorks == Spec => []SingleEventsNeverBusy
<1>1. OneAtATime => SingleEventsNeverBusy
  BY DEF OneAtATime, SingleEventsNeverBusy
<1> QED
  BY <1>1, OneAtATimeInvariance, PTL
=============================================================================
