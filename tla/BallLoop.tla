------------------------------ MODULE BallLoop ------------------------------
(***************************************************************************)
(* The backend loop embedded into another sd-event loop (ball.c,           *)
(* backend_event_prepare and backend_event_dispatch): the outer loop polls *)
(* the descriptor of the inner one, has it prepared before each poll, and  *)
(* disables a source whose callback returns an error.                      *)
(***************************************************************************)
EXTENDS EventLoop

VARIABLES
  pc,         \* where the outer loop is in its iteration
  attached,   \* ball_data.backend_source is enabled
  bursts      \* two sources may fire before the loop has looked at one; a
              \* choice of the environment that never changes

vars == <<loopVars, callVars, pc, attached, bursts>>

\* The type invariant of the embedded loop.
TypeOK ==
  /\ LoopTypeOK
  /\ pc \in {"prepare", "asleep", "check", "dispatch"}
  /\ attached \in BOOLEAN /\ bursts \in BOOLEAN

Init == LoopInit /\ pc = "prepare" /\ attached = TRUE /\ bursts \in BOOLEAN

\* Faulty: the inner loop is prepared once and not in every iteration.
PrepareOnce ==
  /\ pc = "prepare"
  /\ IF attached /\ last = "none"
     THEN cc_event_prepare /\ attached' = (result' # "EBUSY")
     ELSE UNCHANGED <<loopVars, callVars, attached>>
  /\ pc' = "asleep"

\* backend_event_prepare, unless the source was disabled.
Prepare ==
  /\ pc = "prepare"
  /\ IF attached
     THEN cc_event_prepare /\ attached' = (result' # "EBUSY")
     ELSE UNCHANGED <<loopVars, callVars, attached>>
  /\ pc' = "asleep"

\* The descriptor of the inner loop is readable.
Wake ==
  /\ pc = "asleep" /\ attached /\ Readable
  /\ pc' = "check"
  /\ UNCHANGED <<loopVars, callVars, attached>>

\* ball_land_handler or signal_handler is dispatched; neither touches the bus.
OtherHandler ==
  /\ pc = "asleep"
  /\ pc' = "prepare"
  /\ UNCHANGED <<loopVars, callVars, attached>>

\* Faulty: the handler returns after the check whatever it says.
CheckOnly ==
  /\ pc = "check"
  /\ cc_event_check
  /\ attached' = (result' # "EBUSY")
  /\ pc' = "prepare"

\* backend_event_dispatch, up to its two early returns.
Check ==
  /\ pc = "check"
  /\ cc_event_check
  /\ attached' = (result' # "EBUSY")
  /\ pc' = IF result' = "positive" THEN "dispatch" ELSE "prepare"

\* Faulty: what is left over is dispatched at once, without another preparation.
DispatchAll ==
  /\ pc = "dispatch"
  /\ cc_event_dispatch
  /\ attached' = (result' # "EBUSY")
  /\ pc' = IF attached' /\ queued' # {} THEN "dispatch" ELSE "prepare"

\* The rest of backend_event_dispatch.
Dispatch ==
  /\ pc = "dispatch"
  /\ cc_event_dispatch
  /\ attached' = (result' # "EBUSY")
  /\ pc' = "prepare"

\* The condition of a source comes true; without bursts, only when sd-event has
\* already found every other source that is due.
SourceFires ==
  /\ bursts \/ due \subseteq queued
  /\ \E s \in Sources : Fire(s)
  /\ UNCHANGED <<pc, attached>>

OuterLoop == Prepare \/ Wake \/ Check \/ Dispatch

Next == (OuterLoop \/ OtherHandler \/ SourceFires) /\ UNCHANGED bursts

Spec == Init /\ [][Next]_vars

\* The outer loop keeps iterating, and dispatches its sources in the order they
\* fired, so that the backend is not passed over for its timer for ever.
FairSpec == Spec /\ WF_vars(OuterLoop /\ UNCHANGED bursts) /\ SF_vars(Wake /\ UNCHANGED bursts)

-----------------------------------------------------------------------------
\* Whatever fires when, one call of the embedding can fail and cost the ball its
\* backend: the check, in backend_event_dispatch, of a loop that was left with
\* something to dispatch.  No cc_event_dispatch is ever refused, and a ball that
\* has lost its backend has lost it with work still queued.
OnlyLeftoversDisable ==
  result = "EBUSY" \/ ~attached => last = "check" /\ loop = "pending" /\ queued # {}

\* Leaving a prepared loop alone does no harm to the ball: whenever the outer
\* loop sleeps, the descriptor watches every source that is enabled.
NeverSleepsUnwatched == pc = "asleep" => wanted \subseteq watched

\* If no two sources of the backend fire together, the ball never calls an
\* operation in a state that is illegal for it, and is never disabled for it.
SingleEventsNeverBusy == ~bursts => NeverBusy /\ attached

\* Sources that fire one at a time are all dispatched.
EverySourceServed == \A s \in Sources : ~bursts /\ s \in due ~> s \notin due
=============================================================================
