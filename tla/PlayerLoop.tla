----------------------------- MODULE PlayerLoop -----------------------------
(***************************************************************************)
(* The backend loop embedded into a GLib main loop (player.c, CCEventSource *)
(* and backend_event_funcs).  One iteration of the main loop prepares its   *)
(* sources, polls, checks those that were not found ready before polling,  *)
(* and dispatches the ready ones; the timers of the player are sources too.*)
(***************************************************************************)
EXTENDS EventLoop

VARIABLES
  pc,         \* where the main loop is in its iteration
  flagged,    \* the backend source is flagged ready in this iteration
  attached    \* the backend source is attached to the main loop

vars == <<loopVars, callVars, pc, flagged, attached>>

\* The type invariant of the embedded loop.
TypeOK ==
  /\ LoopTypeOK
  /\ pc \in {"prepare", "asleep", "check", "dispatch"}
  /\ flagged \in BOOLEAN /\ attached \in BOOLEAN

Init == LoopInit /\ pc = "prepare" /\ flagged = FALSE /\ attached = TRUE

\* backend_event_prepare.
Prepare ==
  /\ pc = "prepare" /\ attached
  /\ cc_event_prepare
  /\ flagged' = (result' = "positive")
  /\ pc' = "asleep"
  /\ UNCHANGED attached

\* poll returns for the backend, or does not wait at all.
Wake ==
  /\ pc = "asleep" /\ (flagged \/ Readable)
  /\ pc' = "check"
  /\ UNCHANGED <<loopVars, callVars, flagged, attached>>

\* poll returns for a timer or a signal of the player.
WakeForOther ==
  /\ pc = "asleep"
  /\ pc' = "check"
  /\ UNCHANGED <<loopVars, callVars, flagged, attached>>

\* Faulty: a source that is ready already is checked as well.
CheckAlways ==
  /\ pc = "check"
  /\ cc_event_check /\ flagged' = (flagged \/ result' = "positive")
  /\ pc' = "dispatch"
  /\ UNCHANGED attached

\* Faulty: backend_event_check looks at the descriptor and not at the loop.
CheckDescriptor ==
  /\ pc = "check"
  /\ IF flagged \/ ~Readable
     THEN UNCHANGED <<loopVars, callVars, flagged>>
     ELSE cc_event_check /\ flagged' = (result' = "positive")
  /\ pc' = "dispatch"
  /\ UNCHANGED attached

\* backend_event_check, which GLib skips for a source flagged ready.
Check ==
  /\ pc = "check"
  /\ IF flagged
     THEN UNCHANGED <<loopVars, callVars, flagged>>
     ELSE cc_event_check /\ flagged' = (result' = "positive")
  /\ pc' = "dispatch"
  /\ UNCHANGED attached

\* Faulty: the source is ready but its dispatch function does nothing.
DispatchNothing ==
  /\ pc = "dispatch"
  /\ flagged' = FALSE /\ pc' = "prepare"
  /\ UNCHANGED <<loopVars, callVars, attached>>

\* backend_event_dispatch; an error removes the source.
Dispatch ==
  /\ pc = "dispatch"
  /\ IF flagged
     THEN cc_event_dispatch /\ attached' = (result' # "EBUSY")
     ELSE UNCHANGED <<loopVars, callVars, attached>>
  /\ flagged' = FALSE /\ pc' = "prepare"

\* Another source of the main loop is dispatched before or after the backend:
\* player_grab_handler makes a call, and its reply timeout enables a source.
OtherHandler ==
  /\ pc \in {"dispatch", "prepare"}
  /\ \E s \in Sources : wanted' = wanted \cup {s}
  /\ UNCHANGED <<loop, watched, due, queued, callVars, pc, flagged, attached>>

\* The condition of a source comes true, wherever the main loop is.
SourceFires == \E s \in Sources : Fire(s) /\ UNCHANGED <<pc, flagged, attached>>

MainLoop == Prepare \/ Wake \/ Check \/ Dispatch

Next == MainLoop \/ WakeForOther \/ OtherHandler \/ SourceFires

Spec == Init /\ [][Next]_vars

\* The main loop keeps iterating; sd-event dispatches sources in the order in
\* which it found them fired, so none is passed over for ever.
Fairness ==
  /\ WF_vars(MainLoop)
  /\ \A s \in Sources : SF_vars(Dispatch /\ s \in queued /\ s \notin due')

FairSpec == Spec /\ Fairness

-----------------------------------------------------------------------------
\* The main loop never goes to sleep on work it cannot see: a source the last
\* dispatch left over keeps the loop awake, and the reply timeout of a call made
\* meanwhile by player_grab_handler is watched.
NeverSleepsOnWork ==
  pc = "asleep" => (queued # {} => flagged) /\ (~flagged => wanted \subseteq watched)

\* Every source that fires is dispatched or disabled in the end.
EverySourceServed == \A s \in Sources : s \in due ~> s \notin due
=============================================================================
