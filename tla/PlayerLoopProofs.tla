-------------------------- MODULE PlayerLoopProofs --------------------------
(***************************************************************************)
(* The player's main loop uses the backend loop correctly, for any set of  *)
(* event sources of the backend.                                           *)
(***************************************************************************)
EXTENDS PlayerLoop, TLAPS

\* The state of the inner loop goes with the place of the outer one: prepared
\* before polling, found idle or pending by the check, idle after dispatching.
InStep ==
  /\ pc = "prepare" => loop = "initial" /\ flagged = FALSE
  /\ pc \in {"asleep", "check"} => loop # "initial" /\ (flagged <=> loop = "pending")
  /\ pc = "dispatch" => loop # "armed" /\ (flagged <=> loop = "pending")

\* An armed loop has nothing left over and watches every enabled source.
ArmedIsIdle == loop = "armed" => queued = {} /\ watched = wanted

IInv == TypeOK /\ InStep /\ ArmedIsIdle /\ NeverBusy /\ attached = TRUE

LEMMA InitIInv == Init => IInv
<1> SUFFICES ASSUME Init PROVE IInv
  OBVIOUS
<1>1. flagged \in BOOLEAN /\ attached \in BOOLEAN /\ flagged = FALSE /\ attached = TRUE
  BY Zenon DEF Init
<1> QED
  BY <1>1 DEF Init, LoopInit, IInv, TypeOK, LoopTypeOK, InStep, ArmedIsIdle, NeverBusy

\* Every step of the main loop, of another handler and of a source keeps step.
LEMMA Step == IInv /\ [Next]_vars => IInv'
<1> SUFFICES ASSUME IInv, [Next]_vars PROVE IInv'
  OBVIOUS
<1> USE DEF IInv, TypeOK, LoopTypeOK, InStep, ArmedIsIdle, NeverBusy, loopVars, callVars
<1>1. CASE Prepare
  <2>1. loop = "initial" /\ SdEventPrepare /\ last' = "prepare"
    BY <1>1 DEF Prepare, cc_event_prepare
  <2>2. loop' \in {"armed", "pending"} /\ result' \in {"zero", "positive"}
        /\ (loop' = "pending" <=> result' = "positive")
        /\ (loop' = "armed" => queued' = {} /\ watched' = wanted')
    BY <2>1 DEF SdEventPrepare
  <2>3. flagged' \in BOOLEAN /\ (flagged' <=> loop' = "pending")
    BY <1>1, <2>2 DEF Prepare
  <2>4. wanted' = wanted /\ due' = due /\ queued' \subseteq wanted /\ watched' \subseteq Sources
    BY <2>1 DEF SdEventPrepare
  <2> QED
    BY <1>1, <2>1, <2>2, <2>3, <2>4 DEF Prepare
<1>2. CASE Wake \/ WakeForOther
  <2>1. pc = "asleep" /\ pc' = "check" /\ UNCHANGED <<loopVars, callVars>>
    BY <1>2 DEF Wake, WakeForOther
  <2>2. flagged' = flagged /\ attached' = attached
    BY <1>2 DEF Wake, WakeForOther
  <2> QED
    BY <2>1, <2>2
<1>3. CASE Check
  <2>1. CASE flagged
    BY <1>3, <2>1 DEF Check
  <2>2. CASE ~flagged
    <3>1. loop = "armed" /\ cc_event_check /\ pc' = "dispatch" /\ attached' = attached
      BY <1>3, <2>2 DEF Check
    <3>2. /\ loop' \in {"initial", "pending"} /\ result' \in {"zero", "positive"}
          /\ loop' = "pending" <=> result' = "positive"
          /\ wanted' = wanted /\ watched' = watched /\ due' = due /\ queued' \subseteq wanted
          /\ last' = "check"
      BY <3>1 DEF cc_event_check, SdEventWait
    <3>3. flagged' \in BOOLEAN /\ (flagged' <=> loop' = "pending")
      BY <1>3, <2>2, <3>2 DEF Check
    <3> QED
      BY <3>1, <3>2, <3>3
  <2> QED
    BY <2>1, <2>2
<1>4. CASE Dispatch
  <2>1. CASE ~flagged
    BY <1>4, <2>1, Zenon DEF Dispatch
  <2>2. CASE flagged
    <3>1. loop = "pending" /\ cc_event_dispatch /\ pc' = "prepare"
      BY <1>4, <2>2 DEF Dispatch
    <3>2. /\ loop' = "initial" /\ result' = "positive" /\ last' = "dispatch"
          /\ wanted' \subseteq Sources /\ watched' = watched
          /\ due' \subseteq wanted' /\ queued' \subseteq wanted'
      BY <3>1 DEF cc_event_dispatch, SdEventDispatch
    <3>3. flagged' = FALSE /\ attached' = TRUE /\ flagged' \in BOOLEAN /\ attached' \in BOOLEAN
      BY <1>4, <2>2, <3>2, Zenon DEF Dispatch
    <3> QED
      BY <3>1, <3>2, <3>3
  <2> QED
    BY <2>1, <2>2
<1>5. CASE OtherHandler
  BY <1>5 DEF OtherHandler
<1>6. CASE SourceFires
  BY <1>6 DEF SourceFires, Fire
<1>7. CASE UNCHANGED vars
  BY <1>7 DEF vars
<1> QED
  BY <1>1, <1>2, <1>3, <1>4, <1>5, <1>6, <1>7 DEF Next, MainLoop

LEMMA Invariance == Spec => []IInv
  BY InitIInv, Step, PTL DEF Spec

\* The backend loop of player.c and its main loop stay in their types, in
\* particular only enabled sources are due or queued.
THEOREM PlayerLoopTypes == Spec => []TypeOK
<1>1. IInv => TypeOK
  BY DEF IInv
<1> QED
  BY <1>1, Invariance, PTL

\* The embedding of player.c never uses the backend loop in an illegal state,
\* whichever sources fire and whatever their handlers enable.
THEOREM PlayerNeverBusy == Spec => []NeverBusy
<1>1. IInv => NeverBusy
  BY DEF IInv
<1> QED
  BY <1>1, Invariance, PTL

\* The main loop of player.c never sleeps on a source that is left over or not
\* watched.
THEOREM PlayerSeesItsWork == Spec => []NeverSleepsOnWork
<1>1. IInv => NeverSleepsOnWork
  BY DEF IInv, TypeOK, LoopTypeOK, InStep, ArmedIsIdle, NeverSleepsOnWork
<1> QED
  BY <1>1, Invariance, PTL
=============================================================================
