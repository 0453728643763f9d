----------------------------- MODULE EventLoop -----------------------------
(***************************************************************************)
(* The backend's event loop and the three operations of backend.c that let *)
(* an application drive it from a loop of its own: cc_event_prepare,       *)
(* cc_event_check and cc_event_dispatch, over sd-event.                    *)
(*                                                                         *)
(* The backend attaches several event sources to this loop (the bus socket *)
(* and the timeout of pending calls).  A source that fired stays due until *)
(* it is dispatched or disabled.  The file descriptor the application      *)
(* polls is readable when a watched source is due.                         *)
(***************************************************************************)
CONSTANT Sources

VARIABLES
  loop,      \* sd_event_get_state
  wanted,    \* sources that are enabled; sd-bus enables them as it needs them
  watched,   \* sources the file descriptor watches since the last preparation
  due,       \* sources whose condition holds
  queued,    \* sources sd-event knows to have fired
  last,      \* the operation called last
  result     \* what it returned: zero, positive or an error

loopVars == <<loop, wanted, watched, due, queued>>
callVars == <<last, result>>

LoopTypeOK ==
  /\ loop \in {"initial", "armed", "pending"}
  /\ wanted \subseteq Sources /\ watched \subseteq Sources
  /\ due \subseteq wanted /\ queued \subseteq wanted
  /\ last \in {"none", "prepare", "check", "dispatch"}
  /\ result \in {"zero", "positive", "EBUSY"}

LoopInit ==
  /\ loop = "initial"
  /\ wanted \in SUBSET Sources /\ watched = {} /\ due = {} /\ queued = {}
  /\ last = "none" /\ result = "zero"

\* The file descriptor of cc_event_get_fd.
Readable == due \cap watched # {}

-----------------------------------------------------------------------------
(* sd-event.                                                               *)

\* sd_event_prepare: sources are watched as they are enabled now; those that
\* were left over from the last dispatch need no waiting.
SdEventPrepare ==
  /\ loop = "initial"
  /\ watched' = wanted
  /\ IF queued # {}
     THEN loop' = "pending" /\ queued' = queued \cup (due \cap wanted) /\ result' = "positive"
     ELSE loop' = "armed" /\ UNCHANGED queued /\ result' = "zero"
  /\ UNCHANGED <<wanted, due>>

\* sd_event_wait without blocking; illegal unless the loop is armed.
SdEventWait ==
  IF loop # "armed"
  THEN result' = "EBUSY" /\ UNCHANGED loopVars
  ELSE /\ queued' = queued \cup (due \cap watched)
       /\ IF queued' # {}
          THEN loop' = "pending" /\ result' = "positive"
          ELSE loop' = "initial" /\ result' = "zero"
       /\ UNCHANGED <<wanted, watched, due>>

\* sd_event_dispatch runs the handler of one source, which may enable and
\* disable sources as it likes; illegal unless something is pending.
SdEventDispatch ==
  IF loop # "pending"
  THEN result' = "EBUSY" /\ UNCHANGED loopVars
  ELSE /\ \E s \in queued :
            /\ wanted' \in SUBSET Sources
            /\ due' = (due \ {s}) \cap wanted'
            /\ queued' = (queued \ {s}) \cap wanted'
       /\ loop' = "initial" /\ result' = "positive"
       /\ UNCHANGED watched

-----------------------------------------------------------------------------
(* backend.c.                                                              *)

\* Faulty: without the state check in front of sd_event_prepare.
PrepareUnchecked ==
  /\ last' = "prepare"
  /\ \/ loop # "initial" /\ result' = "EBUSY" /\ UNCHANGED loopVars
     \/ SdEventPrepare

\* cc_event_prepare: a loop that was prepared already is left alone.
cc_event_prepare ==
  /\ last' = "prepare"
  /\ \/ /\ loop # "initial"
        /\ result' = IF loop = "pending" THEN "positive" ELSE "zero"
        /\ UNCHANGED loopVars
     \/ SdEventPrepare

cc_event_check == last' = "check" /\ SdEventWait

cc_event_dispatch == last' = "dispatch" /\ SdEventDispatch

-----------------------------------------------------------------------------
\* The condition of a source comes true: a message arrives, a timeout expires.
Fire(s) ==
  /\ s \in wanted \ due
  /\ due' = due \cup {s}
  /\ UNCHANGED <<loop, wanted, watched, queued, callVars>>

\* "cc_event_check() returns ... a positive value when at least one event source
\* can be dispatched" (doc/cc_event.adoc).
CheckReportsReady == last = "check" /\ queued # {} => result = "positive"

\* No operation is ever called in a state that is illegal for it, whatever fires
\* when: none of the calls of the embedding loop returns -EBUSY.
NeverBusy == result # "EBUSY"
=============================================================================
