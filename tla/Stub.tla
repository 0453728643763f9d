-------------------------------- MODULE Stub --------------------------------
(***************************************************************************)
(* A client instance as XGenerator generates it (client-Ball.c,            *)
(* client-Smartie.c, client-Calculator.c) against the generated server     *)
(* thunks (server-Ball.c and others) and the part of sd-bus both use.      *)
(*                                                                         *)
(* The client process is single threaded: user code calls the stub either  *)
(* from its event loop or from within a reply callback, and a synchronous  *)
(* call blocks it.  Calls that are refused with -EBUSY or cannot be sent   *)
(* leave no trace (sd_bus_call_async sets the slot last) and are not       *)
(* steps.  The user does not free an instance inside its own callback.     *)
(***************************************************************************)
EXTENDS Naturals, Sequences, SequencesExt

CONSTANTS
  Methods,     \* the methods of the interface that have a reply
  Idle,        \* no reply thunk is on the stack
  MaxCalls     \* bound: how many calls the client ever makes

ASSUME IdleAssumption == Idle \notin Methods
ASSUME MaxCallsAssumption == MaxCalls \in Nat

VARIABLES
  ready,       \* an instance exists
  slot,        \* slot[m]: the call whose slot is in <m>_reply_slot, 0 if NULL
  callback,    \* callback[m]: the call that stored <m>_reply_callback, 0 if NULL
  thunk,       \* the method whose reply thunk is in the user's callback
  current,     \* the call of sd_bus_get_current_slot
  blocked,     \* the call that sd_bus_call waits for, 0 if none
  sent,        \* how many calls were sent so far; a call is its number
  table,       \* sd-bus: <<call, method>> for each registered reply handler
  wire,        \* calls the server has not answered yet
  inbox,       \* replies the client has not looked at: <<call, kind>>
  outcome      \* what became of each call for the user

clientVars == <<ready, slot, callback, thunk, current, blocked>>
vars == <<clientVars, sent, table, wire, inbox, outcome>>

CallIds == 1..MaxCalls
Outcomes == {"unused", "open", "answered", "failed", "cancelled"}

\* The type invariant of a client instance and of what is under way.
TypeOK ==
  /\ ready \in BOOLEAN
  /\ slot \in [Methods -> {0} \cup CallIds]
  /\ callback \in [Methods -> {0} \cup CallIds]
  /\ thunk \in Methods \cup {Idle}
  /\ current \in {0} \cup CallIds
  /\ blocked \in {0} \cup CallIds
  /\ sent \in {0} \cup CallIds
  /\ table \subseteq CallIds \X Methods
  /\ wire \subseteq CallIds
  /\ inbox \in Seq(CallIds \X {"value", "error"})
  /\ outcome \in [CallIds -> Outcomes]

Init ==
  /\ ready = FALSE
  /\ slot = [m \in Methods |-> 0] /\ callback = [m \in Methods |-> 0]
  /\ thunk = Idle /\ current = 0 /\ blocked = 0
  /\ sent = 0 /\ table = {} /\ wire = {} /\ inbox = <<>>
  /\ outcome = [c \in CallIds |-> "unused"]

-----------------------------------------------------------------------------
(* The user of the stub.                                                   *)

\* cc_client_<I>_new: a zeroed instance (calloc).
New ==
  /\ ~ready /\ ready' = TRUE
  /\ slot' = [m \in Methods |-> 0] /\ callback' = [m \in Methods |-> 0]
  /\ UNCHANGED <<thunk, current, blocked, sent, table, wire, inbox, outcome>>

\* User code runs: it is not blocked, and either the loop or a callback calls it.
InUserCode == ready /\ blocked = 0 /\ sent < MaxCalls

\* Faulty: the check for a pending reply is missing.
NeverBusy(m) == TRUE

\* The method has no pending reply; otherwise the call returns -EBUSY.
NotBusy(m) == slot[m] = 0

\* A message is queued on the bus under the next number.
Transmit ==
  /\ sent' = sent + 1
  /\ wire' = wire \cup {sent + 1}
  /\ outcome' = [outcome EXCEPT ![sent + 1] = "open"]

\* cc_<I>_<m>_async.
Async(m) ==
  /\ InUserCode /\ NotBusy(m)
  /\ Transmit
  /\ slot' = [slot EXCEPT ![m] = sent + 1]
  /\ callback' = [callback EXCEPT ![m] = sent + 1]
  /\ table' = table \cup {<<sent + 1, m>>}
  /\ UNCHANGED <<ready, thunk, current, blocked, inbox>>

\* cc_<I>_<m>, up to the wait in sd_bus_call_method.
Sync(m) ==
  /\ InUserCode /\ NotBusy(m)
  /\ Transmit
  /\ blocked' = sent + 1
  /\ UNCHANGED <<ready, slot, callback, thunk, current, table, inbox>>

\* cc_<I>_<m>, from the reply on: sd_bus_call takes it out of order and leaves
\* all other messages in the queue.
SyncReturn ==
  /\ blocked # 0
  /\ \E i \in DOMAIN inbox :
       /\ inbox[i][1] = blocked
       /\ outcome' = [outcome EXCEPT ![blocked] =
                        IF inbox[i][2] = "value" THEN "answered" ELSE "failed"]
       /\ inbox' = RemoveAt(inbox, i)
  /\ blocked' = 0
  /\ UNCHANGED <<ready, slot, callback, thunk, current, sent, table, wire>>

\* The same when the wait times out.
SyncTimeout ==
  /\ blocked # 0 /\ blocked' = 0
  /\ outcome' = [outcome EXCEPT ![blocked] = "failed"]
  /\ UNCHANGED <<ready, slot, callback, thunk, current, sent, table, wire, inbox>>

\* Faulty: the slots are forgotten but not released, so sd-bus keeps them.
FreeKeepsHandlers ==
  /\ ready /\ thunk = Idle /\ blocked = 0
  /\ ready' = FALSE
  /\ slot' = [m \in Methods |-> 0]
  /\ outcome' = [c \in CallIds |->
                   IF \E m \in Methods : slot[m] = c THEN "cancelled" ELSE outcome[c]]
  /\ UNCHANGED <<callback, thunk, current, blocked, sent, table, wire, inbox>>

\* Faulty: an instance is freed while one of its callbacks runs.
FreeInCallback ==
  /\ ready /\ blocked = 0
  /\ ready' = FALSE
  /\ slot' = [m \in Methods |-> 0]
  /\ table' = {e \in table : slot[e[2]] # e[1]}
  /\ outcome' = [c \in CallIds |->
                   IF \E m \in Methods : slot[m] = c THEN "cancelled" ELSE outcome[c]]
  /\ UNCHANGED <<callback, thunk, current, blocked, sent, wire, inbox>>

\* cc_client_<I>_free: dropping a slot makes sd-bus forget the reply handler.
Free ==
  /\ ready /\ thunk = Idle /\ blocked = 0
  /\ ready' = FALSE
  /\ slot' = [m \in Methods |-> 0]
  /\ table' = {e \in table : slot[e[2]] # e[1]}
  /\ outcome' = [c \in CallIds |->
                   IF \E m \in Methods : slot[m] = c THEN "cancelled" ELSE outcome[c]]
  /\ UNCHANGED <<callback, thunk, current, blocked, sent, wire, inbox>>

-----------------------------------------------------------------------------
(* The reply thunks, called by sd_bus_process.                             *)

\* Faulty: the callback is not reset.
FinishKeepsCallback(m) ==
  /\ slot' = [slot EXCEPT ![m] = 0]
  /\ UNCHANGED callback

\* cc_<I>_<m>_reply_thunk, the part under "finish".
Finish(m) ==
  /\ callback' = [callback EXCEPT ![m] = 0]
  /\ slot' = [slot EXCEPT ![m] = 0]

InLoop == thunk = Idle /\ blocked = 0

\* A reply with a value: sd-bus unregisters the handler and calls the thunk of
\* its method, which calls whatever callback the instance holds.
ReplyValue ==
  /\ InLoop /\ inbox # <<>> /\ Head(inbox)[2] = "value"
  /\ \E e \in table :
       /\ e[1] = Head(inbox)[1]
       /\ table' = table \ {e} /\ current' = e[1] /\ thunk' = e[2]
       /\ outcome' = [outcome EXCEPT ![callback[e[2]]] = "answered"]
  /\ inbox' = Tail(inbox)
  /\ UNCHANGED <<ready, slot, callback, blocked, sent, wire>>

\* The callback returns to the thunk.
CallbackReturn ==
  /\ thunk # Idle /\ blocked = 0
  /\ Finish(thunk)
  /\ thunk' = Idle /\ current' = 0
  /\ UNCHANGED <<ready, blocked, sent, table, wire, inbox, outcome>>

\* Faulty: the thunk returns at once for an error message.
FailReturnsEarly(e) ==
  /\ table' = table \ {e}
  /\ UNCHANGED <<clientVars, sent, wire, outcome>>

\* The thunk without its callback, for an error message or a reply that cannot
\* be read.
Fail(e) ==
  /\ table' = table \ {e}
  /\ Finish(e[2])
  /\ outcome' = [outcome EXCEPT ![callback[e[2]]] = "failed"]
  /\ UNCHANGED <<ready, thunk, current, blocked, sent, wire>>

ReplyError ==
  /\ InLoop /\ inbox # <<>> /\ Head(inbox)[2] = "error"
  /\ \E e \in table : e[1] = Head(inbox)[1] /\ Fail(e)
  /\ inbox' = Tail(inbox)

\* sd-bus makes up an error after CC_DBUS_ASYNC_CALL_TIMEOUT_USEC; the reply
\* may be in the queue already.
Timeout(m) ==
  /\ InLoop
  /\ \E e \in table : e[2] = m /\ Fail(e)
  /\ UNCHANGED inbox

\* A reply no handler is registered for is dropped.
Discard ==
  /\ InLoop /\ inbox # <<>>
  /\ \A e \in table : e[1] # Head(inbox)[1]
  /\ inbox' = Tail(inbox)
  /\ UNCHANGED <<clientVars, sent, table, wire, outcome>>

-----------------------------------------------------------------------------
(* The server: cc_<I>_<m>_thunk.                                           *)

Answer(c, replies) ==
  /\ c \in wire /\ wire' = wire \ {c}
  /\ inbox' = inbox \o replies
  /\ UNCHANGED <<clientVars, sent, table, outcome>>

\* The implementation succeeds and its reply is sent.
ServeValue(c) == Answer(c, << <<c, "value">> >>)

\* The parameters cannot be read or the reply cannot be sent: the thunk returns
\* an error and sd-bus turns that into a reply.
ServeFailure(c) == Answer(c, << <<c, "error">> >>)

\* The method is not implemented or its implementation fails: the thunk replies
\* with an error and returns one, for which sd-bus replies again.
ServeRefusal(c) == Answer(c, << <<c, "error">>, <<c, "error">> >>)

Serve(c) == ServeValue(c) \/ ServeFailure(c) \/ ServeRefusal(c)

-----------------------------------------------------------------------------
User == New \/ Free \/ \E m \in Methods : Async(m) \/ Sync(m)

Client ==
  \/ SyncReturn \/ SyncTimeout
  \/ ReplyValue \/ CallbackReturn \/ ReplyError \/ Discard
  \/ \E m \in Methods : Timeout(m)

Next == User \/ Client \/ \E c \in CallIds : Serve(c)

Spec == Init /\ [][Next]_vars

\* Callbacks and blocking calls return, sd-bus processes its queue and expires
\* its timeouts.  No server is obliged to answer.
Fairness ==
  /\ WF_vars(SyncTimeout) /\ WF_vars(CallbackReturn)
  /\ WF_vars(ReplyValue) /\ WF_vars(ReplyError) /\ WF_vars(Discard)
  /\ \A m \in Methods : WF_vars(Timeout(m))

FairSpec == Spec /\ Fairness

-----------------------------------------------------------------------------
(* What the stub promises.                                                 *)

\* The slot and the callback of a method belong to one and the same call, so
\* the assertions "!instance->..._reply_callback" at the start of a call and
\* "ii->..._reply_callback" in the thunk hold; across callbacks that call back
\* into the stub, errors, timeouts and late replies.
SlotHasItsCallback ==
  ready => \A m \in Methods : slot[m] = callback[m]

\* sd-bus can only run a thunk for the call its instance is waiting for: every
\* registered handler belongs to the slot the instance holds, so no reply to an
\* earlier call, no timeout and no reply to a freed instance ever reaches the
\* callback of a later call.  While a callback runs, the slot of its method is
\* the one being dispatched (the thunk's second assertion).
NoStaleReply ==
  /\ \A e \in table : ready /\ slot[e[2]] = e[1]
  /\ thunk # Idle => ready /\ slot[thunk] = current /\ current # 0

\* An accepted call is never forgotten: as long as the user was not told its
\* outcome, it is the blocking call or its slot is registered with sd-bus.
OpenCallsTracked ==
  \A c \in CallIds : outcome[c] = "open" =>
    c = blocked \/ \E m \in Methods : slot[m] = c /\ <<c, m>> \in table

\* The user hears of a call at most once: an answered, failed or cancelled call
\* stays that way, and no call is answered before it was made.
OneOutcome ==
  [][\A c \in CallIds : outcome'[c] # outcome[c] =>
       \/ outcome[c] = "unused" /\ outcome'[c] = "open"
       \/ outcome[c] = "open" /\ outcome'[c] \in {"answered", "failed", "cancelled"}]_vars

\* Every call comes to an end even if no server ever answers.
EveryCallEnds == \A c \in CallIds : outcome[c] = "open" ~> outcome[c] # "open"
=============================================================================
