-------------------------------- MODULE Game --------------------------------
(***************************************************************************)
(* The reference application ref/game: one ball server (ball.c) and a set  *)
(* of players (player.c), talking through the stubs generated for the      *)
(* interface Ball (client-Ball.c, server-Ball.c) over a message bus.       *)
(*                                                                         *)
(* Every process is single threaded and runs its handlers from an event    *)
(* loop, so an action below is one whole handler: the stub, the            *)
(* application callback it calls and the state machine under it.  The bus  *)
(* and the event loops only decide which handler runs next.                *)
(***************************************************************************)
EXTENDS Naturals

CONSTANTS
  Players,     \* the player processes that may ever be launched
  Hazards,     \* what the environment may do, a subset of AllHazards
  MaxBoots     \* bound: how many times a ball process is launched

(***************************************************************************)
(* early   a player may be launched before the ball owns its service name  *)
(* stop    the ball may be terminated by a signal                          *)
(* signal  a player may be terminated by a signal                          *)
(* timeout a pending grab may run into CC_DBUS_ASYNC_CALL_TIMEOUT_USEC     *)
(* send    a message cannot be queued on the bus                           *)
(* timer   the fall timer cannot be set or enabled                         *)
(* burst   two sources of the ball's backend may fire together, which its  *)
(*         loop does not survive (see BallLoop)                            *)
(***************************************************************************)
AllHazards == {"early", "stop", "signal", "timeout", "send", "timer", "burst"}

ASSUME HazardsAssumption == Hazards \subseteq AllHazards
ASSUME MaxBootsAssumption == MaxBoots \in Nat

VARIABLES
  server,      \* the ball process: not running, name owned, in its loop, and
               \* in its loop without the source of the backend
  boots,       \* how many ball processes were launched so far
  state,       \* ball_data.state
  fallTimer,   \* ball_data.fall_timer is enabled
  proc,        \* each player process: not launched, in its loop, exited
  pstate,      \* player_data.state of each player
  grabTimer,   \* player_data.grab_timer has a ready time
  dropTimer,   \* player_data.drop_timer has a ready time
  slot,        \* cc_client_Ball.grab_reply_slot is set
  calls,       \* calls[p]: calls of p on their way to the ball
  reply        \* reply[p]: the answer on its way to p, or "none"

ballVars == <<server, boots, state, fallTimer>>
playerVars == <<proc, pstate, grabTimer, dropTimer, slot>>
busVars == <<calls, reply>>
vars == <<ballVars, playerVars, busVars>>

BallStates == {"initial", "resting", "grabbed", "falling"}
PlayerStates == {"initial", "free", "grabbing", "on_ball"}
Answers == {"yes", "no", "error"}

InLoop == server \in {"serving", "deaf"}
Running(p) == proc[p] = "running"
OnBall(p) == Running(p) /\ pstate[p] = "on_ball"

\* The type invariant of the game.
TypeOK ==
  /\ server \in {"down", "named", "serving", "deaf"}
  /\ boots \in Nat
  /\ state \in BallStates
  /\ fallTimer \in BOOLEAN
  /\ proc \in [Players -> {"new", "running", "exited"}]
  /\ pstate \in [Players -> PlayerStates]
  /\ grabTimer \in [Players -> BOOLEAN]
  /\ dropTimer \in [Players -> BOOLEAN]
  /\ slot \in [Players -> BOOLEAN]
  /\ calls \in [Players -> SUBSET {"grab", "drop"}]
  /\ reply \in [Players -> Answers \cup {"none"}]

Init ==
  /\ server = "down" /\ boots = 0 /\ state = "initial" /\ fallTimer = FALSE
  /\ proc = [p \in Players |-> "new"]
  /\ pstate = [p \in Players |-> "initial"]
  /\ grabTimer = [p \in Players |-> FALSE]
  /\ dropTimer = [p \in Players |-> FALSE]
  /\ slot = [p \in Players |-> FALSE]
  /\ calls = [p \in Players |-> {}]
  /\ reply = [p \in Players |-> "none"]

-----------------------------------------------------------------------------
(* The ball server.                                                        *)

\* main up to cc_server_Ball_new: the name is owned from here on, so the bus
\* queues calls for this process although it does not serve them yet.
BallLaunch ==
  /\ server = "down" /\ boots < MaxBoots
  /\ server' = "named" /\ boots' = boots + 1
  /\ state' = "initial" /\ fallTimer' = FALSE
  /\ UNCHANGED <<playerVars, busVars>>

\* ball_do_initial, called by main before it enters the loop.
BallInitial ==
  /\ server = "named"
  /\ server' = "serving" /\ state' = "resting"
  /\ UNCHANGED <<boots, fallTimer, playerVars, busVars>>

\* Faulty: the switch of ball_do_grabbed takes a grab for a drop.
AfterAnyGrabbed(event) ==
  CASE state = "initial" -> "resting"
    [] state = "resting" /\ event = "grab" -> "grabbed"
    [] state = "grabbed" -> "falling"
    [] state = "falling" /\ event = "land" -> "resting"
    [] OTHER -> state

\* Faulty: a falling ball can be grabbed.
AfterCatch(event) ==
  CASE state = "initial" -> "resting"
    [] state \in {"resting", "falling"} /\ event = "grab" -> "grabbed"
    [] state = "grabbed" /\ event = "drop" -> "falling"
    [] state = "falling" /\ event = "land" -> "resting"
    [] OTHER -> state

\* ball_state_handlers: the state after an event.  A handler that ignores the
\* event returns an error and leaves the state alone.
After(event) ==
  CASE state = "initial" -> "resting"
    [] state = "resting" /\ event = "grab" -> "grabbed"
    [] state = "grabbed" /\ event = "drop" -> "falling"
    [] state = "falling" /\ event = "land" -> "resting"
    [] OTHER -> state

\* Faulty: Ball_impl_grab reports success whatever the handler said.
ServeGrabAlways(p) ==
  /\ server = "serving" /\ "grab" \in calls[p]
  /\ state' = After("grab")
  /\ calls' = [calls EXCEPT ![p] = @ \ {"grab"}]
  /\ reply' = [reply EXCEPT ![p] = "yes"]
  /\ UNCHANGED <<server, boots, fallTimer, playerVars>>

\* cc_Ball_grab_thunk and Ball_impl_grab: success says whether the handler took
\* the event.  The state has changed before the reply is sent; when sending
\* fails the bus answers with an error.
ServeGrab(p) ==
  /\ server = "serving" /\ "grab" \in calls[p]
  /\ state' = After("grab")
  /\ calls' = [calls EXCEPT ![p] = @ \ {"grab"}]
  /\ \/ reply' = [reply EXCEPT ![p] = IF After("grab") # state THEN "yes" ELSE "no"]
     \/ "send" \in Hazards /\ reply' = [reply EXCEPT ![p] = "error"]
  /\ UNCHANGED <<server, boots, fallTimer, playerVars>>

\* Faulty: ball_do_grabbed sets the time but does not enable the timer.
ServeDropNoTimer(p) ==
  /\ server = "serving" /\ "drop" \in calls[p]
  /\ state' = After("drop")
  /\ calls' = [calls EXCEPT ![p] = @ \ {"drop"}]
  /\ UNCHANGED <<server, boots, fallTimer, playerVars, reply>>

\* cc_Ball_drop_thunk, Ball_impl_drop and ball_do_grabbed: the state changes
\* first, then the timer is set and enabled, either of which may fail.  Any
\* other state ignores the event; nobody asks who sent it.
ServeDrop(p) ==
  /\ server = "serving" /\ "drop" \in calls[p]
  /\ state' = After("drop")
  /\ calls' = [calls EXCEPT ![p] = @ \ {"drop"}]
  /\ \/ fallTimer' = (fallTimer \/ state = "grabbed")
     \/ "timer" \in Hazards /\ state = "grabbed" /\ UNCHANGED fallTimer
  /\ UNCHANGED <<server, boots, playerVars, reply>>

\* Faulty: the fall timer is enabled with SD_EVENT_ON instead of ONESHOT.
LandRepeating ==
  /\ InLoop /\ fallTimer
  /\ state' = After("land")
  /\ UNCHANGED <<server, boots, fallTimer, playerVars, busVars>>

\* ball_land_handler on the one-shot fall timer.
Land ==
  /\ InLoop /\ fallTimer
  /\ fallTimer' = FALSE
  /\ state' = After("land")
  /\ UNCHANGED <<server, boots, playerVars, busVars>>

\* backend_event_dispatch fails for a burst, and the loop disables its source for
\* good: the ball keeps its name and its timers, and serves no call any more.
LoseBackend ==
  /\ "burst" \in Hazards /\ server = "serving"
  /\ server' = "deaf"
  /\ UNCHANGED <<boots, state, fallTimer, playerVars, busVars>>

\* signal_handler leaves the loop, main frees the server and disconnects: the
\* bus fails the calls that were waiting and drops what expects no reply.
BallStop ==
  /\ "stop" \in Hazards /\ InLoop
  /\ server' = "down" /\ fallTimer' = FALSE
  /\ calls' = [p \in Players |-> {}]
  /\ reply' = [p \in Players |-> IF "grab" \in calls[p] THEN "error" ELSE reply[p]]
  /\ UNCHANGED <<boots, state, playerVars>>

-----------------------------------------------------------------------------
(* A player.                                                               *)

\* main up to the loop: startup, client instance, player_do_initial.
PlayerLaunch(p) ==
  /\ proc[p] = "new" /\ (server # "down" \/ "early" \in Hazards)
  /\ proc' = [proc EXCEPT ![p] = "running"]
  /\ pstate' = [pstate EXCEPT ![p] = "free"]
  /\ grabTimer' = [grabTimer EXCEPT ![p] = TRUE]
  /\ UNCHANGED <<dropTimer, slot, ballVars, busVars>>

\* A call reaches the ball, or the bus answers that the name has no owner.
Send(p, method) ==
  \/ /\ server # "down"
     /\ calls' = [calls EXCEPT ![p] = @ \cup {method}] /\ UNCHANGED reply
  \/ /\ server = "down" /\ UNCHANGED calls
     /\ reply' = IF method = "grab" THEN [reply EXCEPT ![p] = "error"] ELSE reply

\* cc_Ball_grab_async: refuses a second pending call (-EBUSY) or may fail to send.
GrabAsync(p) ==
  \/ /\ ~slot[p] /\ Send(p, "grab")
     /\ slot' = [slot EXCEPT ![p] = TRUE]
  \/ /\ slot[p] \/ "send" \in Hazards
     /\ UNCHANGED <<slot, busVars>>

\* player_grab_handler: in state free player_do_free enters grabbing and then
\* calls cc_Ball_grab_async, whose result is ignored.
GrabTimeout(p) ==
  /\ Running(p) /\ grabTimer[p]
  /\ grabTimer' = [grabTimer EXCEPT ![p] = FALSE]
  /\ IF pstate[p] = "free"
     THEN /\ pstate' = [pstate EXCEPT ![p] = "grabbing"]
          /\ GrabAsync(p)
     ELSE UNCHANGED <<pstate, slot, busVars>>
  /\ UNCHANGED <<proc, dropTimer, ballVars>>

\* Faulty: the thunk does not release the slot.
KeepSlot(p) == UNCHANGED slot

\* cc_Ball_grab_reply_thunk, the part under "finish": the slot is released.
ReleaseSlot(p) == slot' = [slot EXCEPT ![p] = FALSE]

\* Faulty: after a refused grab the grab timer is not set again.
GrabResponseNoTimer(p) ==
  /\ Running(p) /\ slot[p] /\ reply[p] \in {"yes", "no"}
  /\ IF reply[p] = "yes"
     THEN /\ pstate' = [pstate EXCEPT ![p] = "on_ball"]
          /\ dropTimer' = [dropTimer EXCEPT ![p] = TRUE]
     ELSE /\ pstate' = [pstate EXCEPT ![p] = "free"]
          /\ UNCHANGED dropTimer
  /\ reply' = [reply EXCEPT ![p] = "none"]
  /\ ReleaseSlot(p)
  /\ UNCHANGED <<proc, grabTimer, calls, ballVars>>

\* cc_Ball_grab_reply_thunk with an answer, player_grab_response_handler and
\* player_do_grabbing.  Other states ignore the event.
GrabResponse(p) ==
  /\ Running(p) /\ slot[p] /\ reply[p] \in {"yes", "no"}
  /\ IF pstate[p] # "grabbing"
     THEN UNCHANGED <<pstate, grabTimer, dropTimer>>
     ELSE IF reply[p] = "yes"
     THEN /\ pstate' = [pstate EXCEPT ![p] = "on_ball"]
          /\ dropTimer' = [dropTimer EXCEPT ![p] = TRUE] /\ UNCHANGED grabTimer
     ELSE /\ pstate' = [pstate EXCEPT ![p] = "free"]
          /\ grabTimer' = [grabTimer EXCEPT ![p] = TRUE] /\ UNCHANGED dropTimer
  /\ reply' = [reply EXCEPT ![p] = "none"]
  /\ ReleaseSlot(p)
  /\ UNCHANGED <<proc, calls, ballVars>>

\* cc_Ball_grab_reply_thunk with an error message: the callback is not called.
GrabError(p) ==
  /\ Running(p) /\ slot[p] /\ reply[p] = "error"
  /\ reply' = [reply EXCEPT ![p] = "none"]
  /\ ReleaseSlot(p)
  /\ UNCHANGED <<proc, pstate, grabTimer, dropTimer, calls, ballVars>>

\* Faulty: a grab that timed out is retried while its answer may be on its way.
GrabExpiredRetry(p) ==
  /\ "timeout" \in Hazards /\ Running(p) /\ slot[p]
  /\ pstate' = [pstate EXCEPT ![p] = "free"]
  /\ grabTimer' = [grabTimer EXCEPT ![p] = TRUE]
  /\ ReleaseSlot(p)
  /\ UNCHANGED <<proc, dropTimer, busVars, ballVars>>

\* The same thunk with the error sd-bus makes up when the call times out.
GrabExpired(p) ==
  /\ "timeout" \in Hazards /\ Running(p) /\ slot[p]
  /\ ReleaseSlot(p)
  /\ UNCHANGED <<proc, pstate, grabTimer, dropTimer, busVars, ballVars>>

\* An answer nobody waits for: its slot was released or its process is gone.
LateReply(p) ==
  /\ reply[p] # "none" /\ ~slot[p]
  /\ reply' = [reply EXCEPT ![p] = "none"]
  /\ UNCHANGED <<calls, playerVars, ballVars>>

\* The end of main: cc_client_Ball_free, cc_backend_shutdown, timers destroyed.
Leave(p) ==
  /\ proc' = [proc EXCEPT ![p] = "exited"]
  /\ grabTimer' = [grabTimer EXCEPT ![p] = FALSE]
  /\ dropTimer' = [dropTimer EXCEPT ![p] = FALSE]
  /\ slot' = [slot EXCEPT ![p] = FALSE]

\* Faulty: the player tells the ball to fall but stays on it.
DropAndStay(p) ==
  /\ Running(p) /\ dropTimer[p]
  /\ Send(p, "drop")
  /\ UNCHANGED <<playerVars, ballVars>>

\* player_drop_handler and player_do_on_ball: the state changes first; the
\* loop is left only when cc_Ball_drop could be sent.
DropTimeout(p) ==
  /\ Running(p) /\ dropTimer[p]
  /\ IF pstate[p] = "on_ball"
     THEN /\ pstate' = [pstate EXCEPT ![p] = "free"]
          /\ \/ Send(p, "drop") /\ Leave(p)
             \/ /\ "send" \in Hazards
                /\ dropTimer' = [dropTimer EXCEPT ![p] = FALSE]
                /\ UNCHANGED <<proc, grabTimer, slot, busVars>>
     ELSE /\ dropTimer' = [dropTimer EXCEPT ![p] = FALSE]
          /\ UNCHANGED <<proc, pstate, grabTimer, slot, busVars>>
  /\ UNCHANGED ballVars

\* signal_handler leaves the loop in whatever state the player is.
PlayerStop(p) ==
  /\ "signal" \in Hazards /\ Running(p)
  /\ Leave(p)
  /\ UNCHANGED <<pstate, busVars, ballVars>>

-----------------------------------------------------------------------------
Ball == BallLaunch \/ BallInitial \/ Land \/ \E p \in Players : ServeGrab(p) \/ ServeDrop(p)

Player(p) ==
  \/ GrabTimeout(p) \/ GrabResponse(p) \/ GrabError(p) \/ DropTimeout(p)

\* What the environment may do but nothing obliges it to.
Environment ==
  \/ LoseBackend \/ BallStop
  \/ \E p \in Players : PlayerLaunch(p) \/ PlayerStop(p) \/ GrabExpired(p) \/ LateReply(p)

\* A game in which every launched player has left has nothing more to do.
Over ==
  /\ \A p \in Players : proc[p] # "running"
  /\ UNCHANGED vars

Next == Ball \/ (\E p \in Players : Player(p)) \/ Environment \/ Over

Spec == Init /\ [][Next]_vars

(***************************************************************************)
(* Event loops dispatch what is ready and timers expire: each handler whose *)
(* trigger persists eventually runs; those of the ball's calls as long as   *)
(* no burst has cost it its backend.  Nothing obliges a user to launch or   *)
(* to stop a process, a call to time out, or a burst to happen.             *)
(***************************************************************************)
Fairness ==
  /\ WF_vars(BallInitial) /\ WF_vars(Land)
  /\ \A p \in Players :
       /\ WF_vars(ServeGrab(p)) /\ WF_vars(ServeDrop(p))
       /\ WF_vars(GrabTimeout(p)) /\ WF_vars(DropTimeout(p))
       /\ WF_vars(GrabResponse(p)) /\ WF_vars(GrabError(p))

FairSpec == Spec /\ Fairness

-----------------------------------------------------------------------------
(* What the game promises.                                                 *)

\* p believes, or is about to learn, that it is on the ball, or has told the
\* ball to fall and was not heard yet.
Claim(p) == reply[p] = "yes" \/ OnBall(p) \/ "drop" \in calls[p]

\* A player is never misled about the ball: while some player claims it, the
\* ball process (ball_data.state in ball.c) is in state grabbed, whatever
\* messages, timeouts and terminations came in between.  A restarted ball has
\* forgotten its holder, so the promise is for the first ball process.
HolderKeepsBallGrabbed ==
  boots <= 1 => \A p \in Players : Claim(p) => state = "grabbed"

\* "While grabbed, the ball will refuse attempts to grab it again": two players
\* never claim the ball together (Ball_impl_grab against player_do_grabbing and
\* player_do_on_ball of different processes).
AtMostOneHolder ==
  boots <= 1 => \A p, q \in Players : Claim(p) /\ Claim(q) => p = q

\* The calls and answers of one player never overtake each other: a grab is on
\* its way to the ball only when no answer is on its way back, and a drop only
\* when no grab is, so the ball sees grab, answer, drop in that order.
OneMessageInFlight ==
  \A p \in Players :
    /\ "grab" \in calls[p] => reply[p] = "none" /\ "drop" \notin calls[p] /\ ~OnBall(p)
    /\ "drop" \in calls[p] => reply[p] = "none" /\ ~Running(p)

\* cc_client_Ball.grab_reply_slot is held only in state grabbing, so that
\* cc_Ball_grab_async called by player_do_free never returns -EBUSY.
SlotMeansGrabbing ==
  \A p \in Players : slot[p] => Running(p) /\ pstate[p] = "grabbing"

\* No timer ever fires into a state that ignores its event, and no player on
\* the ball is left without the timer that gets it off: grab_timer is set only
\* in state free, drop_timer exactly while on_ball, fall_timer only in falling.
TimersFollowState ==
  /\ \A p \in Players :
       /\ grabTimer[p] => Running(p) /\ pstate[p] = "free"
       /\ dropTimer[p] <=> OnBall(p)
  /\ fallTimer => state = "falling"

\* A held ball falls only through its holder: whenever ball_data.state leaves
\* grabbed, it is because the drop of the player that claimed the ball arrived.
\* Ball_impl_drop does not look at the sender.
OnlyHolderDrops ==
  [][boots' <= 1 /\ state = "grabbed" /\ state' # "grabbed"
       => \E p \in Players : Claim(p) /\ ~Claim(p)']_vars

\* Nobody waits for what cannot come.  When nothing fails, a running player has a
\* timer set or a grab pending, a pending grab has its call or its answer under
\* way, a grabbed ball is claimed by the player whose drop will free it, and a
\* falling ball has its timer: no step loses the last thing that would wake
\* player.c or ball.c up.
NobodyStuck ==
  Hazards = {} =>
    /\ \A p \in Players : Running(p) =>
         server \in {"named", "serving"} /\ (grabTimer[p] \/ slot[p] \/ dropTimer[p])
    /\ \A p \in Players : slot[p] => "grab" \in calls[p] \/ reply[p] \in {"yes", "no"}
    /\ state = "grabbed" => \E p \in Players : Claim(p)
    /\ state = "falling" => fallTimer

\* Every launched player gets its turn, gets off the ball and terminates; so no
\* two players keep each other from the ball for ever.  For Hazards = {}: after a
\* burst the ball hears nobody, and those who wait for it wait for ever.
EveryPlayerLeaves ==
  \A p \in Players : Running(p) ~> proc[p] = "exited"

\* A grabbed ball comes to rest again (through falling), however many players
\* keep asking for it.  For Hazards = {}: after a burst no drop is served.
BallRestsAgain == state = "grabbed" ~> state = "resting"

\* "GRABBING: grab_failure -> FREE" (player.c): a player does not stay in state
\* grabbing; its grab succeeds, or fails and the player is free to try again.
GrabFailureRetries ==
  \A p \in Players :
    Running(p) /\ pstate[p] = "grabbing" ~> ~Running(p) \/ pstate[p] # "grabbing"
=============================================================================
