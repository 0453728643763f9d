----------------------------- MODULE GameProofs -----------------------------
(***************************************************************************)
(* The safety of the game for any set of players, any hazards and any      *)
(* number of restarts of the ball, and that it implements BallToken.       *)
(***************************************************************************)
EXTENDS GameRefinesToken, TLAPS

-----------------------------------------------------------------------------
(* Type correctness.                                                       *)

LEMMA InitTypeOK == Init => TypeOK
<1> SUFFICES ASSUME Init PROVE TypeOK
  OBVIOUS
<1>1. fallTimer \in BOOLEAN
  BY Zenon DEF Init
<1> QED
  BY <1>1 DEF Init, TypeOK, BallStates, PlayerStates, Answers

\* A step of the ball process preserves the type invariant.
LEMMA BallTypeOK == TypeOK /\ Ball => TypeOK'
<1> SUFFICES ASSUME TypeOK, Ball PROVE TypeOK'
  OBVIOUS
<1> USE DEF TypeOK, BallStates, PlayerStates, Answers, ballVars, playerVars, busVars
<1>1. CASE BallLaunch
  <2>1. fallTimer' \in BOOLEAN
    BY <1>1, Zenon DEF BallLaunch
  <2> QED
    BY <1>1, <2>1 DEF BallLaunch
<1>2. CASE BallInitial
  BY <1>2 DEF BallInitial
<1>3. CASE Land
  BY <1>3 DEF Land, After
<1>4. ASSUME NEW p \in Players, ServeGrab(p) PROVE TypeOK'
  BY <1>4 DEF ServeGrab, After
<1>5. ASSUME NEW p \in Players, ServeDrop(p) PROVE TypeOK'
  BY <1>5 DEF ServeDrop, After
<1> QED
  BY <1>1, <1>2, <1>3, <1>4, <1>5 DEF Ball

\* A handler of a player preserves the type invariant.
LEMMA PlayerTypeOK ==
  ASSUME NEW p \in Players, TypeOK, Player(p) PROVE TypeOK'
<1> USE DEF TypeOK, BallStates, PlayerStates, Answers, ballVars, playerVars, busVars
<1>1. CASE GrabTimeout(p)
  <2>1. CASE UNCHANGED <<calls, reply>>
    BY <1>1, <2>1 DEF GrabTimeout, GrabAsync, Send
  <2>2. CASE Send(p, "grab")
    <3>1. calls' \in [Players -> SUBSET {"grab", "drop"}]
      BY <2>2 DEF Send
    <3>2. reply' \in [Players -> Answers \cup {"none"}]
      BY <2>2 DEF Send
    <3> QED
      BY <1>1, <3>1, <3>2 DEF GrabTimeout, GrabAsync
  <2> QED
    BY <1>1, <2>1, <2>2 DEF GrabTimeout, GrabAsync
<1>2. CASE GrabResponse(p)
  BY <1>2 DEF GrabResponse, ReleaseSlot
<1>3. CASE GrabError(p)
  BY <1>3 DEF GrabError, ReleaseSlot
<1>4. CASE DropTimeout(p)
  <2>1. calls' \in [Players -> SUBSET {"grab", "drop"}]
    BY <1>4 DEF DropTimeout, Send
  <2>2. reply' \in [Players -> Answers \cup {"none"}]
    BY <1>4 DEF DropTimeout, Send
  <2> QED
    BY <1>4, <2>1, <2>2 DEF DropTimeout, Leave
<1> QED
  BY <1>1, <1>2, <1>3, <1>4 DEF Player

\* So does what the environment does.
LEMMA EnvironmentTypeOK == TypeOK /\ Environment => TypeOK'
<1> SUFFICES ASSUME TypeOK, Environment PROVE TypeOK'
  OBVIOUS
<1> USE DEF TypeOK, BallStates, PlayerStates, Answers, ballVars, playerVars, busVars
<1>1. CASE LoseBackend \/ BallStop
  BY <1>1 DEF LoseBackend, BallStop
<1>2. ASSUME NEW p \in Players, PlayerLaunch(p) PROVE TypeOK'
  BY <1>2 DEF PlayerLaunch
<1>3. ASSUME NEW p \in Players, PlayerStop(p) PROVE TypeOK'
  BY <1>3 DEF PlayerStop, Leave
<1>4. ASSUME NEW p \in Players, GrabExpired(p) PROVE TypeOK'
  BY <1>4 DEF GrabExpired, ReleaseSlot
<1>5. ASSUME NEW p \in Players, LateReply(p) PROVE TypeOK'
  BY <1>5 DEF LateReply
<1> QED
  BY <1>1, <1>2, <1>3, <1>4, <1>5 DEF Environment

LEMMA NextTypeOK == TypeOK /\ [Next]_vars => TypeOK'
<1> SUFFICES ASSUME TypeOK, [Next]_vars PROVE TypeOK'
  OBVIOUS
<1>1. CASE Ball
  BY <1>1, BallTypeOK
<1>2. CASE \E p \in Players : Player(p)
  BY <1>2, PlayerTypeOK
<1>3. CASE Environment
  BY <1>3, EnvironmentTypeOK
<1>4. CASE Over \/ UNCHANGED vars
  BY <1>4 DEF Over, vars, ballVars, playerVars, busVars, TypeOK
<1> QED
  BY <1>1, <1>2, <1>3, <1>4 DEF Next

\* Every reachable state of the game is well typed (ball.c, player.c).
THEOREM TypeCorrect == Spec => []TypeOK
  BY InitTypeOK, NextTypeOK, PTL DEF Spec

-----------------------------------------------------------------------------
(***************************************************************************)
(* The inductive invariant.  The promises of Game speak about what a       *)
(* player believes; they are inductive together with what ties the bus to  *)
(* the states of the two ends.                                             *)
(***************************************************************************)

\* A player in its loop with a message under way is in state grabbing; one that
\* was not launched has sent nothing.
Awaiting ==
  \A p \in Players :
    /\ Running(p) /\ ("grab" \in calls[p] \/ reply[p] # "none") => pstate[p] = "grabbing"
    /\ proc[p] = "new" => calls[p] = {} /\ reply[p] = "none"

\* main leaves state initial exactly when it enters its loop.
BallStarted ==
  /\ InLoop => state # "initial"
  /\ server = "named" => state = "initial"
  /\ boots = 0 => server = "down" /\ state = "initial"

\* The part about single players and the part about all of them.
LocalInv == OneMessageInFlight /\ SlotMeansGrabbing /\ TimersFollowState /\ Awaiting /\ BallStarted

IInv == TypeOK /\ LocalInv /\ HolderKeepsBallGrabbed /\ AtMostOneHolder
\* A step of the ball process preserves the invariant.
LEMMA BallInv ==
  ASSUME Ball, IInv PROVE LocalInv' /\ HolderKeepsBallGrabbed' /\ AtMostOneHolder'
<1> USE DEF IInv, LocalInv
<1>1. CASE BallLaunch
  <2> USE DEF TypeOK, ballVars, playerVars, busVars, Running, OnBall
  <2>1. OneMessageInFlight'
    BY <1>1 DEF BallLaunch, OneMessageInFlight, SlotMeansGrabbing, Awaiting, TimersFollowState
  <2>2. SlotMeansGrabbing'
    BY <1>1 DEF BallLaunch, SlotMeansGrabbing, TimersFollowState
  <2>3. TimersFollowState'
    BY <1>1 DEF BallLaunch, TimersFollowState, SlotMeansGrabbing, BallStarted, InLoop
  <2>4. Awaiting'
    BY <1>1 DEF BallLaunch, Awaiting, OneMessageInFlight, SlotMeansGrabbing, TimersFollowState
  <2>5. BallStarted'
    BY <1>1 DEF BallLaunch, BallStarted, InLoop
  <2>6. HolderKeepsBallGrabbed'
    BY <1>1 DEF BallLaunch, HolderKeepsBallGrabbed, AtMostOneHolder, Claim,
      OneMessageInFlight, SlotMeansGrabbing, TimersFollowState, Awaiting, BallStarted, InLoop
  <2>7. AtMostOneHolder'
    BY <1>1 DEF BallLaunch, HolderKeepsBallGrabbed, AtMostOneHolder, Claim,
      OneMessageInFlight, SlotMeansGrabbing, TimersFollowState, Awaiting, BallStarted, InLoop
  <2> QED
    BY <2>1, <2>2, <2>3, <2>4, <2>5, <2>6, <2>7 DEF LocalInv
<1>2. CASE BallInitial
  <2> USE DEF TypeOK, ballVars, playerVars, busVars, Running, OnBall
  <2>1. OneMessageInFlight'
    BY <1>2 DEF BallInitial, OneMessageInFlight, SlotMeansGrabbing, Awaiting, TimersFollowState
  <2>2. SlotMeansGrabbing'
    BY <1>2 DEF BallInitial, SlotMeansGrabbing, TimersFollowState
  <2>3. TimersFollowState'
    BY <1>2 DEF BallInitial, TimersFollowState, SlotMeansGrabbing, BallStarted, InLoop
  <2>4. Awaiting'
    BY <1>2 DEF BallInitial, Awaiting, OneMessageInFlight, SlotMeansGrabbing, TimersFollowState
  <2>5. BallStarted'
    BY <1>2 DEF BallInitial, BallStarted, InLoop
  <2>6. HolderKeepsBallGrabbed'
    BY <1>2 DEF BallInitial, HolderKeepsBallGrabbed, AtMostOneHolder, Claim,
      OneMessageInFlight, SlotMeansGrabbing, TimersFollowState, Awaiting, BallStarted, InLoop
  <2>7. AtMostOneHolder'
    BY <1>2 DEF BallInitial, HolderKeepsBallGrabbed, AtMostOneHolder, Claim,
      OneMessageInFlight, SlotMeansGrabbing, TimersFollowState, Awaiting, BallStarted, InLoop
  <2> QED
    BY <2>1, <2>2, <2>3, <2>4, <2>5, <2>6, <2>7 DEF LocalInv
<1>3. CASE Land
  <2> USE DEF TypeOK, ballVars, playerVars, busVars, Running, OnBall
  <2>1. OneMessageInFlight'
    BY <1>3 DEF Land, After, OneMessageInFlight, SlotMeansGrabbing, Awaiting, TimersFollowState
  <2>2. SlotMeansGrabbing'
    BY <1>3 DEF Land, After, SlotMeansGrabbing, TimersFollowState
  <2>3. TimersFollowState'
    BY <1>3 DEF Land, After, TimersFollowState, SlotMeansGrabbing, BallStarted, InLoop
  <2>4. Awaiting'
    BY <1>3 DEF Land, After, Awaiting, OneMessageInFlight, SlotMeansGrabbing, TimersFollowState
  <2>5. BallStarted'
    BY <1>3 DEF Land, After, BallStarted, InLoop
  <2>6. HolderKeepsBallGrabbed'
    BY <1>3 DEF Land, After, HolderKeepsBallGrabbed, AtMostOneHolder, Claim,
      OneMessageInFlight, SlotMeansGrabbing, TimersFollowState, Awaiting, BallStarted, InLoop
  <2>7. AtMostOneHolder'
    BY <1>3 DEF Land, After, HolderKeepsBallGrabbed, AtMostOneHolder, Claim,
      OneMessageInFlight, SlotMeansGrabbing, TimersFollowState, Awaiting, BallStarted, InLoop
  <2> QED
    BY <2>1, <2>2, <2>3, <2>4, <2>5, <2>6, <2>7 DEF LocalInv
<1>4. ASSUME NEW p \in Players, ServeGrab(p) PROVE LocalInv' /\ HolderKeepsBallGrabbed' /\ AtMostOneHolder'
  <2> USE DEF TypeOK, ballVars, playerVars, busVars, Running, OnBall
  <2>1. OneMessageInFlight'
    BY <1>4 DEF ServeGrab, After, OneMessageInFlight, SlotMeansGrabbing, Awaiting,
      TimersFollowState
  <2>2. SlotMeansGrabbing'
    BY <1>4 DEF ServeGrab, After, SlotMeansGrabbing, TimersFollowState
  <2>3. TimersFollowState'
    BY <1>4 DEF ServeGrab, After, TimersFollowState, SlotMeansGrabbing, BallStarted, InLoop
  <2>4. Awaiting'
    BY <1>4 DEF ServeGrab, After, Awaiting, OneMessageInFlight, SlotMeansGrabbing,
      TimersFollowState
  <2>5. BallStarted'
    BY <1>4 DEF ServeGrab, After, BallStarted, InLoop
  <2>6. HolderKeepsBallGrabbed'
    BY <1>4 DEF ServeGrab, After, HolderKeepsBallGrabbed, AtMostOneHolder, Claim,
      OneMessageInFlight, SlotMeansGrabbing, TimersFollowState, Awaiting, BallStarted, InLoop
  <2>7. AtMostOneHolder'
    BY <1>4 DEF ServeGrab, After, HolderKeepsBallGrabbed, AtMostOneHolder, Claim,
      OneMessageInFlight, SlotMeansGrabbing, TimersFollowState, Awaiting, BallStarted, InLoop
  <2> QED
    BY <2>1, <2>2, <2>3, <2>4, <2>5, <2>6, <2>7 DEF LocalInv
<1>5. ASSUME NEW p \in Players, ServeDrop(p) PROVE LocalInv' /\ HolderKeepsBallGrabbed' /\ AtMostOneHolder'
  <2> USE DEF TypeOK, ballVars, playerVars, busVars, Running, OnBall
  <2>1. OneMessageInFlight'
    BY <1>5 DEF ServeDrop, After, OneMessageInFlight, SlotMeansGrabbing, Awaiting,
      TimersFollowState
  <2>2. SlotMeansGrabbing'
    BY <1>5 DEF ServeDrop, After, SlotMeansGrabbing, TimersFollowState
  <2>3. TimersFollowState'
    BY <1>5 DEF ServeDrop, After, TimersFollowState, SlotMeansGrabbing, BallStarted, InLoop
  <2>4. Awaiting'
    BY <1>5 DEF ServeDrop, After, Awaiting, OneMessageInFlight, SlotMeansGrabbing,
      TimersFollowState
  <2>5. BallStarted'
    BY <1>5 DEF ServeDrop, After, BallStarted, InLoop
  <2>6. HolderKeepsBallGrabbed'
    BY <1>5 DEF ServeDrop, After, HolderKeepsBallGrabbed, AtMostOneHolder, Claim,
      OneMessageInFlight, SlotMeansGrabbing, TimersFollowState, Awaiting, BallStarted, InLoop
  <2>7. AtMostOneHolder'
    BY <1>5 DEF ServeDrop, After, HolderKeepsBallGrabbed, AtMostOneHolder, Claim,
      OneMessageInFlight, SlotMeansGrabbing, TimersFollowState, Awaiting, BallStarted, InLoop
  <2> QED
    BY <2>1, <2>2, <2>3, <2>4, <2>5, <2>6, <2>7 DEF LocalInv
<1> QED
  BY <1>1, <1>2, <1>3, <1>4, <1>5 DEF Ball

\* A handler of a player preserves it.
LEMMA PlayerInv ==
  ASSUME NEW p \in Players, Player(p), IInv PROVE LocalInv' /\ HolderKeepsBallGrabbed' /\ AtMostOneHolder'
<1> USE DEF IInv, LocalInv
<1>1. CASE GrabTimeout(p)
  <2> USE DEF TypeOK, ballVars, playerVars, busVars, Running, OnBall
  <2>1. OneMessageInFlight'
    BY <1>1 DEF GrabTimeout, GrabAsync, Send, OneMessageInFlight, SlotMeansGrabbing, Awaiting,
      TimersFollowState
  <2>2. SlotMeansGrabbing'
    BY <1>1 DEF GrabTimeout, GrabAsync, Send, SlotMeansGrabbing, TimersFollowState
  <2>3. TimersFollowState'
    BY <1>1 DEF GrabTimeout, GrabAsync, Send, TimersFollowState, SlotMeansGrabbing, BallStarted,
      InLoop
  <2>4. Awaiting'
    BY <1>1 DEF GrabTimeout, GrabAsync, Send, Awaiting, OneMessageInFlight, SlotMeansGrabbing,
      TimersFollowState
  <2>5. BallStarted'
    BY <1>1 DEF GrabTimeout, GrabAsync, Send, BallStarted, InLoop
  <2>6. HolderKeepsBallGrabbed'
    BY <1>1 DEF GrabTimeout, GrabAsync, Send, HolderKeepsBallGrabbed, AtMostOneHolder, Claim,
      OneMessageInFlight, SlotMeansGrabbing, TimersFollowState, Awaiting, BallStarted, InLoop
  <2>7. AtMostOneHolder'
    BY <1>1 DEF GrabTimeout, GrabAsync, Send, HolderKeepsBallGrabbed, AtMostOneHolder, Claim,
      OneMessageInFlight, SlotMeansGrabbing, TimersFollowState, Awaiting, BallStarted, InLoop
  <2> QED
    BY <2>1, <2>2, <2>3, <2>4, <2>5, <2>6, <2>7 DEF LocalInv
<1>2. CASE GrabResponse(p)
  <2> USE DEF TypeOK, ballVars, playerVars, busVars, Running, OnBall
  <2>1. OneMessageInFlight'
    BY <1>2 DEF GrabResponse, ReleaseSlot, OneMessageInFlight, SlotMeansGrabbing, Awaiting,
      TimersFollowState
  <2>2. SlotMeansGrabbing'
    BY <1>2 DEF GrabResponse, ReleaseSlot, SlotMeansGrabbing, TimersFollowState
  <2>3. TimersFollowState'
    BY <1>2 DEF GrabResponse, ReleaseSlot, TimersFollowState, SlotMeansGrabbing, BallStarted, InLoop
  <2>4. Awaiting'
    BY <1>2 DEF GrabResponse, ReleaseSlot, Awaiting, OneMessageInFlight, SlotMeansGrabbing,
      TimersFollowState
  <2>5. BallStarted'
    BY <1>2 DEF GrabResponse, ReleaseSlot, BallStarted, InLoop
  <2>6. HolderKeepsBallGrabbed'
    BY <1>2 DEF GrabResponse, ReleaseSlot, HolderKeepsBallGrabbed, AtMostOneHolder, Claim,
      OneMessageInFlight, SlotMeansGrabbing, TimersFollowState, Awaiting, BallStarted, InLoop
  <2>7. AtMostOneHolder'
    BY <1>2 DEF GrabResponse, ReleaseSlot, HolderKeepsBallGrabbed, AtMostOneHolder, Claim,
      OneMessageInFlight, SlotMeansGrabbing, TimersFollowState, Awaiting, BallStarted, InLoop
  <2> QED
    BY <2>1, <2>2, <2>3, <2>4, <2>5, <2>6, <2>7 DEF LocalInv
<1>3. CASE GrabError(p)
  <2> USE DEF TypeOK, ballVars, playerVars, busVars, Running, OnBall
  <2>1. OneMessageInFlight'
    BY <1>3 DEF GrabError, ReleaseSlot, OneMessageInFlight, SlotMeansGrabbing, Awaiting,
      TimersFollowState
  <2>2. SlotMeansGrabbing'
    BY <1>3 DEF GrabError, ReleaseSlot, SlotMeansGrabbing, TimersFollowState
  <2>3. TimersFollowState'
    BY <1>3 DEF GrabError, ReleaseSlot, TimersFollowState, SlotMeansGrabbing, BallStarted, InLoop
  <2>4. Awaiting'
    BY <1>3 DEF GrabError, ReleaseSlot, Awaiting, OneMessageInFlight, SlotMeansGrabbing,
      TimersFollowState
  <2>5. BallStarted'
    BY <1>3 DEF GrabError, ReleaseSlot, BallStarted, InLoop
  <2>6. HolderKeepsBallGrabbed'
    BY <1>3 DEF GrabError, ReleaseSlot, HolderKeepsBallGrabbed, AtMostOneHolder, Claim,
      OneMessageInFlight, SlotMeansGrabbing, TimersFollowState, Awaiting, BallStarted, InLoop
  <2>7. AtMostOneHolder'
    BY <1>3 DEF GrabError, ReleaseSlot, HolderKeepsBallGrabbed, AtMostOneHolder, Claim,
      OneMessageInFlight, SlotMeansGrabbing, TimersFollowState, Awaiting, BallStarted, InLoop
  <2> QED
    BY <2>1, <2>2, <2>3, <2>4, <2>5, <2>6, <2>7 DEF LocalInv
<1>4. CASE DropTimeout(p)
  <2> USE DEF TypeOK, ballVars, playerVars, busVars, Running, OnBall
  <2>1. OneMessageInFlight'
    BY <1>4 DEF DropTimeout, Send, Leave, OneMessageInFlight, SlotMeansGrabbing, Awaiting,
      TimersFollowState
  <2>2. SlotMeansGrabbing'
    BY <1>4 DEF DropTimeout, Send, Leave, SlotMeansGrabbing, TimersFollowState
  <2>3. TimersFollowState'
    BY <1>4 DEF DropTimeout, Send, Leave, TimersFollowState, SlotMeansGrabbing, BallStarted, InLoop
  <2>4. Awaiting'
    BY <1>4 DEF DropTimeout, Send, Leave, Awaiting, OneMessageInFlight, SlotMeansGrabbing,
      TimersFollowState
  <2>5. BallStarted'
    BY <1>4 DEF DropTimeout, Send, Leave, BallStarted, InLoop
  <2>6. HolderKeepsBallGrabbed'
    BY <1>4 DEF DropTimeout, Send, Leave, HolderKeepsBallGrabbed, AtMostOneHolder, Claim,
      OneMessageInFlight, SlotMeansGrabbing, TimersFollowState, Awaiting, BallStarted, InLoop
  <2>7. AtMostOneHolder'
    BY <1>4 DEF DropTimeout, Send, Leave, HolderKeepsBallGrabbed, AtMostOneHolder, Claim,
      OneMessageInFlight, SlotMeansGrabbing, TimersFollowState, Awaiting, BallStarted, InLoop
  <2> QED
    BY <2>1, <2>2, <2>3, <2>4, <2>5, <2>6, <2>7 DEF LocalInv
<1> QED
  BY <1>1, <1>2, <1>3, <1>4 DEF Player

\* Terminations, launches and lost answers preserve it.
LEMMA EnvironmentInv ==
  ASSUME Environment, IInv PROVE LocalInv' /\ HolderKeepsBallGrabbed' /\ AtMostOneHolder'
<1> USE DEF IInv, LocalInv
<1>1. CASE BallStop
  <2> USE DEF TypeOK, ballVars, playerVars, busVars, Running, OnBall
  <2>1. OneMessageInFlight'
    BY <1>1 DEF BallStop, OneMessageInFlight, SlotMeansGrabbing, Awaiting, TimersFollowState
  <2>2. SlotMeansGrabbing'
    BY <1>1 DEF BallStop, SlotMeansGrabbing, TimersFollowState
  <2>3. TimersFollowState'
    BY <1>1 DEF BallStop, TimersFollowState, SlotMeansGrabbing, BallStarted, InLoop
  <2>4. Awaiting'
    BY <1>1 DEF BallStop, Awaiting, OneMessageInFlight, SlotMeansGrabbing, TimersFollowState
  <2>5. BallStarted'
    BY <1>1 DEF BallStop, BallStarted, InLoop
  <2>6. HolderKeepsBallGrabbed'
    BY <1>1 DEF BallStop, HolderKeepsBallGrabbed, AtMostOneHolder, Claim,
      OneMessageInFlight, SlotMeansGrabbing, TimersFollowState, Awaiting, BallStarted, InLoop
  <2>7. AtMostOneHolder'
    BY <1>1 DEF BallStop, HolderKeepsBallGrabbed, AtMostOneHolder, Claim,
      OneMessageInFlight, SlotMeansGrabbing, TimersFollowState, Awaiting, BallStarted, InLoop
  <2> QED
    BY <2>1, <2>2, <2>3, <2>4, <2>5, <2>6, <2>7 DEF LocalInv
<1>2. ASSUME NEW p \in Players, PlayerLaunch(p) PROVE LocalInv' /\ HolderKeepsBallGrabbed' /\ AtMostOneHolder'
  <2> USE DEF TypeOK, ballVars, playerVars, busVars, Running, OnBall
  <2>1. OneMessageInFlight'
    BY <1>2 DEF PlayerLaunch, OneMessageInFlight, SlotMeansGrabbing, Awaiting, TimersFollowState
  <2>2. SlotMeansGrabbing'
    BY <1>2 DEF PlayerLaunch, SlotMeansGrabbing, TimersFollowState
  <2>3. TimersFollowState'
    BY <1>2 DEF PlayerLaunch, TimersFollowState, SlotMeansGrabbing, BallStarted, InLoop
  <2>4. Awaiting'
    BY <1>2 DEF PlayerLaunch, Awaiting, OneMessageInFlight, SlotMeansGrabbing, TimersFollowState
  <2>5. BallStarted'
    BY <1>2 DEF PlayerLaunch, BallStarted, InLoop
  <2>6. HolderKeepsBallGrabbed'
    BY <1>2 DEF PlayerLaunch, HolderKeepsBallGrabbed, AtMostOneHolder, Claim,
      OneMessageInFlight, SlotMeansGrabbing, TimersFollowState, Awaiting, BallStarted, InLoop
  <2>7. AtMostOneHolder'
    BY <1>2 DEF PlayerLaunch, HolderKeepsBallGrabbed, AtMostOneHolder, Claim,
      OneMessageInFlight, SlotMeansGrabbing, TimersFollowState, Awaiting, BallStarted, InLoop
  <2> QED
    BY <2>1, <2>2, <2>3, <2>4, <2>5, <2>6, <2>7 DEF LocalInv
<1>3. ASSUME NEW p \in Players, PlayerStop(p) PROVE LocalInv' /\ HolderKeepsBallGrabbed' /\ AtMostOneHolder'
  <2> USE DEF TypeOK, ballVars, playerVars, busVars, Running, OnBall
  <2>1. OneMessageInFlight'
    BY <1>3 DEF PlayerStop, Leave, OneMessageInFlight, SlotMeansGrabbing, Awaiting,
      TimersFollowState
  <2>2. SlotMeansGrabbing'
    BY <1>3 DEF PlayerStop, Leave, SlotMeansGrabbing, TimersFollowState
  <2>3. TimersFollowState'
    BY <1>3 DEF PlayerStop, Leave, TimersFollowState, SlotMeansGrabbing, BallStarted, InLoop
  <2>4. Awaiting'
    BY <1>3 DEF PlayerStop, Leave, Awaiting, OneMessageInFlight, SlotMeansGrabbing,
      TimersFollowState
  <2>5. BallStarted'
    BY <1>3 DEF PlayerStop, Leave, BallStarted, InLoop
  <2>6. HolderKeepsBallGrabbed'
    BY <1>3 DEF PlayerStop, Leave, HolderKeepsBallGrabbed, AtMostOneHolder, Claim,
      OneMessageInFlight, SlotMeansGrabbing, TimersFollowState, Awaiting, BallStarted, InLoop
  <2>7. AtMostOneHolder'
    BY <1>3 DEF PlayerStop, Leave, HolderKeepsBallGrabbed, AtMostOneHolder, Claim,
      OneMessageInFlight, SlotMeansGrabbing, TimersFollowState, Awaiting, BallStarted, InLoop
  <2> QED
    BY <2>1, <2>2, <2>3, <2>4, <2>5, <2>6, <2>7 DEF LocalInv
<1>4. ASSUME NEW p \in Players, GrabExpired(p) PROVE LocalInv' /\ HolderKeepsBallGrabbed' /\ AtMostOneHolder'
  <2> USE DEF TypeOK, ballVars, playerVars, busVars, Running, OnBall
  <2>1. OneMessageInFlight'
    BY <1>4 DEF GrabExpired, ReleaseSlot, OneMessageInFlight, SlotMeansGrabbing, Awaiting,
      TimersFollowState
  <2>2. SlotMeansGrabbing'
    BY <1>4 DEF GrabExpired, ReleaseSlot, SlotMeansGrabbing, TimersFollowState
  <2>3. TimersFollowState'
    BY <1>4 DEF GrabExpired, ReleaseSlot, TimersFollowState, SlotMeansGrabbing, BallStarted, InLoop
  <2>4. Awaiting'
    BY <1>4 DEF GrabExpired, ReleaseSlot, Awaiting, OneMessageInFlight, SlotMeansGrabbing,
      TimersFollowState
  <2>5. BallStarted'
    BY <1>4 DEF GrabExpired, ReleaseSlot, BallStarted, InLoop
  <2>6. HolderKeepsBallGrabbed'
    BY <1>4 DEF GrabExpired, ReleaseSlot, HolderKeepsBallGrabbed, AtMostOneHolder, Claim,
      OneMessageInFlight, SlotMeansGrabbing, TimersFollowState, Awaiting, BallStarted, InLoop
  <2>7. AtMostOneHolder'
    BY <1>4 DEF GrabExpired, ReleaseSlot, HolderKeepsBallGrabbed, AtMostOneHolder, Claim,
      OneMessageInFlight, SlotMeansGrabbing, TimersFollowState, Awaiting, BallStarted, InLoop
  <2> QED
    BY <2>1, <2>2, <2>3, <2>4, <2>5, <2>6, <2>7 DEF LocalInv
<1>5. ASSUME NEW p \in Players, LateReply(p) PROVE LocalInv' /\ HolderKeepsBallGrabbed' /\ AtMostOneHolder'
  <2> USE DEF TypeOK, ballVars, playerVars, busVars, Running, OnBall
  <2>1. OneMessageInFlight'
    BY <1>5 DEF LateReply, OneMessageInFlight, SlotMeansGrabbing, Awaiting, TimersFollowState
  <2>2. SlotMeansGrabbing'
    BY <1>5 DEF LateReply, SlotMeansGrabbing, TimersFollowState
  <2>3. TimersFollowState'
    BY <1>5 DEF LateReply, TimersFollowState, SlotMeansGrabbing, BallStarted, InLoop
  <2>4. Awaiting'
    BY <1>5 DEF LateReply, Awaiting, OneMessageInFlight, SlotMeansGrabbing, TimersFollowState
  <2>5. BallStarted'
    BY <1>5 DEF LateReply, BallStarted, InLoop
  <2>6. HolderKeepsBallGrabbed'
    BY <1>5 DEF LateReply, HolderKeepsBallGrabbed, AtMostOneHolder, Claim,
      OneMessageInFlight, SlotMeansGrabbing, TimersFollowState, Awaiting, BallStarted, InLoop
  <2>7. AtMostOneHolder'
    BY <1>5 DEF LateReply, HolderKeepsBallGrabbed, AtMostOneHolder, Claim,
      OneMessageInFlight, SlotMeansGrabbing, TimersFollowState, Awaiting, BallStarted, InLoop
  <2> QED
    BY <2>1, <2>2, <2>3, <2>4, <2>5, <2>6, <2>7 DEF LocalInv
<1>6. CASE LoseBackend
  BY <1>6 DEF LoseBackend, OneMessageInFlight, SlotMeansGrabbing, TimersFollowState, Awaiting,
    BallStarted, InLoop, HolderKeepsBallGrabbed, AtMostOneHolder, Claim, Running, OnBall, TypeOK,
    playerVars, busVars
<1> QED
  BY <1>1, <1>2, <1>3, <1>4, <1>5, <1>6 DEF Environment

LEMMA InitInv == Init => IInv
<1> SUFFICES ASSUME Init PROVE IInv
  OBVIOUS
<1>1. TypeOK
  BY InitTypeOK
<1>2. fallTimer = FALSE /\ \A p \in Players : ~grabTimer[p] /\ ~dropTimer[p] /\ ~slot[p]
  BY Zenon DEF Init
<1>3. \A p \in Players : ~Claim(p) /\ ~Running(p) /\ calls[p] = {} /\ reply[p] = "none"
  BY DEF Init, Claim, OnBall, Running
<1>4. OneMessageInFlight /\ SlotMeansGrabbing /\ Awaiting
  BY <1>2, <1>3 DEF OneMessageInFlight, SlotMeansGrabbing, Awaiting
<1>5. TimersFollowState
  BY <1>2, <1>3 DEF TimersFollowState, OnBall
<1>6. BallStarted
  BY DEF Init, BallStarted, InLoop
<1>7. HolderKeepsBallGrabbed /\ AtMostOneHolder
  BY <1>3 DEF HolderKeepsBallGrabbed, AtMostOneHolder
<1> QED
  BY <1>1, <1>4, <1>5, <1>6, <1>7 DEF IInv, LocalInv

\* Every step of the game preserves the invariant.
LEMMA NextInv == IInv /\ [Next]_vars => IInv'
<1> SUFFICES ASSUME IInv, [Next]_vars PROVE IInv'
  OBVIOUS
<1>1. TypeOK'
  BY NextTypeOK DEF IInv
<1>2. CASE Ball
  BY <1>1, <1>2, BallInv DEF IInv
<1>3. CASE \E p \in Players : Player(p)
  BY <1>1, <1>3, PlayerInv DEF IInv
<1>4. CASE Environment
  BY <1>1, <1>4, EnvironmentInv DEF IInv
<1>5. CASE Over \/ UNCHANGED vars
  <2> USE DEF vars, ballVars, playerVars, busVars, IInv, LocalInv
  <2>1. UNCHANGED vars
    BY <1>5 DEF Over
  <2>2. OneMessageInFlight' /\ SlotMeansGrabbing' /\ Awaiting' /\ TimersFollowState' /\ BallStarted'
    BY <2>1 DEF OneMessageInFlight, SlotMeansGrabbing, Awaiting, TimersFollowState, BallStarted,
                InLoop, OnBall, Running
  <2>3. HolderKeepsBallGrabbed' /\ AtMostOneHolder'
    BY <2>1 DEF HolderKeepsBallGrabbed, AtMostOneHolder, Claim, OnBall, Running
  <2> QED
    BY <1>1, <2>2, <2>3
<1> QED
  BY <1>2, <1>3, <1>4, <1>5 DEF Next

LEMMA Invariance == Spec => []IInv
  BY InitInv, NextInv, PTL DEF Spec

-----------------------------------------------------------------------------
(* The promises. *)

\* Two players are never on the ball together, for any set of players and under
\* every failure short of a restart of the ball (Ball_impl_grab, player.c).
THEOREM MutualExclusion == Spec => []AtMostOneHolder
<1>1. IInv => AtMostOneHolder
  BY DEF IInv
<1> QED
  BY <1>1, Invariance, PTL

\* As long as a player claims the ball, ball.c refuses every other grab.
THEOREM HolderIsSafe == Spec => []HolderKeepsBallGrabbed
<1>1. IInv => HolderKeepsBallGrabbed
  BY DEF IInv
<1> QED
  BY <1>1, Invariance, PTL

\* grab, answer and drop of one player never overtake each other, restarts
\* included (client-Ball.c, server-Ball.c).
THEOREM MessagesInOrder == Spec => []OneMessageInFlight
<1>1. IInv => OneMessageInFlight
  BY DEF IInv, LocalInv
<1> QED
  BY <1>1, Invariance, PTL

\* player_do_free never meets a pending call (-EBUSY of cc_Ball_grab_async).
THEOREM GrabNeverBusy == Spec => []SlotMeansGrabbing
<1>1. IInv => SlotMeansGrabbing
  BY DEF IInv, LocalInv
<1> QED
  BY <1>1, Invariance, PTL

\* No timer fires into a state that ignores it (ball.c, player.c).
THEOREM TimersInStep == Spec => []TimersFollowState
<1>1. IInv => TimersFollowState
  BY DEF IInv, LocalInv
<1> QED
  BY <1>1, Invariance, PTL

\* ball_data.state leaves grabbed only when the drop of the player that claims
\* the ball is served, although Ball_impl_drop never asks who is calling.
THEOREM DropsAreTheHolders == Spec => OnlyHolderDrops
<1>1. ASSUME IInv, [Next]_vars, boots' <= 1, state = "grabbed", state' # "grabbed"
      PROVE  \E p \in Players : Claim(p) /\ ~Claim(p)'
  <2> USE <1>1 DEF IInv, LocalInv
  <2>1. ~BallLaunch
    BY DEF BallLaunch, BallStarted, InLoop, TypeOK
  <2>2. ~BallInitial /\ ~Land /\ \A p \in Players : ~ServeGrab(p)
    BY DEF BallInitial, Land, ServeGrab, After, BallStarted, InLoop, TimersFollowState
  <2>3. \A p \in Players : ~Player(p)
    BY DEF Player, GrabTimeout, GrabAsync, GrabResponse, GrabError, DropTimeout, ballVars
  <2>4. ~Environment /\ ~Over /\ ~UNCHANGED vars
    BY DEF Environment, LoseBackend, BallStop, PlayerLaunch, PlayerStop, GrabExpired, LateReply,
      Over, vars, ballVars
  <2>5. PICK p \in Players : ServeDrop(p)
    BY <2>1, <2>2, <2>3, <2>4 DEF Next, Ball
  <2>6. Claim(p)
    BY <2>5 DEF ServeDrop, Claim
  <2>7. ~Claim(p)'
    BY <2>5 DEF ServeDrop, Claim, TypeOK, OneMessageInFlight, OnBall, Running, playerVars
  <2> QED
    BY <2>6, <2>7
<1> QED
  BY <1>1, Invariance, PTL DEF Spec, OnlyHolderDrops

-----------------------------------------------------------------------------
(* Nobody is stuck.                                                        *)

\* Without hazards the ball hears its players, and every grab and every answer
\* belongs to a pending call.
NothingAmiss ==
  Hazards = {} => /\ server # "deaf"
                  /\ \A p \in Players : "grab" \in calls[p] \/ reply[p] # "none" => slot[p]

LEMMA NothingAmissInv == IInv /\ NothingAmiss /\ [Next]_vars => NothingAmiss'
<1> SUFFICES ASSUME IInv, NothingAmiss, [Next]_vars, Hazards = {} PROVE NothingAmiss'
  BY DEF NothingAmiss
<1> USE DEF IInv, LocalInv, TypeOK, ballVars, playerVars, busVars, Running, OnBall, NothingAmiss
<1>1. CASE Ball
  BY <1>1 DEF Ball, BallLaunch, BallInitial, Land, ServeGrab, ServeDrop
<1>2. ASSUME NEW p \in Players, Player(p) PROVE NothingAmiss'
  <2>1. CASE GrabTimeout(p)
    BY <1>2, <2>1 DEF GrabTimeout, GrabAsync, Send
  <2>2. CASE GrabResponse(p) \/ GrabError(p)
    BY <1>2, <2>2 DEF GrabResponse, GrabError, ReleaseSlot, OneMessageInFlight
  <2>3. CASE DropTimeout(p)
    BY <1>2, <2>3 DEF DropTimeout, Send, Leave, SlotMeansGrabbing, TimersFollowState
  <2> QED
    BY <1>2, <2>1, <2>2, <2>3 DEF Player
<1>3. CASE Environment
  BY <1>3 DEF Environment, LoseBackend, BallStop, PlayerLaunch, PlayerStop, GrabExpired, LateReply
<1>4. CASE Over \/ UNCHANGED vars
  BY <1>4 DEF Over, vars
<1> QED
  BY <1>1, <1>2, <1>3, <1>4 DEF Next

\* A step of a player leaves every other player alone, and itself with a timer
\* or a grab that is under way.
LEMMA PlayerNotStuck ==
  ASSUME NEW p \in Players, Player(p), IInv, NobodyStuck, Hazards = {}
  PROVE  NobodyStuck'
<1> USE DEF IInv, LocalInv, TypeOK, ballVars, playerVars, busVars, Running, OnBall, Claim,
        NobodyStuck
<1>1. CASE GrabTimeout(p)
  BY <1>1 DEF GrabTimeout, GrabAsync, Send, SlotMeansGrabbing, TimersFollowState
<1>2. CASE GrabResponse(p)
  BY <1>2 DEF GrabResponse, ReleaseSlot, SlotMeansGrabbing
<1>3. CASE GrabError(p)
  BY <1>3 DEF GrabError, OneMessageInFlight
<1>4. CASE DropTimeout(p)
  BY <1>4 DEF DropTimeout, Send, Leave, TimersFollowState
<1> QED
  BY <1>1, <1>2, <1>3, <1>4 DEF Player

\* A step of the ball answers a grab it takes off the bus, and changes state only
\* with a claimant or a timer to change it again.
LEMMA BallNotStuck ==
  ASSUME Ball, IInv, NobodyStuck, Hazards = {}
  PROVE  NobodyStuck'
<1> USE DEF IInv, LocalInv, TypeOK, ballVars, playerVars, busVars, Running, OnBall, Claim,
        NobodyStuck
<1>1. CASE BallLaunch \/ BallInitial
  BY <1>1 DEF BallLaunch, BallInitial, BallStarted, InLoop
<1>2. CASE Land
  BY <1>2 DEF Land, After, TimersFollowState
<1>3. ASSUME NEW p \in Players, ServeGrab(p) PROVE NobodyStuck'
  BY <1>3 DEF ServeGrab, After, OneMessageInFlight, TimersFollowState
<1>4. ASSUME NEW p \in Players, ServeDrop(p) PROVE NobodyStuck'
  BY <1>4 DEF ServeDrop, After, OneMessageInFlight
<1> QED
  BY <1>1, <1>2, <1>3, <1>4 DEF Ball

\* Without hazards the environment only launches players, once the ball is there.
LEMMA EnvironmentNotStuck ==
  ASSUME Environment, IInv, NothingAmiss, NobodyStuck, Hazards = {}
  PROVE  NobodyStuck'
<1> USE DEF IInv, LocalInv, TypeOK, ballVars, playerVars, busVars, Running, OnBall, Claim,
        NobodyStuck
<1>1. ~LoseBackend /\ ~BallStop /\ \A p \in Players : ~PlayerStop(p) /\ ~GrabExpired(p)
  BY DEF LoseBackend, BallStop, PlayerStop, GrabExpired
<1>2. ASSUME NEW p \in Players, PlayerLaunch(p) PROVE NobodyStuck'
  <2>1. server \in {"named", "serving"}
    BY <1>2 DEF PlayerLaunch, NothingAmiss
  <2> QED
    BY <1>2, <2>1 DEF PlayerLaunch
<1>3. \A p \in Players : ~LateReply(p)
  BY DEF LateReply, NothingAmiss
<1> QED
  BY <1>1, <1>2, <1>3 DEF Environment

\* When nothing fails, no step of ball.c or player.c loses the last timer, call or
\* answer that would make a process go on.
THEOREM GameNotStuck == Spec => []NobodyStuck
<1>1. Init => NobodyStuck /\ NothingAmiss
  BY DEF Init, NobodyStuck, NothingAmiss, Running
<1>2. IInv /\ NothingAmiss /\ NobodyStuck /\ [Next]_vars => NobodyStuck'
  <2> SUFFICES ASSUME IInv, NothingAmiss, NobodyStuck, [Next]_vars, Hazards = {} PROVE NobodyStuck'
    BY DEF NobodyStuck
  <2>1. CASE Ball
    BY <2>1, BallNotStuck
  <2>2. CASE \E p \in Players : Player(p)
    BY <2>2, PlayerNotStuck
  <2>3. CASE Environment
    BY <2>3, EnvironmentNotStuck
  <2>4. CASE Over \/ UNCHANGED vars
    BY <2>4 DEF Over, vars, ballVars, playerVars, busVars, NobodyStuck, Running, OnBall, Claim
  <2> QED
    BY <2>1, <2>2, <2>3, <2>4 DEF Next
<1> QED
  BY <1>1, <1>2, NothingAmissInv, Invariance, PTL DEF Spec

-----------------------------------------------------------------------------
(* The game implements the token.                                          *)

\* The first ball process, and with it the token, is still there.
FirstBall == boots <= 1
OneBall == IInv /\ FirstBall

\* No step brings the first ball back.
LEMMA BallsOnlyGrow == ASSUME IInv, [Next]_vars, FirstBall' PROVE FirstBall
<1>1. CASE BallLaunch
  BY <1>1, MaxBootsAssumption DEF BallLaunch, IInv, LocalInv, TypeOK, FirstBall
<1>2. CASE UNCHANGED boots
  BY <1>2 DEF FirstBall
<1>3. BallLaunch \/ UNCHANGED boots
  BY DEF Next, Ball, Player, Environment, Over, vars, ballVars, BallInitial, Land,
    ServeGrab, ServeDrop, GrabTimeout, GrabAsync, GrabResponse, GrabError, DropTimeout, LoseBackend,
    BallStop, PlayerLaunch, PlayerStop, GrabExpired, LateReply
<1> QED
  BY <1>1, <1>2, <1>3

\* The refinement mapping names the only claimant, if there is one.
LEMMA HolderIsClaimant ==
  ASSUME OneBall
  PROVE  /\ \A p \in Players : Claim(p) => Holder = p
         /\ (\A p \in Players : ~Claim(p)) => Holder = NoOne
         /\ Holder \in Players \cup {NoOne}
         /\ Holder # NoOne => Holder \in Players /\ Claim(Holder)
<1>1. \A p, q \in Players : Claim(p) /\ Claim(q) => p = q
  BY DEF OneBall, FirstBall, IInv, AtMostOneHolder
<1>2. \A p \in Players : Claim(p) => Holder = p
  BY <1>1 DEF Holder, OneBall, FirstBall
<1>3. (\A p \in Players : ~Claim(p)) => Holder = NoOne
  BY DEF Holder
<1> QED
  BY <1>2, <1>3

\* A step that neither moves the ball nor adds a claim is a stutter or the
\* loss of the holder.
LEMMA NoNewClaim ==
  ASSUME OneBall, OneBall', Phase' = Phase, \A p \in Players : Claim(p)' => Claim(p)
  PROVE  [Token!Next]_(Token!token)
<1>1. /\ \A p \in Players : Claim(p)' => Holder' = p
      /\ (\A p \in Players : ~Claim(p)') => Holder' = NoOne
  <2>1. \A p, q \in Players : Claim(p)' /\ Claim(q)' => p = q
    BY DEF OneBall, FirstBall, IInv, AtMostOneHolder
  <2>2. \A p \in Players : Claim(p)' => Holder' = p
    BY <2>1 DEF Holder, OneBall, FirstBall
  <2>3. (\A p \in Players : ~Claim(p)') => Holder' = NoOne
    BY DEF Holder
  <2> QED
    BY <2>2, <2>3
<1>2. CASE \E p \in Players : Claim(p)'
  BY <1>1, <1>2, HolderIsClaimant DEF Token!token
<1>3. CASE \A p \in Players : ~Claim(p)'
  BY <1>1, <1>3, HolderIsClaimant DEF Token!token, Token!Next, Token!Abandon
<1> QED
  BY <1>2, <1>3

\* Only ServeGrab, ServeDrop and Land move the ball or add a claim.
LEMMA QuietStep ==
  ASSUME OneBall, OneBall', [Next]_vars,
         ~Land, \A p \in Players : ~ServeGrab(p) /\ ~ServeDrop(p)
  PROVE  Phase' = Phase /\ \A p \in Players : Claim(p)' => Claim(p)
<1> USE DEF OneBall, FirstBall, IInv, LocalInv, TypeOK, Claim, OnBall, Running, Phase,
        ballVars, playerVars, busVars
<1>1. CASE BallLaunch
  <2>1. state = "initial"
    BY <1>1 DEF BallLaunch, BallStarted, InLoop
  <2> QED
    BY <1>1, <2>1 DEF BallLaunch
<1>2. CASE BallInitial
  BY <1>2 DEF BallInitial, BallStarted, InLoop
<1>3. CASE LoseBackend \/ BallStop
  BY <1>3 DEF LoseBackend, BallStop
<1>4. ASSUME NEW p \in Players, Player(p)
      PROVE  Phase' = Phase /\ \A q \in Players : Claim(q)' => Claim(q)
  <2>1. CASE GrabTimeout(p)
    BY <1>4, <2>1 DEF GrabTimeout, GrabAsync, Send
  <2>2. CASE GrabResponse(p)
    BY <1>4, <2>2 DEF GrabResponse
  <2>3. CASE GrabError(p)
    BY <1>4, <2>3 DEF GrabError
  <2>4. CASE DropTimeout(p)
    BY <1>4, <2>4 DEF DropTimeout, Send, Leave, TimersFollowState
  <2> QED
    BY <1>4, <2>1, <2>2, <2>3, <2>4 DEF Player
<1>5. ASSUME NEW p \in Players,
             PlayerLaunch(p) \/ PlayerStop(p) \/ GrabExpired(p) \/ LateReply(p)
      PROVE  Phase' = Phase /\ \A q \in Players : Claim(q)' => Claim(q)
  BY <1>5 DEF PlayerLaunch, PlayerStop, GrabExpired, LateReply, Leave, ReleaseSlot
<1>6. CASE Over \/ UNCHANGED vars
  BY <1>6 DEF Over, vars
<1> QED
  BY <1>1, <1>2, <1>3, <1>4, <1>5, <1>6 DEF Next, Ball, Environment

\* A grab the ball serves is a grab of the token, or changes nothing.
LEMMA GrabStep ==
  ASSUME OneBall, OneBall', NEW p \in Players, ServeGrab(p)
  PROVE  [Token!Next]_(Token!token)
<1>1. CASE state = "resting"
  <2>1. \A q \in Players : ~Claim(q)
    BY <1>1 DEF OneBall, FirstBall, IInv, HolderKeepsBallGrabbed
  <2>2. Holder = NoOne
    BY <2>1, HolderIsClaimant
  <2>3. Phase = "resting" /\ Phase' = "held"
    BY <1>1 DEF ServeGrab, After, Phase, OneBall, FirstBall
  <2>4. Holder' \in Players \cup {NoOne}
    BY DEF Holder
  <2> QED
    BY <2>2, <2>3, <2>4 DEF Token!Next, Token!Grab
<1>2. CASE state # "resting"
  <2>1. Phase' = Phase /\ \A q \in Players : Claim(q)' => Claim(q)
    BY <1>2 DEF ServeGrab, After, Phase, OneBall, FirstBall, IInv, LocalInv, TypeOK, BallStates,
      BallStarted, InLoop, Claim, OnBall, Running, playerVars
  <2> QED
    BY <2>1, NoNewClaim
<1> QED
  BY <1>1, <1>2

\* A drop the ball serves is the holder's drop.
LEMMA DropStep ==
  ASSUME OneBall, OneBall', NEW p \in Players, ServeDrop(p)
  PROVE  Token!Next
<1>1. Claim(p) /\ state = "grabbed" /\ Holder = p
  BY HolderIsClaimant DEF ServeDrop, Claim, OneBall, FirstBall, IInv, HolderKeepsBallGrabbed
<1>2. state' = "falling"
  BY <1>1 DEF ServeDrop, After
<1>3. \A q \in Players : ~Claim(q)'
  BY <1>2 DEF OneBall, FirstBall, IInv, HolderKeepsBallGrabbed
<1>4. Holder' = NoOne
  BY <1>3 DEF Holder
<1>5. Phase = "held" /\ Phase' = "falling"
  BY <1>1, <1>2 DEF OneBall, FirstBall, Phase
<1> QED
  BY <1>1, <1>4, <1>5, NoOneIsNoPlayer DEF Token!Next, Token!Drop

LEMMA LandStep == ASSUME OneBall, OneBall', Land PROVE Token!Next
<1>1. state = "falling" /\ state' = "resting"
  BY DEF Land, After, OneBall, IInv, LocalInv, TimersFollowState
<1>2. Holder = NoOne /\ Holder' = NoOne
  BY <1>1 DEF OneBall, FirstBall, IInv, HolderKeepsBallGrabbed, Holder
<1> QED
  BY <1>1, <1>2 DEF OneBall, FirstBall, Phase, Token!Next, Token!Land

\* A step to another ball replaces the token, or it is gone already.
LEMMA ReplaceStep ==
  ASSUME IInv, IInv', ~FirstBall'
  PROVE  [Token!Next]_(Token!token)
<1>1. boots \in Nat /\ boots' \in Nat
  BY DEF IInv, LocalInv, TypeOK
<1>2. Phase' = "gone" /\ Holder' = NoOne
  BY <1>1 DEF Phase, Holder, FirstBall
<1>3. CASE FirstBall
  BY <1>1, <1>2, <1>3 DEF FirstBall, Phase, Token!Next, Token!Replace
<1>4. CASE ~FirstBall
  BY <1>1, <1>2, <1>4 DEF FirstBall, Phase, Holder, Token!token
<1> QED
  BY <1>3, <1>4

\* ball.c and player.c together implement the token: every step of the game is a
\* step of BallToken or leaves the token alone.
THEOREM Refinement == Spec => ImplementsToken
<1>1. Init => Token!Init
  BY DEF Init, Token!Init, Phase, Holder, Claim, OnBall, Running
<1>2. IInv /\ IInv' /\ [Next]_vars => [Token!Next]_(Token!token)
  <2> SUFFICES ASSUME IInv, IInv', [Next]_vars PROVE [Token!Next]_(Token!token)
    OBVIOUS
  <2>1. CASE ~FirstBall'
    BY <2>1, ReplaceStep
  <2>2. CASE FirstBall'
    <3> OneBall /\ OneBall'
      BY <2>2, BallsOnlyGrow DEF OneBall
    <3>1. ASSUME NEW p \in Players, ServeGrab(p) PROVE [Token!Next]_(Token!token)
      BY <3>1, GrabStep
    <3>2. CASE \E p \in Players : ServeDrop(p)
      BY <3>2, DropStep
    <3>3. CASE Land
      BY <3>3, LandStep
    <3>4. CASE ~Land /\ \A p \in Players : ~ServeGrab(p) /\ ~ServeDrop(p)
      BY <3>4, QuietStep, NoNewClaim
    <3> QED
      BY <3>1, <3>2, <3>3, <3>4
  <2> QED
    BY <2>1, <2>2
<1> QED
  BY <1>1, <1>2, Invariance, PTL DEF Spec, ImplementsToken, Token!Spec
=============================================================================
