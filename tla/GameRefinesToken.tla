-------------------------- MODULE GameRefinesToken --------------------------
(***************************************************************************)
(* The game implements the token of BallToken: a refinement mapping from   *)
(* messages and process states to who holds the ball of the first ball     *)
(* process.  With the second one the token is gone.                        *)
(***************************************************************************)
EXTENDS Game

CONSTANT NoOne

ASSUME NoOneIsNoPlayer == NoOne \notin Players

Phase == IF boots <= 1
         THEN CASE state = "grabbed" -> "held"
                [] state = "falling" -> "falling"
                [] OTHER -> "resting"
         ELSE "gone"

Holder == IF boots <= 1 /\ \E p \in Players : Claim(p)
          THEN CHOOSE p \in Players : Claim(p)
          ELSE NoOne

Token == INSTANCE BallToken WITH phase <- Phase, holder <- Holder

\* Every step of the game is a step of the token or leaves it alone: a player
\* holds the ball from the moment the ball grants it (ball_do_resting) until the
\* ball serves its drop (ball_do_grabbed), or it loses it by dying, timing out
\* or losing a message.  A second ball (main of ball.c) replaces the token.
ImplementsToken == Token!Spec
=============================================================================
