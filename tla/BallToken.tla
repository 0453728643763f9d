----------------------------- MODULE BallToken -----------------------------
(***************************************************************************)
(* What the game promises, without processes, timers and messages: the     *)
(* ball is a token that one player at a time may hold, that only its       *)
(* holder lets fall, and that nobody holds before it has come to rest.     *)
(* The price of failures is that a held ball may lose its holder and then  *)
(* stays held by no one for ever, and that a ball that is replaced ends    *)
(* the game: the new one knows nothing of the old holder.                  *)
(***************************************************************************)
CONSTANTS Players, NoOne

VARIABLES phase, holder

token == <<phase, holder>>

TokenTypeOK ==
  /\ phase \in {"resting", "held", "falling", "gone"}
  /\ holder \in Players \cup {NoOne}

Init == phase = "resting" /\ holder = NoOne

\* The ball is given to p, or to someone who will never hear of it.
Grab ==
  /\ phase = "resting" /\ phase' = "held"
  /\ holder' \in Players \cup {NoOne}

\* The holder lets the ball fall.
Drop ==
  /\ phase = "held" /\ holder # NoOne
  /\ phase' = "falling" /\ holder' = NoOne

\* The holder is gone and the ball does not know.
Abandon == holder # NoOne /\ holder' = NoOne /\ UNCHANGED phase

Land == phase = "falling" /\ phase' = "resting" /\ UNCHANGED holder

\* The ball is replaced by another one.
Replace == phase # "gone" /\ phase' = "gone" /\ holder' = NoOne

Next == Grab \/ Drop \/ Abandon \/ Land \/ Replace

Spec == Init /\ [][Next]_token
=============================================================================
