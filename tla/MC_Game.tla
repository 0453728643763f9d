------------------------------ MODULE MC_Game ------------------------------
(* Instances of Game for TLC. *)
EXTENDS Game

\* The environment of each kind of run.
NoHazards == {}
LaunchOrder == {"early"}
EveryHazard == AllHazards
=============================================================================
