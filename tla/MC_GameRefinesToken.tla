------------------------ MODULE MC_GameRefinesToken ------------------------
(* The instance of GameRefinesToken for TLC. *)
EXTENDS GameRefinesToken

EveryHazard == AllHazards
=============================================================================
