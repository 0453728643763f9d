------------------------------ MODULE MC_Simple ------------------------------
(* The instance of Simple for TLC. *)
EXTENDS Simple
=============================================================================
