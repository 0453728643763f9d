----------------------------- MODULE MC_Smartie -----------------------------
(* The instance of Smartie for TLC. *)
EXTENDS Smartie
=============================================================================
