------------------------------ MODULE MC_Stub ------------------------------
(* The instance of Stub for TLC; MC_Stub.cfg gives the constants.          *)
EXTENDS Stub
=============================================================================
