---------------------------- MODULE MC_Generator ----------------------------
(***************************************************************************)
(* Model checking of the generator with two interfaces. Integers of one    *)
(* byte take four values here, and every other double is a float.          *)
(***************************************************************************)
EXTENDS Generator, TLC

MCInterfaces == <<"Ball", "Smartie">>
MCHalf == (1 :> 2) @@ (2 :> 4) @@ (4 :> 8) @@ (8 :> 16)
MCTypes == {"BOOLEAN", "INT8", "UINT8", "FLOAT", "STRING"}
MCSamples ==
  [BOOLEAN |-> {0, 1}, INT8 |-> {-2, -1, 1}, UINT8 |-> {0, 1, 3}, FLOAT |-> {-2, 4}]

=============================================================================
