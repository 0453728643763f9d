----------------------------- MODULE MC_Backend -----------------------------
(* The instance of Backend for TLC: as in ref/simple, two instances share a *)
(* service name; a third one has a name of its own, which is the beginning  *)
(* of the shared one.  The other addresses are refused.                     *)
EXTENDS Backend, TLC

SomeAddresses ==
  {<<"S", "v", ":", "1", ":", "i">>, <<"S", "v", ":", "2", ":", "i">>, <<"S", ":", ":", ":">>,
   <<"S", "v">>, <<"S", "v", ":", "1">>}
TwoLetters == {"a", "b"}

ProcSymmetry == Permutations(Procs)
=============================================================================
