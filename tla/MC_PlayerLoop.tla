---- MODULE MC_PlayerLoop ----
(* The instance of PlayerLoop for TLC. *)
EXTENDS PlayerLoop

\* What sd_bus_attach_event in cc_backend_startup adds to the backend loop: the
\* bus socket in both directions and the timeout of pending calls.
BusSources == {"input", "output", "time"}
====
