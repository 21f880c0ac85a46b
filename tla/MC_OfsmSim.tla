----------------------------- MODULE MC_OfsmSim -----------------------------
(* A queue of two slots, one event code besides TIMEOUT.                   *)
EXTENDS OfsmSim
=============================================================================
