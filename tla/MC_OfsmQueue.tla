---------------------------- MODULE MC_OfsmQueue ----------------------------
(* A queue of three slots, three event codes and two data values.          *)
EXTENDS OfsmQueue
=============================================================================
