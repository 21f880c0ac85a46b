--------------------------- MODULE MC_OfsmScript ---------------------------
(***************************************************************************)
(* The orchestra of MC_OfsmLive, run from a script: the second group's     *)
(* queue takes one event, which a script can fill before a heartbeat.      *)
(***************************************************************************)
EXTENDS OfsmScript, MC_Ofsm

Script_Effects ==
    [tick  |-> {After(0), After(2)},
     kick  |-> Live_Effects["kick"],
     start |-> {After(0)},
     rest  |-> {DeepAfter(2), [Asks EXCEPT !.infinite = TRUE, !.deep = TRUE]}]
=============================================================================
