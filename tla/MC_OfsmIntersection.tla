------------------------ MODULE MC_OfsmIntersection ------------------------
(***************************************************************************)
(* The intersection, with the constants of Ofsm as the application         *)
(* declares them (OfsmIntersection!IntersectionAssumption).                *)
(*                                                                         *)
(* The compiler lays the two event queues out in the reverse order of      *)
(* their declarations (as gcc does when it optimises): an event that       *)
(* misses the roads' queue hits the crosswalk's.                           *)
(***************************************************************************)
EXTENDS OfsmIntersection
MC_Fsm == Road \cup {"CrosswalkFsm"}
MC_QueueSize == << 2, 2 >>
MC_QueueAfter == << 0, 1 >>
MC_InterruptEvents == {Queues(CrosswalkGrp, BUTTON_PRESSED, FALSE)}
=============================================================================
