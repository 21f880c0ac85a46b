------------------------------ MODULE OfsmTime ------------------------------
(***************************************************************************)
(* The time of OFSM: a w-bit tick counter that wraps, and the comparison   *)
(* macros that try to look through the wrap with one overflow flag per     *)
(* side ("ao", "bo": the value lies after the wrap).                       *)
(***************************************************************************)
EXTENDS Naturals

CONSTANT Modulus    \* 2^w for a w-bit _OFSM_TIME_DATA_TYPE

ASSUME ModulusAssumption == Modulus \in Nat \ {0}

\* The register that holds a tick count, and its largest value (0xFFFFFFFF).
Register(ticks) == ticks % Modulus
MaxTime == Modulus - 1

\* A plausible fault: the moment itself does not count as reached.
_OFSM_TIME_A_GTE_B_strict(a, ao, b, bo) == a > b /\ (ao \/ ~bo)

\* A plausible fault: the moment itself still counts as ahead.
_OFSM_TIME_A_GT_B_orEqual(a, ao, b, bo) == a >= b /\ (ao \/ ~bo)

_OFSM_TIME_A_GT_B(a, ao, b, bo) == a > b /\ (ao \/ ~bo)
_OFSM_TIME_A_GTE_B(a, ao, b, bo) == a >= b /\ (ao \/ ~bo)
=============================================================================
