---------------------------- MODULE MCF1Bringup ----------------------------
(* Instances of F1Bringup for TLC. *)
EXTENDS F1Bringup
CONSTANTS d1, d2

(* DUs differ in nothing but their names (for safety only). *)
DuSymmetry == Permutations(Dus)
=============================================================================
