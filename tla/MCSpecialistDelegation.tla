----------------------- MODULE MCSpecialistDelegation -----------------------
(* Instances of SpecialistDelegation for TLC. *)
EXTENDS SpecialistDelegation, TLC

CONSTANTS s1, x1, a1, t1, tech, finance, flash, cold, hot

Symmetry == Permutations(Roles) \cup Permutations(Generations)
=============================================================================
