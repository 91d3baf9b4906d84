----------------------------- MODULE MCLevelSync -----------------------------
(* The instances of LevelSync that TLC checks: destinations are model values *)
(* and the bounds are in the .cfg files.                                     *)
EXTENDS LevelSync, TLC

\* Destinations are interchangeable (for the run that states no liveness).
DestSymmetry == Permutations(Dests)
=============================================================================
