--------------------------- MODULE MCRegionRuntime ---------------------------
(* Instances of RegionRuntime for TLC.                                     *)
EXTENDS RegionRuntime, TLC

\* Identifiers are interchangeable, so the safety runs use their symmetry.
Symmetry == Permutations(Regions) \cup Permutations(Tasks) \cup Permutations(Obligations)
=============================================================================
