--------------------------- MODULE MCVolumeFeature ---------------------------
(* VolumeFeature on small instances. *)
EXTENDS VolumeFeature, TLC

Symmetry == Permutations(Tasks) \cup Permutations(Nodes)

=============================================================================
