--------------------------- MODULE MCVolumeService ---------------------------
(* VolumeService on small instances. *)
EXTENDS VolumeService, TLC

Symmetry == Permutations(Tasks) \cup Permutations(Nodes)

=============================================================================
