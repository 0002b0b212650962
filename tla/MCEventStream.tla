---------------------------- MODULE MCEventStream ----------------------------
(* EventStream on small instances. *)
EXTENDS EventStream, TLC

Symmetry == Permutations(Tasks) \cup Permutations(Streams)

=============================================================================
