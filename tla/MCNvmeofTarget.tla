--------------------------- MODULE MCNvmeofTarget ---------------------------
(* NvmeofTarget on small instances. *)
EXTENDS NvmeofTarget, TLC

=============================================================================
