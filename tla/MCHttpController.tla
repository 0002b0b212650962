-------------------------- MODULE MCHttpController --------------------------
(* HttpController on small instances. *)
EXTENDS HttpController, TLC

=============================================================================
