--------------------------- MODULE MCVertexClient ---------------------------
(* VertexClient for TLC. *)
EXTENDS VertexClient, TLC

=============================================================================
