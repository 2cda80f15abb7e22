--------------------------- MODULE MCPsqlRestore ---------------------------
(* PsqlRestore for TLC; the sizes are in the configurations. *)
EXTENDS PsqlRestore
=============================================================================
