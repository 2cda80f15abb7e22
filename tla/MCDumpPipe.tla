---------------------------- MODULE MCDumpPipe ----------------------------
(* DumpPipe for TLC; the sizes are in the configurations. *)
EXTENDS DumpPipe
=============================================================================
