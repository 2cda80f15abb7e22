---------------------------- MODULE MCMisskeyApi ----------------------------
(* MisskeyApi for TLC; the times are in the configurations. *)
EXTENDS MisskeyApi
=============================================================================
