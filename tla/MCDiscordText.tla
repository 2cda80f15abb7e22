--------------------------- MODULE MCDiscordText ---------------------------
(* DiscordText for TLC. *)
EXTENDS DiscordText
=============================================================================
