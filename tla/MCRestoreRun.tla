---------------------------- MODULE MCRestoreRun ----------------------------
(* Instances of RestoreRun, with its contract and its message, for TLC. *)
EXTENDS RestoreRefinement, RestoreMessage

Everything     == {"fault", "cancel", "crash"}
FaultsAndCancel == {"fault", "cancel"}
Nothing        == {}
=============================================================================
