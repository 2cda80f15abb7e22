--------------------------- MODULE RestoreOutcome ---------------------------
(***************************************************************************)
(* What Restore of internal/restore/db.go promises of the freshly created  *)
(* database.  RestoreRun takes the promise as its restore step;            *)
(* PsqlRestore shows how far it is kept.                                   *)
(*                                                                         *)
(*   empty     nothing of the dump                                         *)
(*   dirty     a part of the dump, committed                               *)
(*   restored  the whole dump, committed                                   *)
(***************************************************************************)

\* Restore: nil comes with the whole dump only, an error with anything.
RestoreOutcomes ==
    {o \in [database : {"empty", "dirty", "restored"}, failed : BOOLEAN] :
         ~o.failed => o.database = "restored"}
=============================================================================
