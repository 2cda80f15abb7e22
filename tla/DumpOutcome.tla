---------------------------- MODULE DumpOutcome ----------------------------
(***************************************************************************)
(* What the compressed dump on disk can be, and what dump() of             *)
(* internal/backup/dump.go promises of it to its caller.  BackupRun takes  *)
(* the promise as its dump step; DumpPipe shows how it is kept.            *)
(*                                                                         *)
(*   partial    the gzip stream is not finished                            *)
(*   truncated  a finished gzip stream that lacks the end of the SQL       *)
(*   complete   a finished gzip stream of the whole SQL                    *)
(***************************************************************************)

Dumps == {"partial", "truncated", "complete"}

\* What gzip's trailer tells: the stream was finished, whatever went into it.
GzipValid(file) == file \in {"truncated", "complete"}

\* dump(): nil comes with a complete file only, an error with any.
DumpOutcomes ==
    {o \in [file : Dumps, failed : BOOLEAN] : ~o.failed => o.file = "complete"}

\* dump() that does not look at pg_dump's exit status.
DumpOutcomesWithoutExitStatus ==
    {o \in [file : Dumps, failed : BOOLEAN] : ~o.failed => GzipValid(o.file)}
=============================================================================
