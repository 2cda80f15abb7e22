------------------------------ MODULE DumpPipe ------------------------------
(***************************************************************************)
(* One call of dump() (internal/backup/dump.go): pg_dump writes SQL into a *)
(* bounded pipe, the calling goroutine copies it through a gzip writer     *)
(* into the temporary file, and a goroutine of os/exec kills pg_dump when  *)
(* the context is done.  The three run concurrently.                       *)
(*                                                                         *)
(* The SQL is counted in blocks.  pg_dump is trusted in one point: it      *)
(* exits with status 0 only after it has written everything.               *)
(***************************************************************************)
EXTENDS Integers, DumpOutcome

CONSTANTS
    Blocks,         \* length of the SQL
    PipeCapacity    \* blocks the pipe holds

ASSUME SizesAssumption ==
    /\ Blocks \in Nat
    /\ PipeCapacity \in Nat \ {0}

VARIABLES
    worker,     \* where dump() is
    child,      \* the pg_dump process; "zombie ..." has exited and is not waited for
    produced,   \* blocks pg_dump has written
    pipe,       \* blocks in the pipe
    written,    \* blocks the gzip writer has accepted
    copyErr,    \* io.Copy returned an error, which the gzip writer keeps
    waitErr,    \* cmd.Wait returned an error
    file,       \* the compressed dump
    failed,     \* dump() returned an error
    canceled,   \* the context is done
    signaled    \* os/exec has killed the process because of the context

vars == <<worker, child, produced, pipe, written, copyErr, waitErr, file, failed,
          canceled, signaled>>

Workers  == {"start", "copy", "kill", "wait", "close", "returned"}
Children == {"unborn", "running", "zombie ok", "zombie failed", "reaped"}

\* Types and ranges of one call of dump().
TypeOK ==
    /\ worker   \in Workers
    /\ child    \in Children
    /\ produced \in 0..Blocks
    /\ pipe     \in 0..PipeCapacity
    /\ written  \in 0..Blocks
    /\ file     \in Dumps
    /\ copyErr \in BOOLEAN /\ waitErr  \in BOOLEAN
    /\ failed  \in BOOLEAN /\ canceled \in BOOLEAN /\ signaled \in BOOLEAN

Init ==
    /\ worker = "start" /\ child = "unborn"
    /\ produced = 0 /\ pipe = 0 /\ written = 0
    /\ copyErr = FALSE /\ waitErr = FALSE /\ failed = FALSE
    /\ file = "partial"
    /\ canceled = FALSE /\ signaled = FALSE

-----------------------------------------------------------------------------
(* dump().                                                                 *)

\* StdoutPipe or Start fails, Start also because the context is done.
StartFails ==
    /\ worker = "start"
    /\ worker' = "returned" /\ failed' = TRUE
    /\ UNCHANGED <<child, produced, pipe, written, copyErr, waitErr, file, canceled, signaled>>

Start ==
    /\ worker = "start" /\ ~canceled
    /\ worker' = "copy" /\ child' = "running"
    /\ UNCHANGED <<produced, pipe, written, copyErr, waitErr, file, failed, canceled, signaled>>

CopyBlock ==
    /\ worker = "copy" /\ pipe > 0
    /\ pipe' = pipe - 1 /\ written' = written + 1
    /\ UNCHANGED <<worker, child, produced, copyErr, waitErr, file, failed, canceled, signaled>>

\* The read fails, or the disk is full.
CopyFails ==
    /\ worker = "copy"
    /\ copyErr' = TRUE /\ worker' = "kill"
    /\ UNCHANGED <<child, produced, pipe, written, waitErr, file, failed, canceled, signaled>>

\* End of file: the pipe is drained and its only writer is gone.
CopyEnds ==
    /\ worker = "copy" /\ pipe = 0 /\ child # "running"
    /\ worker' = "wait"
    /\ UNCHANGED <<child, produced, pipe, written, copyErr, waitErr, file, failed,
                   canceled, signaled>>

\* Waiting for pg_dump without killing it first.
WaitWithoutKill ==
    /\ worker = "kill"
    /\ worker' = "wait"
    /\ UNCHANGED <<child, produced, pipe, written, copyErr, waitErr, file, failed,
                   canceled, signaled>>

KillChild ==
    /\ worker = "kill"
    /\ worker' = "wait"
    /\ child' = IF child = "running" THEN "zombie failed" ELSE child
    /\ UNCHANGED <<produced, pipe, written, copyErr, waitErr, file, failed, canceled, signaled>>

\* Returning from a failed copy without reaping the process.
WaitUnlessCopyFailed ==
    /\ worker = "wait"
    /\ copyErr \/ child \in {"zombie ok", "zombie failed"}
    /\ worker' = "close"
    /\ child' = IF copyErr THEN child ELSE "reaped"
    /\ waitErr' = (child = "zombie failed" \/ signaled)
    /\ UNCHANGED <<produced, pipe, written, copyErr, file, failed, canceled, signaled>>

\* Wait reports a failed exit, and the context's error when os/exec has killed
\* a process that had just exited by itself.
Wait ==
    /\ worker = "wait" /\ child \in {"zombie ok", "zombie failed"}
    /\ worker' = "close"
    /\ child' = "reaped"
    /\ waitErr' = (child = "zombie failed" \/ signaled)
    /\ UNCHANGED <<produced, pipe, written, copyErr, file, failed, canceled, signaled>>

Finished == IF written = Blocks THEN "complete" ELSE "truncated"

\* CloseAndReturn that looks at the gzip writer's error only.
CloseIgnoringExitStatus ==
    /\ worker = "close"
    /\ worker' = "returned"
    /\ \E closeErr \in BOOLEAN :
           /\ file' = IF closeErr THEN "partial" ELSE Finished
           /\ failed' = (copyErr \/ closeErr)
    /\ UNCHANGED <<child, produced, pipe, written, copyErr, waitErr, canceled, signaled>>

\* compressed.Close writes what is buffered and the trailer, after a failed
\* pg_dump too; after a failed write of its own it writes nothing.  A read error
\* leaves the writer intact.
CloseAndReturn ==
    /\ worker = "close"
    /\ worker' = "returned"
    /\ \E closeErr \in BOOLEAN :
           /\ file' = IF closeErr THEN "partial" ELSE Finished
           /\ failed' = (copyErr \/ waitErr \/ closeErr)
    /\ UNCHANGED <<child, produced, pipe, written, copyErr, waitErr, canceled, signaled>>

\* What dump() does when it is scheduled and nothing new goes wrong.
Worker ==
    \/ StartFails \/ Start
    \/ CopyBlock \/ CopyEnds
    \/ KillChild \/ Wait \/ CloseAndReturn

-----------------------------------------------------------------------------
(* pg_dump, os/exec, and the signal.                                       *)

WriteBlock ==
    /\ child = "running" /\ produced < Blocks /\ pipe < PipeCapacity
    /\ produced' = produced + 1 /\ pipe' = pipe + 1
    /\ UNCHANGED <<worker, child, written, copyErr, waitErr, file, failed, canceled, signaled>>

ChildSucceeds ==
    /\ child = "running" /\ produced = Blocks
    /\ child' = "zombie ok"
    /\ UNCHANGED <<worker, produced, pipe, written, copyErr, waitErr, file, failed,
                   canceled, signaled>>

\* The server drops the connection, or something outside kills pg_dump.
ChildFails ==
    /\ child = "running"
    /\ child' = "zombie failed"
    /\ UNCHANGED <<worker, produced, pipe, written, copyErr, waitErr, file, failed,
                   canceled, signaled>>

Cancel ==
    /\ ~canceled /\ worker # "returned"
    /\ canceled' = TRUE
    /\ UNCHANGED <<worker, child, produced, pipe, written, copyErr, waitErr, file, failed,
                   signaled>>

\* The watching goroutine of exec.CommandContext; killing a zombie succeeds too.
ContextKill ==
    /\ canceled /\ child \in {"running", "zombie ok", "zombie failed"} /\ ~signaled
    /\ signaled' = TRUE
    /\ child' = IF child = "running" THEN "zombie failed" ELSE child
    /\ UNCHANGED <<worker, produced, pipe, written, copyErr, waitErr, file, failed, canceled>>

Next ==
    \/ Worker \/ CopyFails
    \/ WriteBlock \/ ChildSucceeds \/ ChildFails
    \/ Cancel \/ ContextKill

Spec == Init /\ [][Next]_vars

\* dump() and the watching goroutine are scheduled; pg_dump may hang for ever.
FairSpec == Spec /\ WF_vars(Worker) /\ WF_vars(ContextKill)

-----------------------------------------------------------------------------
(* Correctness.                                                            *)

\* dump() keeps the promise BackupRun builds on: nil means the whole SQL is in the
\* file.  A pg_dump that dies half-way leaves a gzip file that passes every check,
\* so only the exit status stands between it and the upload (the last condition).
ReturnsDumpOutcome ==
    worker = "returned" => [file |-> file, failed |-> failed] \in DumpOutcomes

\* The return leaves no pg_dump behind, running or zombie, whichever of the copy,
\* the process and the signal came first (Kill and Wait before the return).
NoProcessLeft == worker = "returned" => child \in {"unborn", "reaped"}

\* A failed write and a signal end the call although pg_dump hangs, or blocks on
\* the full pipe that nobody reads any more (Kill before Wait, CommandContext).
EndsDespiteHang == copyErr \/ canceled ~> worker = "returned"
=============================================================================
