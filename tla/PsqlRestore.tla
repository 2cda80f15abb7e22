---------------------------- MODULE PsqlRestore ----------------------------
(***************************************************************************)
(* One call of Restore (internal/restore/db.go): a goroutine of os/exec    *)
(* expands the staged gzip file into the standard input of psql, psql runs *)
(* it as one transaction on the server, another goroutine kills psql when  *)
(* the context is done, and the caller waits for all of them.              *)
(*                                                                         *)
(* psql knows the end of the dump only as the end of its input.  The       *)
(* feeding goroutine closes that input when the file is read and also when *)
(* reading fails; psql then commits what it has.                           *)
(***************************************************************************)
EXTENDS Integers, RestoreOutcome

CONSTANTS
    Statements,     \* length of the dump
    PipeCapacity    \* statements the pipe holds

ASSUME RestoreSizes ==
    /\ Statements \in Nat \ {0}
    /\ PipeCapacity \in Nat \ {0}

VARIABLES
    caller,     \* where Restore is
    feeder,     \* the goroutine that copies the gzip reader into the pipe
    fed,        \* statements it has written
    feedErr,    \* its copy ended with an error
    psql,       \* the process; "ok" and "failed" have exited and are not reaped
    tx,         \* the transaction on the server
    applied,    \* statements executed in it; psql has read these from the pipe
    waitErr,    \* the process or the context's kill made Wait fail
    failed,     \* Restore returned an error
    canceled,   \* the context is done
    signaled    \* os/exec has killed psql because of the context

vars == <<caller, feeder, fed, feedErr, psql, tx, applied, waitErr, failed,
          canceled, signaled>>

\* Types and ranges of one call of Restore: psql reads what was written.
TypeOK ==
    /\ caller  \in {"open", "wait", "join", "returned"}
    /\ feeder  \in {"none", "copying", "done"}
    /\ fed     \in 0..Statements
    /\ psql    \in {"unborn", "running", "ok", "failed", "reaped"}
    /\ tx      \in {"none", "open", "committing", "committed", "rolled back"}
    /\ applied \in 0..fed
    /\ fed - applied <= PipeCapacity
    /\ feedErr \in BOOLEAN /\ waitErr  \in BOOLEAN /\ failed \in BOOLEAN
    /\ canceled \in BOOLEAN /\ signaled \in BOOLEAN

Init ==
    /\ caller = "open" /\ feeder = "none" /\ psql = "unborn" /\ tx = "none"
    /\ fed = 0 /\ applied = 0
    /\ feedErr = FALSE /\ waitErr = FALSE /\ failed = FALSE
    /\ canceled = FALSE /\ signaled = FALSE

\* The target database, empty before the call.
Database ==
    IF tx # "committed" \/ applied = 0 THEN "empty"
    ELSE IF applied = Statements THEN "restored" ELSE "dirty"

-----------------------------------------------------------------------------
(* Restore and psqlRun.                                                    *)

\* The file or its gzip header cannot be read, or psql cannot be started; it is
\* not started under a context that is done.
OpenFails ==
    /\ caller = "open"
    /\ caller' = "returned" /\ failed' = TRUE
    /\ UNCHANGED <<feeder, fed, feedErr, psql, tx, applied, waitErr, canceled, signaled>>

Start ==
    /\ caller = "open" /\ ~canceled
    /\ caller' = "wait" /\ feeder' = "copying" /\ psql' = "running"
    /\ UNCHANGED <<fed, feedErr, tx, applied, waitErr, failed, canceled, signaled>>

\* Wait, first the process: its exit status, or the context's error when the kill
\* found a process that had just exited by itself.
Reap ==
    /\ caller = "wait" /\ psql \in {"ok", "failed"}
    /\ caller' = "join" /\ psql' = "reaped"
    /\ waitErr' = (psql = "failed" \/ signaled)
    /\ UNCHANGED <<feeder, fed, feedErr, tx, applied, failed, canceled, signaled>>

\* Join that leaves the feeder's error out, as a hand-written pump would.
JoinDroppingCopyError ==
    /\ caller = "join" /\ feeder = "done"
    /\ caller' = "returned"
    /\ failed' = waitErr
    /\ UNCHANGED <<feeder, fed, feedErr, psql, tx, applied, waitErr, canceled, signaled>>

\* Wait, then the goroutine: its error counts when the process had none.
Join ==
    /\ caller = "join" /\ feeder = "done"
    /\ caller' = "returned"
    /\ failed' = (waitErr \/ feedErr)
    /\ UNCHANGED <<feeder, fed, feedErr, psql, tx, applied, waitErr, canceled, signaled>>

Caller == OpenFails \/ Start \/ Reap \/ Join

-----------------------------------------------------------------------------
(* The feeding goroutine.                                                  *)

FeedStatement ==
    /\ feeder = "copying" /\ psql = "running"
    /\ fed < Statements /\ fed - applied < PipeCapacity
    /\ fed' = fed + 1
    /\ UNCHANGED <<caller, feeder, feedErr, psql, tx, applied, waitErr, failed, canceled, signaled>>

\* The gzip reader fails: a read error of the disk, a stream that is not valid.
FeedFails ==
    /\ feeder = "copying"
    /\ feeder' = "done" /\ feedErr' = TRUE
    /\ UNCHANGED <<caller, fed, psql, tx, applied, waitErr, failed, canceled, signaled>>

\* The end of the file, or a write to a process that has gone (EPIPE), which
\* os/exec does not count as an error.
FeedEnds ==
    /\ feeder = "copying"
    /\ fed = Statements \/ psql # "running"
    /\ feeder' = "done"
    /\ UNCHANGED <<caller, fed, feedErr, psql, tx, applied, waitErr, failed, canceled, signaled>>

Feeder == FeedStatement \/ FeedEnds

-----------------------------------------------------------------------------
(* psql, the server, and the signal.                                       *)

Begin ==
    /\ psql = "running" /\ tx = "none"
    /\ tx' = "open"
    /\ UNCHANGED <<caller, feeder, fed, feedErr, psql, applied, waitErr, failed, canceled, signaled>>

Apply ==
    /\ psql = "running" /\ tx = "open" /\ applied < fed
    /\ applied' = applied + 1
    /\ UNCHANGED <<caller, feeder, fed, feedErr, psql, tx, waitErr, failed, canceled, signaled>>

\* The input has ended; --single-transaction makes psql send COMMIT.
SendCommit ==
    /\ psql = "running" /\ tx = "open" /\ feeder = "done" /\ applied = fed
    /\ tx' = "committing"
    /\ UNCHANGED <<caller, feeder, fed, feedErr, psql, applied, waitErr, failed, canceled, signaled>>

\* The server decides by itself, whether psql still lives or not.
ServerDecides ==
    /\ tx = "committing"
    /\ tx' \in {"committed", "rolled back"}
    /\ UNCHANGED <<caller, feeder, fed, feedErr, psql, applied, waitErr, failed, canceled, signaled>>

PsqlSucceeds ==
    /\ psql = "running" /\ tx = "committed"
    /\ psql' = "ok"
    /\ UNCHANGED <<caller, feeder, fed, feedErr, tx, applied, waitErr, failed, canceled, signaled>>

\* A session that goes takes an open transaction with it.
Disconnected == IF tx = "open" THEN "rolled back" ELSE tx

\* No connection, a failing statement (ON_ERROR_STOP), a lost answer, a kill.
PsqlFails ==
    /\ psql = "running"
    /\ psql' = "failed" /\ tx' = Disconnected
    /\ UNCHANGED <<caller, feeder, fed, feedErr, applied, waitErr, failed, canceled, signaled>>

\* psql without the context: nothing is killed.
CommandWithoutContext == FALSE /\ UNCHANGED vars

ContextKill ==
    /\ canceled /\ ~signaled /\ psql \in {"running", "ok", "failed"}
    /\ signaled' = TRUE
    /\ IF psql = "running" THEN psql' = "failed" /\ tx' = Disconnected
                           ELSE UNCHANGED <<psql, tx>>
    /\ UNCHANGED <<caller, feeder, fed, feedErr, applied, waitErr, failed, canceled>>

Cancel ==
    /\ ~canceled /\ caller # "returned"
    /\ canceled' = TRUE
    /\ UNCHANGED <<caller, feeder, fed, feedErr, psql, tx, applied, waitErr, failed, signaled>>

Next ==
    \/ Caller \/ Feeder \/ FeedFails
    \/ Begin \/ Apply \/ SendCommit \/ ServerDecides \/ PsqlSucceeds \/ PsqlFails
    \/ ContextKill \/ Cancel

Spec == Init /\ [][Next]_vars

\* The goroutines of this process are scheduled; psql and the server may hang.
FairSpec == Spec /\ WF_vars(Caller) /\ WF_vars(Feeder) /\ WF_vars(ContextKill)

-----------------------------------------------------------------------------
(* Correctness.                                                            *)

\* Restore keeps the promise RestoreRun builds on: nil means that the whole dump is
\* committed.  A read that fails half-way looks to psql like the end of the dump
\* and ends in exit status 0; only the copy's error, which Wait returns after the
\* process, keeps half a database from being analyzed and verified (psqlRun).
ReturnsRestoreOutcome ==
    caller = "returned" => [database |-> Database, failed |-> failed] \in RestoreOutcomes

\* A signal ends the call although psql or the server hangs and the feeder blocks
\* on a full pipe (CommandContext, EPIPE when the reader is gone).
EndsOnSignal == canceled ~> caller = "returned"

\* The comment on Restore: the transaction is aborted on the first error, "never as
\* a partially-succeeded restore"; so no part of a dump is ever committed.
NeverPartlyRestored == Database # "dirty"
=============================================================================
