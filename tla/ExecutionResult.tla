--------------------------- MODULE ExecutionResult ---------------------------
(***************************************************************************)
(* The bookkeeping record of one restore-test run and the operations on    *)
(* it (internal/restore/result.go).  Every operation is a pure function    *)
(* from a record to a record; RestoreRun applies them where the code calls *)
(* the methods.  Times and durations are left out, an error is a label and *)
(* "" is Go's empty string.  A phase without an entry in the Go map phases *)
(* reads as "skipped", as report() and safeSummary() print it.             *)
(***************************************************************************)
EXTENDS Integers

Phases == {"preflight", "prepare", "restore", "verify", "cleanup"}

PhaseStatuses == {"success", "failure", "skipped"}

\* The position of a phase in phaseOrder.
PhaseIndex(phase) ==
    CASE phase = "preflight" -> 0
      [] phase = "prepare"   -> 1
      [] phase = "restore"   -> 2
      [] phase = "verify"    -> 3
      [] phase = "cleanup"   -> 4

PhaseCount == 5

\* Where an error comes from: flag.ErrHelp, other bad input, a workflow step, the
\* recovery, the removal of the staged dump.  "nil" is no error.
Errors == {"nil", "help", "input", "step", "recovery step", "dump cleanup"}

Outcomes == {"", "success", "error"}

ExecutionResults ==
    [ currentPhase          : Phases \cup {""},
      nextPhase             : 0..PhaseCount,
      initialized           : BOOLEAN,
      failedPhase           : Phases \cup {""},
      firstErr              : Errors,
      recoveryErr           : SUBSET Errors,
      recoveryStatus        : Outcomes,
      recoveryAttempted     : BOOLEAN,
      phases                : [Phases -> PhaseStatuses],
      objectRecorded        : BOOLEAN,
      databaseSizeAttempted : BOOLEAN,
      databaseSizeAvailable : BOOLEAN,
      recoveryPhaseStatus   : Outcomes,
      tempCleanupStatus     : Outcomes ]

NewExecutionResult ==
    [ currentPhase          |-> "",
      nextPhase             |-> 0,
      initialized           |-> FALSE,
      failedPhase           |-> "",
      firstErr              |-> "nil",
      recoveryErr           |-> {},
      recoveryStatus        |-> "",
      recoveryAttempted     |-> FALSE,
      phases                |-> [p \in Phases |-> "skipped"],
      objectRecorded        |-> FALSE,
      databaseSizeAttempted |-> FALSE,
      databaseSizeAvailable |-> FALSE,
      recoveryPhaseStatus   |-> "",
      tempCleanupStatus     |-> "" ]

\* recoveryRequired that takes a failure in cleanup for the end of the run.
RecoveryRequiredBeforeCleanup(r) ==
    /\ r.initialized
    /\ r.failedPhase \notin {"", "preflight", "cleanup"}
    /\ ~r.recoveryAttempted

RecoveryRequired(r) ==
    /\ r.initialized
    /\ r.failedPhase \notin {"", "preflight"}
    /\ ~r.recoveryAttempted

\* The conditions under which beginPhase returns no error.
CanBegin(r, phase) ==
    /\ r.currentPhase = ""
    /\ \/ r.failedPhase = "" /\ PhaseIndex(phase) = r.nextPhase
       \/ r.failedPhase # "" /\ phase = "cleanup" /\ RecoveryRequired(r)

\* beginPhase, when CanBegin holds.
BeginPhase(r, phase) ==
    [r EXCEPT !.currentPhase      = phase,
              !.recoveryAttempted = @ \/ r.failedPhase # ""]

\* Cleanup that runs as recovery keeps the status of the normal phase.
IsRecovery(r, phase) == r.recoveryAttempted /\ phase = "cleanup"

\* completePhase of the active phase; with no phase active it changes nothing.
CompletePhase(r) ==
    IF r.currentPhase = "" THEN r
    ELSE IF IsRecovery(r, r.currentPhase)
         THEN [r EXCEPT !.recoveryStatus = "success", !.currentPhase = ""]
         ELSE [r EXCEPT
                 !.phases       = [@ EXCEPT ![r.currentPhase] = "success"],
                 !.nextPhase    = IF PhaseIndex(r.currentPhase) = @ THEN @ + 1 ELSE @,
                 !.currentPhase = ""]

RecordRecoveryError(r, err) ==
    [r EXCEPT !.recoveryStatus = "error", !.recoveryErr = @ \cup {err}]

\* failPhase without its test that the failed phase is still unset.
FailPhaseOverwritesFirst(r, phase, err) ==
    IF r.currentPhase # phase THEN r
    ELSE [r EXCEPT !.currentPhase = "", !.failedPhase = phase, !.firstErr = err,
                   !.phases = [@ EXCEPT ![phase] = "failure"]]

\* failPhase of the active phase; it changes nothing when phase is not active.
FailPhase(r, phase, err) ==
    IF r.currentPhase # phase THEN r
    ELSE IF IsRecovery(r, phase)
         THEN RecordRecoveryError([r EXCEPT !.currentPhase = ""], err)
         ELSE LET closed == [r EXCEPT !.currentPhase = "",
                                      !.phases = [@ EXCEPT ![phase] = "failure"]]
              IN  IF r.failedPhase # "" THEN closed
                  ELSE [closed EXCEPT !.failedPhase = phase, !.firstErr = err]

FailCompletedPhase(r, phase, err) ==
    IF r.failedPhase # "" THEN RecordRecoveryError(r, err)
    ELSE [r EXCEPT !.failedPhase = phase, !.firstErr = err,
                   !.phases = [@ EXCEPT ![phase] = "failure"]]

MarkInitialized(r) == [r EXCEPT !.initialized = TRUE]

\* setObject with a staged dump.
SetObject(r) == [r EXCEPT !.objectRecorded = TRUE]

\* The state in which both the report and the summary speak of success.
AllPhasesDone(r) ==
    r.failedPhase = "" /\ r.currentPhase = "" /\ r.nextPhase = PhaseCount

\* The final report of the structured log.
Report(r) ==
    [ result         |-> IF r.failedPhase # "" THEN "failure"
                         ELSE IF AllPhasesDone(r) THEN "success" ELSE "incomplete",
      failedPhase    |-> r.failedPhase,
      error          |-> IF r.failedPhase # "" THEN r.firstErr ELSE "nil",
      recoveryStatus |-> IF r.failedPhase # "" THEN r.recoveryStatus ELSE "",
      phases         |-> r.phases ]

\* safeSummary that reports the aggregate recovery status.
AggregateSummary(r) ==
    [ success               |-> AllPhasesDone(r),
      failedPhase           |-> r.failedPhase,
      recoveryAttempted     |-> r.recoveryAttempted,
      recoveryStatus        |-> r.recoveryStatus,
      tempCleanupStatus     |-> r.tempCleanupStatus,
      backupSizeAvailable   |-> r.objectRecorded,
      databaseSizeAttempted |-> r.databaseSizeAttempted,
      databaseSizeAvailable |-> r.databaseSizeAvailable,
      phases                |-> r.phases ]

\* The summary handed to the notification: the outcome of the recovery step
\* itself, when there was one, takes the place of the aggregate status.
SafeSummary(r) ==
    [ success               |-> AllPhasesDone(r),
      failedPhase           |-> r.failedPhase,
      recoveryAttempted     |-> r.recoveryAttempted,
      recoveryStatus        |-> IF r.recoveryPhaseStatus # "" THEN r.recoveryPhaseStatus
                                ELSE r.recoveryStatus,
      tempCleanupStatus     |-> r.tempCleanupStatus,
      backupSizeAvailable   |-> r.objectRecorded,
      databaseSizeAttempted |-> r.databaseSizeAttempted,
      databaseSizeAvailable |-> r.databaseSizeAvailable,
      phases                |-> r.phases ]
=============================================================================
