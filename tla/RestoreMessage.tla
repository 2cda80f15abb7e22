--------------------------- MODULE RestoreMessage ---------------------------
(***************************************************************************)
(* The text of the Discord message about a restore test                    *)
(* (FormatRestoreResult in internal/notification/discord.go, of the result *)
(* that notifyRestoreTest in main.go makes of the run's summary), next to  *)
(* the runs it tells of.  A line is what it says: durations and sizes are  *)
(* "time" and "size".                                                      *)
(***************************************************************************)
EXTENDS RestoreRun

Summary == SafeSummary(result)

TempCleanup == NotificationStatus(Summary.tempCleanupStatus)
Recovery    == NotificationStatus(Summary.recoveryStatus)

PhaseText(st) ==
    CASE st = "skipped" -> "not run"
      [] st = "failure" -> "time, failed"
      [] OTHER          -> "time"

SizeText(available) == IF available THEN "size" ELSE "unknown"

DbSize ==
    IF Summary.databaseSizeAttempted /\ ~Summary.databaseSizeAvailable THEN "unavailable"
    ELSE SizeText(Summary.databaseSizeAvailable)

\* A cleanup line that speaks for the file also when the phase did not run.
CleanupStatusOfFile ==
    IF TempCleanup = "failure" THEN "failure" ELSE Summary.phases["cleanup"]

\* The phase's line speaks for the removal of the file as well, if the phase ran.
CleanupStatus ==
    IF Summary.phases["cleanup"] # "skipped" /\ TempCleanup = "failure" THEN "failure"
    ELSE Summary.phases["cleanup"]

PhaseLine(p) == PhaseText(IF p = "cleanup" THEN CleanupStatus ELSE Summary.phases[p])

RecoveryLine ==
    IF ~Summary.recoveryAttempted THEN "none"
    ELSE IF Recovery = "success" THEN "time, succeeded" ELSE PhaseText(Recovery)

\* A line of its own only when the run has failed with its cleanup phase.
TempLineAfterFailedCleanup ==
    IF TempCleanup = "" \/ Summary.phases["cleanup"] # "failure" THEN "none"
    ELSE PhaseText(TempCleanup)

TempLine ==
    IF TempCleanup = "" \/ Summary.phases["cleanup"] # "skipped" THEN "none"
    ELSE PhaseText(TempCleanup)

FormatRestoreResult ==
    [ state       |-> IF err = "nil" THEN "succeeded" ELSE "failed",
      failedPhase |-> Summary.failedPhase,
      dbSize      |-> DbSize,
      backupSize  |-> SizeText(Summary.backupSizeAvailable),
      phases      |-> [p \in Phases |-> PhaseLine(p)],
      recovery    |-> RecoveryLine,
      tempCleanup |-> TempLine ]

Message == FormatRestoreResult

Failures ==
    {p \in Phases : Message.phases[p] = "time, failed"}
    \cup {l \in {"recovery", "tempCleanup"} : Message[l] = "time, failed"}

Told == Ended /\ notice = "sent"

\* A staged file left behind shows as a failed removal; web still up shows as a failed
\* recovery, and a recovery that is said to have succeeded has brought web down, unless
\* the update that raises web was given up on: then the verify phase shows failed and
\* the recovery has a line, which cannot know better (the merged and separate lines).
LeftoversHaveALine ==
    Told =>
        /\ tempFile = "staged" => Failures \cap {"cleanup", "tempCleanup"} # {}
        /\ result.initialized /\ spec["web"] = 1 =>
             \/ "recovery" \in Failures
             \/ WebUpGivenUp /\ "verify" \in Failures /\ Message.recovery # "none"
        /\ Message.recovery = "time, succeeded" => spec["web"] = 0 \/ WebUpGivenUp

\* What is said of sizes is said of this run's data: of the database only after the
\* dump was restored into it, of the object only when it was downloaded.
SizesAreOfThisRun ==
    /\ Message.dbSize # "unknown" => database \in {"restored", "analyzed"}
    /\ Message.backupSize = "size" <=> tempFile = "staged" \/ Summary.tempCleanupStatus = "success"

\* No line contradicts the first: a success shows no failure and no phase that did not
\* run; a failure shows the failed phase's line failed, times before it and, the lines
\* about recovery and the file aside, nothing run after it; and no size is shown of data
\* that is not this run's (FormatRestoreResult).
LinesAgree ==
    Told =>
        /\ SizesAreOfThisRun
        /\ Message.state = "succeeded" =>
             /\ Failures = {} /\ Message.recovery = "none" /\ Message.failedPhase = ""
             /\ \A p \in Phases : Message.phases[p] = "time"
        /\ Message.state = "failed" =>
             \A p \in Phases :
                 Message.phases[p] = IF p = Message.failedPhase THEN "time, failed"
                                     ELSE IF PhaseBefore(p, Message.failedPhase)
                                     THEN "time" ELSE "not run"
=============================================================================
