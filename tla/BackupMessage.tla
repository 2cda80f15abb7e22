---------------------------- MODULE BackupMessage ----------------------------
(***************************************************************************)
(* The Discord embed about a backup (backupEmbed and its parts in          *)
(* internal/notification/discord.go, of the result notifyBackup in main.go *)
(* makes of the run's summary), next to the runs it tells of.  A field is  *)
(* what it says; names, sizes and durations are "name", "size" and "time". *)
(* How a name is rendered is DiscordText.                                  *)
(***************************************************************************)
EXTENDS BackupRun

Description ==
    IF err = "nil" THEN "succeeded"
    ELSE IF summary.uploadVerified THEN "stored, then failed" ELSE "failed"

\* Names shown only for an object that was verified.
IdentityOnceVerified == IF summary.uploadVerified THEN "name" ELSE "unknown"

\* identityValue, for the database and the location alike: the summary has both or
\* none.  The file's field is the end of the location's key and left out here; of a
\* key that ends in a slash it says "unknown".
IdentityValue == IF summary.identityKnown THEN "name" ELSE "unknown"

SizeText == IF summary.sizeAvailable THEN "size" ELSE "unknown"

BackupPhaseText(p) ==
    CASE summary.phases[p] = "failure" -> "time, failed"
      [] summary.phases[p] = "skipped" -> "not run"
      [] summary.phases[p] = "success" -> "time"

BackupEmbed ==
    [ color       |-> embed,
      description |-> Description,
      identity    |-> IdentityValue,
      size        |-> SizeText,
      verified    |-> summary.uploadVerified,
      failedPhase |-> summary.failedPhase,
      timing      |-> [p \in Phases |-> BackupPhaseText(p)] ]

Sent == Ended /\ embed # "none"

\* An embed says all that an operator has to act on: it names the object and gives a
\* size whenever the run may have replaced it, it shows the removal failed whenever
\* the dump is still on the disk, also when the run had failed before that, and it
\* names a failed phase exactly if the run failed (backupEmbed, from one summary).
EmbedSuffices ==
    Sent =>
        /\ object.run = run => BackupEmbed.identity = "name" /\ BackupEmbed.size = "size"
        /\ temp # "absent" => BackupEmbed.timing["cleanup"] = "time, failed"
        /\ BackupEmbed.verified => DumpStored
        /\ BackupEmbed.failedPhase # "" <=> BackupEmbed.description # "succeeded"
=============================================================================
