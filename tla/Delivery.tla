------------------------------ MODULE Delivery ------------------------------
(***************************************************************************)
(* Backup runs and the download of a restore-test around one S3 object:    *)
(* what the second command gets of what the first one put there.  The two  *)
(* commands are separate jobs; a backup may replace the object between any *)
(* two steps of the download.                                              *)
(***************************************************************************)
EXTENDS BackupRun

CONSTANT Chunks     \* length of a whole object in chunks

\* Less than a whole object can be more than nothing.
ASSUME DeliveryAssumption == Chunks \in Nat \ {0, 1}

VARIABLES reader, logged, response, written, onDisk, removeFailed, dump

Reader == INSTANCE Download WITH LastWriter <- MaxRuns

readerVars == <<reader, logged, response, written, onDisk, removeFailed, dump>>

deliveryVars == <<vars, readerVars>>

DeliveryInit == Init /\ Reader!ReaderInit

DeliveryNext ==
    \/ Next /\ UNCHANGED readerVars
    \/ Reader!ReaderNext /\ UNCHANGED vars

DeliverySpec == DeliveryInit /\ [][DeliveryNext]_deliveryVars

-----------------------------------------------------------------------------

\* Types of both jobs; a copy past the end of the response breaks it (io.Copy).
DeliveryTypeOK ==
    /\ TypeOK
    /\ reader \in Reader!ReaderStages
    /\ logged \in Reader!Stored
    /\ response \in [of : Reader!Stored, tellsLength : BOOLEAN]
    /\ written \in 0..Reader!Length(response.of)
    /\ onDisk \in BOOLEAN /\ removeFailed \in BOOLEAN
    /\ dump \in [etag : 0..MaxRuns, size : 0..Chunks]

\* A dump that is handed over to be restored is the whole SQL some backup run saw.
\* Neither command shows it alone: a cut dump with a good trailer passes the download's
\* validation and is kept out by pg_dump's exit status; an object the store cut passes
\* the backup up to HEAD and is kept out by the validation (DownloadAndExtract).
DeliveredIsWhole ==
    reader = "held" => /\ response.of.content = "complete"
                       /\ written = Chunks

\* ETag and size in the report are those of the file that is restored, although the
\* object may have been replaced since the connection check looked at it and may have
\* been replaced again since (Dump, setObject).
ReportMatchesFile ==
    reader \in {"held", "released"} => dump = [etag |-> response.of.run, size |-> written]

\* No ending leaves a temporary file behind unless removing it was tried and failed;
\* a partial file of a failed download is not reported, and this is the only way it
\* can come about (the error paths of DownloadAndExtract, Dump.cleanup).
LeftOnlyIfRemoveFailed ==
    reader \in {"failed", "released"} /\ onDisk => removeFailed
=============================================================================
