-------------------------- MODULE RestoreRefinement --------------------------
(* RestoreRun implements RestoreContract under this mapping. *)
EXTENDS RestoreRun

\* The exit code, once there is one.
Verdict ==
    CASE stage = "crashed" -> "crashed"
      [] stage = "exited"  -> IF err = "nil" THEN "ok" ELSE "failed"
      [] OTHER             -> "running"

\* What the database is good for.
Worth ==
    CASE database = "old"      -> "old"
      [] database = "restored" -> "whole"
      [] database = "analyzed" -> "good"
      [] OTHER                 -> "none"

\* The summary of an ended run says that recovery failed.
Alarm ==
    /\ stage = "exited"
    /\ result.recoveryAttempted /\ SafeSummary(result).recoveryStatus = "error"

Contract ==
    INSTANCE RestoreContract
        WITH verdict <- Verdict, begun <- result.initialized, web <- spec["web"],
             data <- Worth, alarm <- Alarm, doubt <- WebUpGivenUp

\* Every step of a run, of its failures and of the cluster is a step of the contract
\* or none: no order of failing calls, late requests, signals and crashes makes web
\* start on data that is not restored and analyzed, replaces data under a web that is
\* asked for, changes anything after a success, or ends a run in a verdict the contract
\* does not allow (runWithResult, recover).
KeepsContract == Contract!Spec
=============================================================================
