------------------------------ MODULE BackupRun ------------------------------
(***************************************************************************)
(* Runs of `kinakomate backup` that write one S3 object                    *)
(* (internal/backup/backup.go, result.go, validate.go and s3.go).          *)
(*                                                                         *)
(* A run is one sequential process; stage is its control: preflight, the   *)
(* temporary file, the dump, its validation, the upload, the size check by *)
(* HEAD, the removal of the temporary file, the notification.  A call to   *)
(* S3 or to the file system is one action, taken when the call returns.    *)
(* An upload that was given up on, or was under way when a signal or the   *)
(* end of the process came, may still replace the object later: late.  The *)
(* dump is DumpOutcomes, which DumpPipe models in detail.                  *)
(***************************************************************************)
EXTENDS Integers, DumpOutcome

CONSTANTS
    Disturbances,   \* what may go wrong: a subset of {"fault", "cancel", "crash"}
    MaxRuns         \* bound: runs started one after the other

\* A signal makes calls in flight fail, so it comes with failing calls.
ASSUME BackupAssumption ==
    /\ Disturbances \subseteq {"fault", "cancel", "crash"}
    /\ "cancel" \in Disturbances => "fault" \in Disturbances
    /\ MaxRuns \in Nat \ {0}

VARIABLES
    stage,      \* where the process is
    canceled,   \* the signal context is done
    summary,    \* RunSummary without sizes and times
    err,        \* the error the run returns
    temp,       \* the temporary file: "absent" or one of Dumps
    object,     \* the S3 object under the configured key
    late,       \* what an upload sends that nobody waits for any more, or that
                \* was under way when the signal came; "none" without one
    embed,      \* the colour of the Discord embed sent, or "none"
    run         \* the number of this run

vars == <<stage, canceled, summary, err, temp, object, late, embed, run>>

Phases == {"preflight", "dump", "validate", "upload", "cleanup"}

\* The position of a phase in phaseNames.
PhaseIndex(phase) ==
    CASE phase = "preflight" -> 0
      [] phase = "dump"      -> 1
      [] phase = "validate"  -> 2
      [] phase = "upload"    -> 3
      [] phase = "cleanup"   -> 4

\* flag.ErrHelp, the loader's own error, and one error per phase.
Errors == {"nil", "help", "config"} \cup Phases

Stages == {"preflight", "create temp", "dump", "validate", "upload", "head",
           "cleanup", "notify", "exited", "crashed"}

Summaries ==
    [ failedPhase    : Phases \cup {""},
      phases         : [Phases -> {"success", "failure", "skipped"}],
      sizeAvailable  : BOOLEAN,
      uploadVerified : BOOLEAN,
      identityKnown  : BOOLEAN ]

NewSummary ==
    [ failedPhase    |-> "",
      phases         |-> [p \in Phases |-> "skipped"],
      sizeAvailable  |-> FALSE,
      uploadVerified |-> FALSE,
      identityKnown  |-> FALSE ]

\* What can be under the key, by whom: the object a run has put is the dump or,
\* when the store misbehaves, less than was sent.  Run 0 is whatever was there.
Objects == [ run : 0..MaxRuns, content : {"none", "short"} \cup Dumps ]

\* Types of one sequence of runs.
TypeOK ==
    /\ stage    \in Stages
    /\ canceled \in BOOLEAN
    /\ summary  \in Summaries
    /\ err      \in Errors
    /\ temp     \in Dumps \cup {"absent"}
    /\ object   \in Objects
    /\ late     \in Dumps \cup {"none"}
    /\ embed    \in {"none", "green", "amber", "red"}
    /\ run      \in 1..MaxRuns

Init ==
    /\ stage = "preflight" /\ canceled = FALSE
    /\ summary = NewSummary /\ err = "nil"
    /\ temp = "absent"
    /\ object \in [run : {0}, content : {"none", "complete"}]
    /\ late = "none"
    /\ embed = "none"
    /\ run = 1

Fault == "fault" \in Disturbances

-----------------------------------------------------------------------------
(* runPhase.                                                               *)

Succeeded(s, phase) == [s EXCEPT !.phases = [@ EXCEPT ![phase] = "success"]]

\* runPhase without its test that no earlier phase has failed.
FailsLast(s, phase) ==
    /\ summary' = [s EXCEPT !.phases = [@ EXCEPT ![phase] = "failure"],
                            !.failedPhase = phase]
    /\ err' = phase

\* A phase function returned an error: the first one is the run's.
Fails(s, phase) ==
    LET failed == [s EXCEPT !.phases = [@ EXCEPT ![phase] = "failure"]]
    IN  IF err = "nil"
        THEN summary' = [failed EXCEPT !.failedPhase = phase] /\ err' = phase
        ELSE summary' = failed /\ UNCHANGED err

Succeeds(s, phase) == summary' = Succeeded(s, phase) /\ UNCHANGED err

-----------------------------------------------------------------------------
(* The phases.                                                             *)

\* finishRun is not reached: main prints the usage and returns nil.
Help ==
    /\ stage = "preflight" /\ Fault
    /\ err' = "help" /\ stage' = "exited"
    /\ UNCHANGED <<canceled, summary, temp, object, late, embed, run>>

\* Stray arguments, a done context, a bad configuration, no storage client.  The
\* loader's error replaces the phase's; later failures know the target.
PreflightFails ==
    /\ stage = "preflight"
    /\ Fault \/ canceled
    /\ LET failed == [summary EXCEPT !.failedPhase = "preflight",
                                     !.phases = [@ EXCEPT !["preflight"] = "failure"]]
       IN  \/ summary' = failed /\ err' \in {"preflight", "config"}
           \/ summary' = [failed EXCEPT !.identityKnown = TRUE] /\ err' = "preflight"
    /\ stage' = "notify"
    /\ UNCHANGED <<canceled, temp, object, late, embed, run>>

Preflight ==
    /\ stage = "preflight" /\ ~canceled
    /\ Succeeds([summary EXCEPT !.identityKnown = TRUE], "preflight")
    /\ stage' = "create temp"
    /\ UNCHANGED <<canceled, temp, object, late, embed, run>>

\* With no path there is nothing to remove.  Chmod can fail after the creation.
CreateTempFails ==
    /\ stage = "create temp"
    /\ Fault \/ canceled
    /\ Fails(summary, "dump")
    /\ \/ stage' = "notify" /\ UNCHANGED temp
       \/ Fault /\ stage' = "cleanup" /\ temp' = "partial"
    /\ UNCHANGED <<canceled, object, late, embed, run>>

CreateTemp ==
    /\ stage = "create temp" /\ ~canceled
    /\ temp' = "partial"
    /\ stage' = "dump"
    /\ UNCHANGED <<canceled, summary, err, object, late, embed, run>>

\* dump() under the signal context, then the close of the file.
DumpFails ==
    /\ stage = "dump"
    /\ Fault \/ canceled
    /\ \E o \in DumpOutcomes : temp' = o.file
    /\ Fails(summary, "dump")
    /\ stage' = "cleanup"
    /\ UNCHANGED <<canceled, object, late, embed, run>>

\* DumpReturns with the promise of a dump() that ignores pg_dump's exit status.
DumpReturnsUnchecked ==
    /\ stage = "dump" /\ ~canceled
    /\ \E o \in DumpOutcomesWithoutExitStatus : ~o.failed /\ temp' = o.file
    /\ Succeeds(summary, "dump")
    /\ stage' = "validate"
    /\ UNCHANGED <<canceled, object, late, embed, run>>

DumpReturns ==
    /\ stage = "dump" /\ ~canceled
    /\ \E o \in DumpOutcomes : ~o.failed /\ temp' = o.file
    /\ Succeeds(summary, "dump")
    /\ stage' = "validate"
    /\ UNCHANGED <<canceled, object, late, embed, run>>

\* Something cleans the temporary directory under the running process.
TempVanishes ==
    /\ Fault
    /\ stage \in {"validate", "upload", "cleanup"} /\ temp # "absent"
    /\ temp' = "absent"
    /\ UNCHANGED <<stage, canceled, summary, err, object, late, embed, run>>

\* validateGzip reads the whole stream; the size is known once the file is open.
ValidateFails ==
    /\ stage = "validate"
    /\ Fault \/ canceled \/ ~GzipValid(temp)
    /\ \E available \in BOOLEAN :
           /\ available => ~canceled /\ temp # "absent"
           /\ Fails([summary EXCEPT !.sizeAvailable = available], "validate")
    /\ stage' = "cleanup"
    /\ UNCHANGED <<canceled, temp, object, late, embed, run>>

Validate ==
    /\ stage = "validate" /\ ~canceled
    /\ GzipValid(temp)
    /\ Succeeds([summary EXCEPT !.sizeAvailable = TRUE], "validate")
    /\ stage' = "upload"
    /\ UNCHANGED <<canceled, temp, object, late, embed, run>>

\* The store replaces an object as a whole; a faulty one keeps less than it got.
Stored(file) == [run : {run}, content : {file} \cup (IF Fault THEN {"short"} ELSE {})]

\* The upload that may be under way at this moment, when something disturbs it.
UnderWay == IF stage = "upload" /\ temp # "absent" /\ ~canceled THEN {temp} ELSE {}

\* An open that fails and a call that finds its context done send nothing; any
\* other failed call may leave its upload under way.
UploadFails ==
    /\ stage = "upload"
    /\ Fault \/ canceled
    /\ late' \in {late} \cup UnderWay
    /\ Fails(summary, "upload")
    /\ stage' = "cleanup"
    /\ UNCHANGED <<canceled, temp, object, embed, run>>

\* Upload of a file that could not be opened.
UploadUnopened ==
    /\ stage = "upload" /\ ~canceled
    /\ object' \in Stored(temp)
    /\ stage' = "head"
    /\ UNCHANGED <<canceled, summary, err, temp, late, embed, run>>

\* An upload the signal has overtaken may still return nil.
Upload ==
    /\ stage = "upload"
    /\ \/ ~canceled /\ temp # "absent" /\ object' \in Stored(temp)
       \/ late # "none" /\ object' \in Stored(late)
    /\ late' = "none"
    /\ stage' = "head"
    /\ UNCHANGED <<canceled, summary, err, temp, embed, run>>

\* The store has received it all: whatever has become of the run, the object is
\* replaced.  What never lands was lost.
Land ==
    /\ late # "none"
    /\ object' \in Stored(late)
    /\ late' = "none"
    /\ UNCHANGED <<stage, canceled, summary, err, temp, embed, run>>

\* The HEAD request fails or tells another size than the validated file's.
HeadFails ==
    /\ stage = "head"
    /\ Fault \/ canceled \/ object.content = "short"
    /\ Fails(summary, "upload")
    /\ stage' = "cleanup"
    /\ UNCHANGED <<canceled, temp, object, late, embed, run>>

\* HeadMatches that trusts the answer without comparing sizes.
HeadUncompared ==
    /\ stage = "head" /\ ~canceled
    /\ Succeeds([summary EXCEPT !.uploadVerified = TRUE], "upload")
    /\ stage' = "cleanup"
    /\ UNCHANGED <<canceled, temp, object, late, embed, run>>

\* The sizes agree.  The uploaded file's close error counts only now.
HeadMatches ==
    /\ stage = "head" /\ ~canceled /\ object.content # "short"
    /\ LET verified == [summary EXCEPT !.uploadVerified = TRUE]
       IN  Succeeds(verified, "upload") \/ (Fault /\ Fails(verified, "upload"))
    /\ stage' = "cleanup"
    /\ UNCHANGED <<canceled, temp, object, late, embed, run>>

\* Cleanup whose failure does not count.
CleanupErrorIgnored ==
    /\ stage = "cleanup"
    /\ \/ temp' = "absent" \/ (Fault /\ UNCHANGED temp)
    /\ Succeeds(summary, "cleanup")
    /\ stage' = "notify"
    /\ UNCHANGED <<canceled, object, late, embed, run>>

\* os.Remove takes no context; a file that is gone already is no error.
Cleanup ==
    /\ stage = "cleanup"
    /\ \/ temp' = "absent" /\ Succeeds(summary, "cleanup")
       \/ Fault /\ temp # "absent" /\ UNCHANGED temp /\ Fails(summary, "cleanup")
    /\ stage' = "notify"
    /\ UNCHANGED <<canceled, object, late, embed, run>>

\* backupColor that looks at the phases of the upload instead of its verification.
ColorByUploadPhase ==
    IF err = "nil" THEN "green"
    ELSE IF summary.phases["validate"] = "success" THEN "amber" ELSE "red"

Color ==
    IF err = "nil" THEN "green" ELSE IF summary.uploadVerified THEN "amber" ELSE "red"

\* Without a webhook nothing is sent, and a failed request is only logged.
Notify ==
    /\ stage = "notify"
    /\ embed' \in {"none", Color}
    /\ stage' = "exited"
    /\ UNCHANGED <<canceled, summary, err, temp, object, late, run>>

-----------------------------------------------------------------------------
(* Signals, crashes, and the next run.                                     *)

Running == stage \notin {"exited", "crashed"}

Cancel ==
    /\ "cancel" \in Disturbances
    /\ Running /\ ~canceled
    /\ canceled' = TRUE
    /\ late' \in {late} \cup UnderWay
    /\ UNCHANGED <<stage, summary, err, temp, object, embed, run>>

\* SIGKILL, eviction, a lost node.
Crash ==
    /\ "crash" \in Disturbances
    /\ Running
    /\ late' \in {late} \cup UnderWay
    /\ stage' = "crashed"
    /\ UNCHANGED <<canceled, summary, err, temp, object, embed, run>>

\* A new process with a temporary file of its own; there is one at a time, and what
\* is under way when a run ends is over when the next begins.
NextRun ==
    /\ ~Running /\ run < MaxRuns
    /\ run' = run + 1
    /\ stage' = "preflight" /\ canceled' = FALSE
    /\ summary' = NewSummary /\ err' = "nil"
    /\ temp' = "absent" /\ late' = "none" /\ embed' = "none"
    /\ UNCHANGED object

Worker ==
    \/ Help \/ Preflight \/ PreflightFails
    \/ CreateTemp \/ CreateTempFails
    \/ DumpReturns \/ DumpFails
    \/ Validate \/ ValidateFails
    \/ Upload \/ UploadFails \/ HeadMatches \/ HeadFails
    \/ Cleanup \/ Notify

Next == Worker \/ Land \/ TempVanishes \/ Cancel \/ Crash \/ NextRun

Spec == Init /\ [][Next]_vars

-----------------------------------------------------------------------------
(* Correctness.                                                            *)

Ended == stage = "exited"

\* The object under the key is this run's whole dump.
DumpStored == object = [run |-> run, content |-> "complete"]

\* From HEAD on to the end, "verified" is true of the object: what is under the key
\* is the whole dump of this run, not a short copy, not one of an earlier run and
\* not a cut dump with a good checksum (dump, validate, upload, head together).
VerifiedIsStored == summary.uploadVerified => DumpStored

\* Exit code 0 of a backup (help aside) means the dump is stored, verified and not
\* left on the disk; and the report says success of all five phases (finish).
SuccessMeansStored ==
    Ended /\ err = "nil" =>
        /\ DumpStored /\ summary.uploadVerified
        /\ temp = "absent"
        /\ \A p \in Phases : summary.phases[p] = "success"

\* The report tells one story: the failed phase is the first that failed, what came
\* before it succeeded, what came after was skipped except the cleanup, and the
\* error returned is that phase's (runPhase, the replaced configuration error).
ReportTruthful ==
    Ended /\ err \notin {"nil", "help"} =>
        LET at == PhaseIndex(summary.failedPhase)
        IN  /\ \/ err = summary.failedPhase
               \/ err = "config" /\ summary.failedPhase = "preflight"
            /\ summary.phases[summary.failedPhase] = "failure"
            /\ \A p \in Phases :
                 /\ PhaseIndex(p) < at => summary.phases[p] = "success"
                 /\ PhaseIndex(p) > at /\ p # "cleanup" => summary.phases[p] = "skipped"

\* A dump that stays on the disk after an exit is reported by a failed cleanup, also
\* when the run had failed before (the cleanup phase runs whatever happened).
TempAccounted ==
    Ended /\ temp # "absent" => err # "nil" /\ summary.phases["cleanup"] = "failure"

\* The colour can be trusted: green and amber say that the dump is under the key,
\* amber that something else failed, and red never hides a success (backupColor).
ColorHonest ==
    /\ embed \in {"green", "amber"} => DumpStored
    /\ embed = "green" => err = "nil"
    /\ embed \in {"amber", "red"} => err # "nil" /\ summary.failedPhase # ""

\* The object is replaced only by a run whose dump is whole and validated: no
\* failure, signal or crash lets a run destroy the last good backup for less, also
\* not by an upload that lands after the run has failed, was told to stop or is gone;
\* but for a store that keeps less than it was sent (no upload before dump and validate).
ReplacedOnlyByValidDump ==
    [][object' # object =>
          /\ summary.phases["validate"] = "success"
          /\ object'.run = run /\ object'.content \in {"complete", "short"}]_vars
=============================================================================
