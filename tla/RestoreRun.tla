----------------------------- MODULE RestoreRun -----------------------------
(***************************************************************************)
(* Runs of `kinakomate restore-test` against one cluster                   *)
(* (internal/restore/restore.go, runner.go and the clients they call).     *)
(*                                                                         *)
(* A run is one sequential process.  Its control is the pair stage / step: *)
(* preflight, then the twenty-one steps of the workflow in order, then     *)
(* recovery after a failed step, the deferred removal of the staged dump,  *)
(* the final report and the notification.  A call to Kubernetes, psql, S3  *)
(* or Misskey is one action, taken when the call returns, and the cluster  *)
(* moves between calls.  A call that returns nil has done what it was for. *)
(* One that returns an error, is told to stop, or loses its process may    *)
(* have sent its request: the request is then in the set late, and Land is *)
(* its effect, which comes at once, behind later steps, or never.          *)
(***************************************************************************)
EXTENDS ExecutionResult, Cluster, RestoreOutcome

CONSTANT
    MaxRuns         \* bound: runs started one after the other

ASSUME MaxRunsAssumption == MaxRuns \in Nat \ {0}

VARIABLES
    stage,      \* where the process is
    step,       \* the workflow step it executes, when stage is "workflow"
    canceled,   \* the signal context is done
    result,     \* the bookkeeping record, see ExecutionResult
    err,        \* the error the run returns
    tempFile,   \* the gzip file in the temporary directory
    late,       \* the steps whose request is still under way though nobody waits
    notice,     \* the Discord notification
    run         \* the number of this run

runVars == <<stage, step, canceled, result, err, tempFile, late, notice, run>>
vars    == <<clusterVars, runVars>>

Stages == {"preflight", "workflow", "recover", "dump cleanup", "report",
           "notify", "exited", "crashed"}

\* The steps of the four groups, in the order runWithResult lists them.  The
\* steps "reset database" and "db restore" are several calls each: pg_terminate,
\* DROP and CREATE are separate psql runs, and the size query follows the restore.
RecordReplicas == 1
CheckS3        == 2
CheckK8s       == 3
Download       == 4
ScaleWebDown   == 5
ScaleDbUp      == 6
WaitWebDown    == 7
WaitDbUp       == 8
CheckDb        == 9
Terminate      == 10
Drop           == 11
Create         == 12
RestoreDump    == 13
MeasureSize    == 14
AnalyzeDb      == 15
ScaleWebUp     == 16
WaitWebUp      == 17
AwaitReadiness == 18
CheckTimeline  == 19
CleanWeb       == 20
CleanDb        == 21

Steps == RecordReplicas..CleanDb

\* The steps that change something outside.
Scales    == {ScaleWebDown, ScaleDbUp, ScaleWebUp, CleanWeb, CleanDb}
Mutations == Scales \cup {Terminate, Drop, Create, RestoreDump, AnalyzeDb}

StepPhase(n) ==
    IF n <= Download THEN "prepare"
    ELSE IF n <= AnalyzeDb THEN "restore"
    ELSE IF n <= CheckTimeline THEN "verify"
    ELSE "cleanup"

\* Types of the runs and the cluster: a run that leaves the list of steps or a
\* record with an impossible phase breaks it (runWithResult, executionResult).
TypeOK ==
    /\ ClusterTypeOK
    /\ stage    \in Stages
    /\ step     \in Steps
    /\ canceled \in BOOLEAN
    /\ result   \in ExecutionResults
    /\ err      \in Errors
    /\ tempFile \in {"none", "staged", "orphan"}
    /\ late     \subseteq Mutations
    /\ notice   \in {"none", "sent", "lost"}
    /\ run      \in 1..MaxRuns

\* The record when runWithSummaryLogger has begun the preflight phase.
FirstResult == BeginPhase(NewExecutionResult, "preflight")

Init ==
    /\ ClusterInit
    /\ stage    = "preflight"
    /\ step     = RecordReplicas
    /\ canceled = FALSE
    /\ result   = FirstResult
    /\ err      = "nil"
    /\ tempFile = "none"
    /\ late     = {}
    /\ notice   = "none"
    /\ run      = 1

Fault == "fault" \in Disturbances

-----------------------------------------------------------------------------
(* Preflight: flags, configuration, construction of the clients.           *)

PreflightPasses ==
    /\ stage = "preflight"
    /\ stage' = "workflow"
    /\ result' = BeginPhase(CompletePhase(MarkInitialized(result)), "prepare")
    /\ UNCHANGED <<clusterVars, step, canceled, err, tempFile, late, notice, run>>

\* "help" is flag.ErrHelp; "input" any other flag, configuration or client error.
PreflightRejects ==
    /\ stage = "preflight" /\ Fault
    /\ err' \in {"help", "input"}
    /\ result' = FailPhase(result, "preflight", err')
    /\ stage' = "report"
    /\ UNCHANGED <<clusterVars, step, canceled, tempFile, late, notice, run>>

-----------------------------------------------------------------------------
(* What the requests do, whoever still waits for their answers.            *)

\* The workload that a scaling step writes, and the count it asks for.
Scaled(n) == IF n \in {ScaleDbUp, CleanDb} THEN "db" ELSE "web"
Count(n)  == IF n \in {ScaleDbUp, ScaleWebUp} THEN 1 ELSE 0

SetReplicas(n) ==
    /\ n \in Scales
    /\ spec' = [spec EXCEPT ![Scaled(n)] = Count(n)]
    /\ UNCHANGED <<database, session>>

EndSessions ==
    /\ DatabaseReachable
    /\ session' = FALSE
    /\ UNCHANGED <<spec, database>>

\* PostgreSQL refuses to drop a database with sessions.
DropDatabase ==
    /\ DatabaseReachable /\ ~session
    /\ database' = "absent"
    /\ UNCHANGED <<spec, session>>

CreateDatabase ==
    /\ DatabaseReachable /\ database = "absent"
    /\ database' = "empty"
    /\ UNCHANGED <<spec, session>>

\* One transaction that stops at psql's first error.  A failed call may have
\* committed the dump or, when reading it failed, a part of it (PsqlRestore).
LoadDump(failed) ==
    /\ DatabaseReachable /\ database = "empty"
    /\ \E o \in RestoreOutcomes : o.failed = failed /\ database' = o.database
    /\ UNCHANGED <<spec, session>>

AnalyzeTables ==
    /\ DatabaseReachable
    /\ database' = IF database = "restored" THEN "analyzed" ELSE database
    /\ UNCHANGED <<spec, session>>

\* An update carries the resourceVersion its caller read: a later write of the
\* object, by a controller or by recovery, makes the API server refuse it.  A write
\* that changes nothing does not.
Standing(requests) ==
    {n \in requests : n \in Scales => /\ spec'[Scaled(n)] = spec[Scaled(n)]
                                      /\ status'[Scaled(n)] = status[Scaled(n)]}

\* A request that nobody waits for takes effect.
Land(n) ==
    /\ n \in late
    /\ \/ SetReplicas(n)
       \/ n = Terminate   /\ EndSessions
       \/ n = Drop        /\ DropDatabase
       \/ n = Create      /\ CreateDatabase
       \/ n = RestoreDump /\ LoadDump(TRUE)
       \/ n = AnalyzeDb   /\ AnalyzeTables
    /\ UNCHANGED <<pod, status>>
    /\ late' = Standing(late \ {n})
    /\ UNCHANGED <<stage, step, canceled, result, err, tempFile, notice, run>>

-----------------------------------------------------------------------------
(* The workflow.                                                           *)

At(n) == stage = "workflow" /\ step = n

\* AdvanceWith with an off-by-one at the last step.
AdvancePastTheEnd(r) ==
    /\ step' = step + 1
    /\ result' = IF StepPhase(step + 1) = StepPhase(step) THEN r
                 ELSE BeginPhase(CompletePhase(r), StepPhase(step + 1))
    /\ UNCHANGED <<stage, err>>

\* The end of a step that returned nil, r being the record it leaves: the next
\* step, with the next phase begun at a border of groups, or the end.
AdvanceWith(r) ==
    IF step = CleanDb
    THEN /\ result' = CompletePhase(r)
         /\ stage' = "dump cleanup"
         /\ UNCHANGED <<step, err>>
    ELSE /\ step' = step + 1
         /\ result' = IF StepPhase(step + 1) = StepPhase(step) THEN r
                      ELSE BeginPhase(CompletePhase(r), StepPhase(step + 1))
         /\ UNCHANGED <<stage, err>>

Advance == AdvanceWith(result)

\* The end of a step that returned an error: runPhase fails the phase.
Abort ==
    /\ result' = FailPhase(result, StepPhase(step), "step")
    /\ err' = "step"
    /\ stage' = "recover"
    /\ UNCHANGED step

\* Calls made under a fresh background context.
NeverRefused == FALSE

\* Calls that hand the signal context on do not return nil once it is done: one not
\* begun is refused, one in flight is given up, and one that answers nil all the same
\* is as if the signal came after it.  CheckConnection's version query takes no context.
Refused == canceled /\ step # CheckK8s

\* What makes a step return an error even when nothing outside misbehaves.
StepBlocked ==
    \/ step \in CheckDb..AnalyzeDb /\ pod["db"] # "ready"
    \/ step = Drop /\ session
    \/ step = RestoreDump /\ database = "dirty"
    \/ step = CheckTimeline /\ (database \notin {"old", "restored", "analyzed"} \/ pod["web"] # "ready")

\* The request that the process may have sent and not seen answered.  Recovery's
\* goes by the name of the step that asks for the same.
InFlight ==
    IF stage = "workflow" /\ step \in Mutations THEN {step}
    ELSE IF stage = "recover" THEN {ScaleWebDown}
    ELSE {}

\* The process goes on, or ends, without the answer.
GiveUp == late' \in {late, late \cup InFlight}

\* Waits that poll for ever.
StepFailsUnlessWaiting ==
    /\ stage = "workflow"
    /\ step \notin {RecordReplicas, MeasureSize, WaitWebDown, WaitDbUp, WaitWebUp}
    /\ Fault \/ Refused \/ StepBlocked
    /\ tempFile' \in IF step = Download THEN {"none", "orphan"} ELSE {tempFile}
    /\ IF Fault THEN GiveUp ELSE UNCHANGED late
    /\ Abort
    /\ UNCHANGED <<clusterVars, canceled, notice, run>>

\* A step returns an error, timeouts of the waits included.  The replica counts
\* and the database size are best effort: their errors are only logged.
StepFails ==
    /\ stage = "workflow" /\ step \notin {RecordReplicas, MeasureSize}
    /\ Fault \/ Refused \/ StepBlocked
    /\ tempFile' \in IF step = Download THEN {"none", "orphan"} ELSE {tempFile}
    /\ IF Fault THEN GiveUp ELSE UNCHANGED late
    /\ Abort
    /\ UNCHANGED <<clusterVars, canceled, notice, run>>

RecordReplicasReturns ==
    /\ At(RecordReplicas)
    /\ Advance
    /\ UNCHANGED <<clusterVars, canceled, tempFile, late, notice, run>>

CheckS3Returns ==
    /\ At(CheckS3) /\ ~Refused
    /\ Advance
    /\ UNCHANGED <<clusterVars, canceled, tempFile, late, notice, run>>

CheckK8sReturns ==
    /\ At(CheckK8s)
    /\ Advance
    /\ UNCHANGED <<clusterVars, canceled, tempFile, late, notice, run>>

\* A download whose validation error is dropped after the file was removed.
DownloadUnchecked ==
    /\ At(Download) /\ ~Refused
    /\ tempFile' \in {"staged", "none"}
    /\ AdvanceWith(SetObject(result))
    /\ UNCHANGED <<clusterVars, canceled, late, notice, run>>

\* The gzip file is complete and its checksum is right.
DownloadReturns ==
    /\ At(Download) /\ ~Refused
    /\ tempFile' = "staged"
    /\ AdvanceWith(SetObject(result))
    /\ UNCHANGED <<clusterVars, canceled, late, notice, run>>

ScaleReturns ==
    /\ stage = "workflow" /\ ~Refused
    /\ SetReplicas(step)
    /\ Advance
    /\ UNCHANGED <<pod, status, canceled, tempFile, late, notice, run>>

WaitReturns(w, n) ==
    /\ \/ step = WaitWebDown /\ w = "web" /\ n = 0
       \/ step = WaitDbUp    /\ w = "db"  /\ n = 1
       \/ step = WaitWebUp   /\ w = "web" /\ n = 1
    /\ stage = "workflow" /\ ~Refused
    /\ status[w] = n
    /\ Advance
    /\ UNCHANGED <<clusterVars, canceled, tempFile, late, notice, run>>

\* The connection check against the target database.
CheckDbOnTarget ==
    /\ At(CheckDb) /\ ~Refused
    /\ DatabaseReachable /\ database # "absent"
    /\ Advance
    /\ UNCHANGED <<clusterVars, canceled, tempFile, late, notice, run>>

CheckDbReturns ==
    /\ At(CheckDb) /\ ~Refused
    /\ DatabaseReachable
    /\ Advance
    /\ UNCHANGED <<clusterVars, canceled, tempFile, late, notice, run>>

TerminateReturns ==
    /\ At(Terminate) /\ ~Refused
    /\ EndSessions
    /\ Advance
    /\ UNCHANGED <<pod, status, canceled, tempFile, late, notice, run>>

DropReturns ==
    /\ At(Drop) /\ ~Refused
    /\ DropDatabase
    /\ Advance
    /\ UNCHANGED <<pod, status, canceled, tempFile, late, notice, run>>

CreateReturns ==
    /\ At(Create) /\ ~Refused
    /\ CreateDatabase
    /\ Advance
    /\ UNCHANGED <<pod, status, canceled, tempFile, late, notice, run>>

\* Restore without ON_ERROR_STOP: what collides with existing tables is skipped,
\* which leaves a mixture that answers like the data of another run.
RestoreDumpIgnoresErrors ==
    /\ At(RestoreDump) /\ ~Refused
    /\ DatabaseReachable /\ tempFile = "staged"
    /\ database' = IF database = "empty" THEN "restored" ELSE "old"
    /\ Advance
    /\ UNCHANGED <<spec, session, pod, status, canceled, tempFile, late, notice, run>>

RestoreDumpReturns ==
    /\ At(RestoreDump) /\ ~Refused
    /\ tempFile = "staged"
    /\ LoadDump(FALSE)
    /\ Advance
    /\ UNCHANGED <<pod, status, canceled, tempFile, late, notice, run>>

\* The size query is attempted, and its failure is not the run's.
MeasureSizeReturns ==
    /\ At(MeasureSize)
    /\ \E available \in BOOLEAN :
           /\ available => ~Refused /\ DatabaseReachable
           /\ AdvanceWith([result EXCEPT !.databaseSizeAttempted = TRUE,
                                         !.databaseSizeAvailable = available])
    /\ UNCHANGED <<clusterVars, canceled, tempFile, late, notice, run>>

\* An ANALYZE whose timeout counts as done.
AnalyzeTimeoutIgnored ==
    /\ At(AnalyzeDb) /\ ~Refused
    /\ DatabaseReachable
    /\ database' \in {"restored", "analyzed"}
    /\ Advance
    /\ UNCHANGED <<spec, session, pod, status, canceled, tempFile, late, notice, run>>

AnalyzeReturns ==
    /\ At(AnalyzeDb) /\ ~Refused
    /\ AnalyzeTables
    /\ Advance
    /\ UNCHANGED <<pod, status, canceled, tempFile, late, notice, run>>

ReadinessReturns ==
    /\ At(AwaitReadiness) /\ ~Refused
    /\ pod["web"] # "none"
    /\ Advance
    /\ UNCHANGED <<clusterVars, canceled, tempFile, late, notice, run>>

\* At least one note comes back from the global timeline.
CheckTimelineReturns ==
    /\ At(CheckTimeline) /\ ~Refused
    /\ pod["web"] # "none" /\ database \in {"old", "restored", "analyzed"}
    /\ Advance
    /\ UNCHANGED <<clusterVars, canceled, tempFile, late, notice, run>>

WorkflowReturns ==
    \/ RecordReplicasReturns \/ CheckS3Returns \/ CheckK8sReturns \/ DownloadReturns
    \/ ScaleReturns
    \/ \E w \in Workloads, n \in 0..1 : WaitReturns(w, n)
    \/ CheckDbReturns \/ TerminateReturns \/ DropReturns \/ CreateReturns
    \/ RestoreDumpReturns \/ MeasureSizeReturns \/ AnalyzeReturns
    \/ ReadinessReturns \/ CheckTimelineReturns

-----------------------------------------------------------------------------
(* After the workflow.                                                     *)

\* The record when recover starts, and the record it leaves: its deferred
\* function copies the outcome into recoveryPhaseStatus.
RecoveryBegun == BeginPhase([result EXCEPT !.recoveryStatus = "error"], "cleanup")
RecoveryEnded(r) == [r EXCEPT !.recoveryPhaseStatus = r.recoveryStatus]

\* The web workload is scaled to 0 under a context that cancellation does not
\* reach and that has no deadline.
Recover ==
    /\ stage = "recover"
    /\ UNCHANGED <<pod, status, database, session, step, canceled, err, tempFile, notice, run>>
    /\ IF ~RecoveryRequired(result)
       THEN UNCHANGED <<spec, result, late>>
       ELSE IF ~CanBegin(result, "cleanup")
       THEN /\ UNCHANGED <<spec, late>>
            /\ result' = RecoveryEnded([result EXCEPT !.recoveryStatus = "error"])
       ELSE \/ /\ spec' = [spec EXCEPT !["web"] = 0]
               /\ late' = Standing(late)
               /\ result' = RecoveryEnded(CompletePhase(RecoveryBegun))
            \/ /\ Fault
               /\ UNCHANGED spec
               /\ GiveUp
               /\ result' = RecoveryEnded(FailPhase(RecoveryBegun, "cleanup", "recovery step"))
    /\ stage' = "dump cleanup"

\* The staged dump is known to the run: the download returned it.
DumpHeld == result.objectRecorded

\* The deferred removal of the staged dump.
DumpCleanup ==
    /\ stage = "dump cleanup"
    /\ \/ ~DumpHeld /\ UNCHANGED <<tempFile, result, err>>
       \/ /\ DumpHeld
          /\ tempFile' = "none"
          /\ result' = [result EXCEPT !.tempCleanupStatus = "success"]
          /\ UNCHANGED err
       \/ /\ DumpHeld /\ Fault
          /\ UNCHANGED tempFile
          /\ LET failed == [result EXCEPT !.tempCleanupStatus = "error"]
             IN  IF err = "nil" /\ result.failedPhase = ""
                 THEN /\ result' = FailCompletedPhase(failed, "cleanup", "dump cleanup")
                      /\ err' = "dump cleanup"
                 ELSE /\ result' = RecordRecoveryError(failed, "dump cleanup")
                      /\ UNCHANGED err
    /\ stage' = "report"
    /\ UNCHANGED <<clusterVars, step, canceled, late, notice, run>>

\* The deferred function of runWithSummaryLogger; report and summary are the
\* functions Report and SafeSummary of the record it leaves.
FinalReport ==
    /\ stage = "report"
    /\ result' = IF err # "nil" /\ result.firstErr = "nil" /\ result.currentPhase # ""
                 THEN FailPhase(result, result.currentPhase, err)
                 ELSE result
    /\ stage' = "notify"
    /\ UNCHANGED <<clusterVars, step, canceled, err, tempFile, late, notice, run>>

\* No notification for help or without a webhook; a failed one is only logged.
Notify ==
    /\ stage = "notify"
    /\ notice' \in IF err = "help" THEN {"none"} ELSE {"none", "sent", "lost"}
    /\ stage' = "exited"
    /\ UNCHANGED <<clusterVars, step, canceled, result, err, tempFile, late, run>>

NotificationStatus(outcome) == IF outcome = "error" THEN "failure" ELSE outcome

-----------------------------------------------------------------------------
(* Signals, crashes, and the next run.                                     *)

Running == stage \notin {"exited", "crashed"}

Cancel ==
    /\ "cancel" \in Disturbances
    /\ Running /\ ~canceled
    /\ canceled' = TRUE
    /\ UNCHANGED <<clusterVars, stage, step, result, err, tempFile, late, notice, run>>

\* SIGKILL, eviction, a lost node: nothing deferred runs.
Crash ==
    /\ "crash" \in Disturbances
    /\ Running
    /\ stage' = "crashed"
    /\ GiveUp
    /\ UNCHANGED <<clusterVars, step, canceled, result, err, tempFile, notice, run>>

\* A new process.  It stages its dump under a name of its own, so a file the
\* last run left is out of its sight; what that run restored is now old.  Assumed:
\* no request of one run is still under way when the next begins.
NextRun ==
    /\ ~Running /\ run < MaxRuns
    /\ run' = run + 1
    /\ stage' = "preflight" /\ step' = RecordReplicas /\ canceled' = FALSE
    /\ result' = FirstResult /\ err' = "nil" /\ tempFile' = "none" /\ notice' = "none"
    /\ late' = {}
    /\ database' = IF database \in {"restored", "analyzed"} THEN "old" ELSE database
    /\ UNCHANGED <<spec, pod, status, session>>

Runner ==
    \/ PreflightPasses \/ PreflightRejects
    \/ WorkflowReturns \/ StepFails
    \/ Recover \/ DumpCleanup \/ FinalReport \/ Notify

Environment ==
    /\ Controllers \/ Happenstance
    /\ late' = Standing(late)
    /\ UNCHANGED <<stage, step, canceled, result, err, tempFile, notice, run>>

Landing == \E n \in Mutations : Land(n)

Next == Runner \/ Environment \/ Landing \/ Cancel \/ Crash \/ NextRun

Spec == Init /\ [][Next]_vars

\* Every call is answered in the end, and the controllers of the cluster work.
AnsweredSpec == Spec /\ WF_vars(Runner) /\ ControllerFairness

\* The steps whose calls have a time limit of the program's own.
TimeLimited == {WaitWebDown, WaitDbUp, MeasureSize, AnalyzeDb,
                WaitWebUp, AwaitReadiness, CheckTimeline}

\* The process stands at a call that nothing in the program ends if the other side
\* never answers: one without a time limit, before a signal.  A signal ends all of
\* them but recovery, which is shielded from it, and the version query.
Unbounded ==
    \/ stage = "recover"
    \/ stage = "workflow" /\ step \notin TimeLimited /\ ~Refused

\* Of the other side nothing is assumed: it may never answer, and the cluster may
\* stand still.  The program's own work and its time limits go on.
FairSpec == Spec /\ WF_vars(~Unbounded /\ Runner)

-----------------------------------------------------------------------------
(* Correctness.                                                            *)

Ended == stage = "exited"

\* Exit code 0 means what the README says of it: the database holds this run's
\* dump, restored whole and analyzed, both workloads are told to stop and the
\* staged file is gone (runWithResult's nil return, through every fault).
VerifiedData ==
    Ended /\ err = "nil" =>
        /\ database = "analyzed"
        /\ \A w \in Workloads : spec[w] = 0
        /\ tempFile = "none"

\* The update that raises web was given up on.
WebUpGivenUp == err = "step" /\ step = ScaleWebUp

\* After initialization an ended run with web up has attempted recovery, and both the
\* log's report and the summary call it failed; but for the one case the program cannot
\* see, that the update it gave up on lands behind a recovery that found web down
\* (recover; scaleOnce's read, then write).
WebDownOrReported ==
    Ended /\ result.initialized /\ spec["web"] = 1 =>
        /\ result.recoveryAttempted
        /\ \/ WebUpGivenUp
           \/ /\ Report(result).recoveryStatus = "error"
              /\ SafeSummary(result).recoveryStatus = "error"

\* A dump the download handed over is deleted at the end of the run or its
\* deletion is reported failed, however the run ended (the deferred cleanup).
StagedFileAccounted ==
    Ended /\ tempFile = "staged" =>
        /\ SafeSummary(result).tempCleanupStatus = "error"
        /\ Report(result).result = "failure"

PhaseBefore(p, q) == PhaseIndex(p) < PhaseIndex(q)

\* The log's report, the summary and the exit code tell one story: success for
\* all three or for none, never "incomplete"; the error reported is the error
\* returned; phases before the failed one succeeded and later ones were skipped
\* (beginPhase, completePhase, failPhase and the deferred repair in Run).
ReportTruthful ==
    Ended =>
        LET report == Report(result)
        IN  /\ report.result = IF err = "nil" THEN "success" ELSE "failure"
            /\ SafeSummary(result).success <=> err = "nil"
            /\ report.error = err
            /\ err # "nil" =>
                 \A p \in Phases :
                     report.phases[p] = IF p = report.failedPhase THEN "failure"
                                        ELSE IF PhaseBefore(p, report.failedPhase)
                                        THEN "success" ELSE "skipped"

\* The recovery outcome in the summary is that of the scale-down alone: a failed
\* file deletion does not turn it into an error, and success means web is at 0, unless
\* a given-up update came after it (recoveryPhaseStatus against the aggregate).
RecoveryStatusHonest ==
    Ended /\ result.recoveryAttempted =>
        LET outcome == SafeSummary(result).recoveryStatus
        IN  /\ outcome = "error" <=> "recovery step" \in result.recoveryErr
            /\ outcome = "success" => spec["web"] = 0 \/ WebUpGivenUp

\* A database is dropped, by a DROP answered or one that lands after its run failed,
\* was told to stop or crashed, only when the run has validated a replacement, which
\* lies on disk while the workflow goes on, and web is told to stop (order of the
\* groups prepare and restore).
NoDestroyWithoutDump ==
    [][database # "absent" /\ database' = "absent"
          => /\ result.objectRecorded /\ spec["web"] = 0
             /\ stage = "workflow" => tempFile = "staged"]_vars

\* Web comes up only on the restored data with fresh statistics, so that the
\* timeline check measures this backup (order of the groups restore and verify).
WebUpOnlyAfterAnalyze ==
    [][spec["web"] = 0 /\ spec'["web"] = 1 => database = "analyzed"]_vars

\* A run that does not end stands, for good, at a call that has no time limit: never
\* in a wait, however the pods behave, in a check of the API or in its own closing
\* work (WaitForReplicas' timeout, the deferred functions).
HangsOnlyAtUnbounded == <>[](~Running \/ Unbounded)

\* A signal gets every run on, though nobody answers: to its end, or to one of the two
\* calls the signal does not reach (the context passed on; WithoutCancel in recover;
\* the version query).
SignalIsHeard ==
    canceled ~> ~Running \/ stage = "recover" \/ At(CheckK8s)

\* With nothing going wrong, a run that starts on a quiet cluster succeeds, no
\* matter what an earlier run left as database, missing or half filled included
\* (CheckConnection on the maintenance database, Reset's IF EXISTS).
CleanRunSucceeds ==
    stage = "preflight" /\ spec["web"] = 0 /\ (\A w \in Workloads : Settled(w))
        ~> Ended /\ err = "nil"

\* README, restore step 2: web and db are scaled and "the stop and the start are
\* waited for" before the database is dropped.
WebStoppedBeforeReset ==
    [][database # "absent" /\ database' = "absent" => pod["web"] = "none"]_vars
=============================================================================
