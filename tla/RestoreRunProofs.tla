-------------------------- MODULE RestoreRunProofs --------------------------
(***************************************************************************)
(* Proofs about RestoreRun, for every set of disturbances and every number *)
(* of runs: type correctness and the inductive invariant IInv, from which  *)
(* the safety properties of RestoreRun follow.                             *)
(*                                                                         *)
(* IInv says, stage by stage, what the bookkeeping record is (RecordInv)   *)
(* and what the run knows of the outside (WorldInv), and LateInv what a    *)
(* request that nobody waits for finds when it lands.  The record is   *)
(* needed because recover decides from it whether web has to come down;    *)
(* the world because a step's effect must still be there when the run      *)
(* exits.                                                                  *)
(*                                                                         *)
(* Then what is seen of a run from outside.  RestoreRun implements         *)
(* RestoreContract: each action is shown to be one action of the contract, *)
(* or none.  And the Discord message is true: to IInv is added MessageInv, *)
(* which says what the facts in the record, sizes and the fate of the      *)
(* staged file, tell of the world, so that no line made of them is wrong.  *)
(***************************************************************************)
EXTENDS RestoreRefinement, RestoreMessage, TLAPS

\* The phases before ph succeeded, ph has status s, later ones are skipped.
PhasesUpTo(ph, s) ==
    [p \in Phases |-> IF p = ph THEN s
                      ELSE IF PhaseIndex(p) < PhaseIndex(ph) THEN "success" ELSE "skipped"]

\* No failure and no recovery is recorded.
Unharmed(r) ==
    /\ r.failedPhase = "" /\ r.firstErr = "nil"
    /\ r.recoveryErr = {} /\ r.recoveryStatus = "" /\ r.recoveryPhaseStatus = ""
    /\ ~r.recoveryAttempted /\ r.tempCleanupStatus = ""

\* Phase ph is active and every earlier one is completed.
InPhase(r, ph) ==
    /\ r.currentPhase = ph
    /\ r.nextPhase = PhaseIndex(ph)
    /\ r.phases = PhasesUpTo(ph, "skipped")
    /\ Unharmed(r)

\* Every phase is completed.
Done(r) ==
    /\ r.currentPhase = "" /\ r.nextPhase = PhaseCount /\ r.initialized
    /\ r.phases = PhasesUpTo("cleanup", "success")
    /\ r.failedPhase = "" /\ r.firstErr = "nil"

\* Phase ph failed first, with error e.
FailedIn(r, ph, e) ==
    /\ r.currentPhase = ""
    /\ r.failedPhase = ph /\ r.firstErr = e
    /\ r.phases = PhasesUpTo(ph, "failure")

WorkPhases == {"prepare", "restore", "verify", "cleanup"}

\* Recovery ran after a step of phase ph failed, and its outcome is kept apart.
Recovered(r, ph) ==
    /\ r.initialized /\ r.recoveryAttempted
    /\ ph \in WorkPhases
    /\ FailedIn(r, ph, "step")
    /\ r.recoveryPhaseStatus \in {"success", "error"}
    /\ r.recoveryPhaseStatus = "error" <=> "recovery step" \in r.recoveryErr
    /\ r.recoveryPhaseStatus = "error" => r.recoveryStatus = "error"

RecordInv ==
    /\ stage = "preflight" => result = FirstResult /\ err = "nil" /\ step = RecordReplicas
    /\ stage = "workflow" =>
         InPhase(result, StepPhase(step)) /\ result.initialized /\ err = "nil"
    /\ stage = "recover" =>
         /\ FailedIn(result, StepPhase(step), "step") /\ result.initialized
         /\ err = "step" /\ ~result.recoveryAttempted /\ result.recoveryErr = {}
    /\ stage = "dump cleanup" =>
         \/ err = "nil" /\ Done(result) /\ ~result.recoveryAttempted
         \/ err = "step" /\ Recovered(result, StepPhase(step))
    /\ stage \in {"report", "notify", "exited"} =>
         \/ err = "nil" /\ Done(result) /\ ~result.recoveryAttempted
         \/ err = "step" /\ Recovered(result, StepPhase(step))
         \/ /\ err = "dump cleanup" /\ FailedIn(result, "cleanup", err)
            /\ ~result.recoveryAttempted
         \/ /\ err \in {"help", "input"} /\ FailedIn(result, "preflight", err)
            /\ ~result.initialized /\ ~result.recoveryAttempted

\* The dump: staged from the download on, and removed or reported at the end.
DumpInv ==
    /\ stage = "preflight" => tempFile = "none"
    /\ stage = "workflow" =>
         /\ result.objectRecorded <=> step > Download
         /\ tempFile = IF step > Download THEN "staged" ELSE "none"
    /\ stage \in {"recover", "dump cleanup"} =>
         IF result.objectRecorded THEN tempFile = "staged" ELSE tempFile # "staged"
    /\ stage = "dump cleanup" /\ err = "nil" => result.objectRecorded
    /\ stage \in {"report", "notify", "exited"} =>
         /\ tempFile = "staged" => result.tempCleanupStatus = "error" /\ err # "nil"
         /\ err = "nil" => tempFile = "none"

\* What database d and replica counts s are when step n starts; n = CleanDb + 1
\* stands for the end of the workflow.
WorldAt(n, d, s) ==
    /\ n \in {MeasureSize, AnalyzeDb} => d = "restored"
    /\ n > AnalyzeDb => d = "analyzed"
    /\ n \in ScaleDbUp..ScaleWebUp \/ n > CleanWeb => s["web"] = 0
    /\ n > CleanDb => s["db"] = 0

\* The database and the replica counts.
WorldInv ==
    /\ stage = "workflow" => WorldAt(step, database, spec)
    /\ stage \in {"dump cleanup", "report", "notify", "exited"} =>
         /\ err \in {"nil", "dump cleanup"} => WorldAt(CleanDb + 1, database, spec)
         /\ err = "step" /\ result.recoveryPhaseStatus = "success" =>
              spec["web"] = 0 \/ step = ScaleWebUp

\* A request that nobody waits for is that of the step at which the run failed or
\* crashed, or recovery's.  One that changes data finds web told to stop, and the one
\* that raises web finds analyzed data.
LateInv ==
    /\ late \subseteq {step, ScaleWebDown}
    /\ late # {} =>
         /\ result.initialized
         /\ stage = "crashed"
            \/ (stage \in {"recover", "dump cleanup", "report", "notify", "exited"} /\ err = "step")
    /\ late \subseteq Scales \/ (result.objectRecorded /\ spec["web"] = 0)
    /\ ScaleWebUp \in late => database = "analyzed"

IInv == TypeOK /\ RecordInv /\ DumpInv /\ WorldInv /\ LateInv

-----------------------------------------------------------------------------
(* The operations on the record return records.                            *)

LEMMA BeginPhaseType ==
  ASSUME NEW r \in ExecutionResults, NEW p \in Phases
  PROVE  BeginPhase(r, p) \in ExecutionResults
  BY DEF BeginPhase, ExecutionResults

LEMMA FirstResultType == FirstResult \in ExecutionResults
<1>1. [p \in Phases |-> "skipped"] \in [Phases -> PhaseStatuses]
  BY DEF PhaseStatuses
<1>2. NewExecutionResult \in ExecutionResults
  BY <1>1 DEF NewExecutionResult, ExecutionResults, Errors, Outcomes, PhaseCount
<1>3. QED
  BY <1>2, BeginPhaseType DEF FirstResult, Phases

LEMMA CompletePhaseType ==
  ASSUME NEW r \in ExecutionResults
  PROVE  CompletePhase(r) \in ExecutionResults
<1>1. CASE r.currentPhase = ""
  BY <1>1 DEF CompletePhase
<1>2. CASE r.currentPhase # "" /\ IsRecovery(r, r.currentPhase)
  BY <1>2 DEF CompletePhase, ExecutionResults, Outcomes
<1>3. CASE r.currentPhase # "" /\ ~IsRecovery(r, r.currentPhase)
  <2> DEFINE phases == [r.phases EXCEPT ![r.currentPhase] = "success"]
             next   == IF PhaseIndex(r.currentPhase) = r.nextPhase
                       THEN r.nextPhase + 1 ELSE r.nextPhase
  <2>1. r.currentPhase \in Phases
    BY <1>3 DEF ExecutionResults
  <2>2. phases \in [Phases -> PhaseStatuses]
    BY <2>1 DEF ExecutionResults, PhaseStatuses
  <2>3. next \in 0..PhaseCount
    <3>1. PhaseIndex(r.currentPhase) \in 0..4
      BY <2>1 DEF PhaseIndex, Phases
    <3>2. r.nextPhase \in 0..5
      BY DEF ExecutionResults, PhaseCount
    <3>3. QED
      BY <3>1, <3>2 DEF PhaseCount
  <2>4. CompletePhase(r) = [r EXCEPT !.phases = phases, !.nextPhase = next, !.currentPhase = ""]
    BY <1>3 DEF CompletePhase, ExecutionResults
  <2>5. QED
    BY <2>2, <2>3, <2>4 DEF ExecutionResults
<1>4. QED
  BY <1>1, <1>2, <1>3

LEMMA RecordRecoveryErrorType ==
  ASSUME NEW r \in ExecutionResults, NEW e \in Errors
  PROVE  RecordRecoveryError(r, e) \in ExecutionResults
  BY DEF RecordRecoveryError, ExecutionResults, Outcomes

LEMMA FailPhaseType ==
  ASSUME NEW r \in ExecutionResults, NEW p \in Phases, NEW e \in Errors
  PROVE  FailPhase(r, p, e) \in ExecutionResults
<1>1. CASE r.currentPhase # p
  BY <1>1 DEF FailPhase
<1>2. CASE r.currentPhase = p /\ IsRecovery(r, p)
  <2>1. [r EXCEPT !.currentPhase = ""] \in ExecutionResults
    BY DEF ExecutionResults
  <2>2. QED
    BY <1>2, <2>1, RecordRecoveryErrorType DEF FailPhase
<1>3. CASE r.currentPhase = p /\ ~IsRecovery(r, p)
  <2> DEFINE closed == [r EXCEPT !.currentPhase = "",
                                 !.phases = [r.phases EXCEPT ![p] = "failure"]]
  <2>1. closed \in ExecutionResults
    BY DEF ExecutionResults, PhaseStatuses
  <2> HIDE DEF closed
  <2>2. [closed EXCEPT !.failedPhase = p, !.firstErr = e] \in ExecutionResults
    BY <2>1 DEF ExecutionResults
  <2>3. \/ FailPhase(r, p, e) = closed
        \/ FailPhase(r, p, e) = [closed EXCEPT !.failedPhase = p, !.firstErr = e]
    BY <1>3 DEF FailPhase, ExecutionResults, closed
  <2>4. QED
    BY <2>1, <2>2, <2>3
<1>4. QED
  BY <1>1, <1>2, <1>3

LEMMA FailCompletedPhaseType ==
  ASSUME NEW r \in ExecutionResults, NEW p \in Phases, NEW e \in Errors
  PROVE  FailCompletedPhase(r, p, e) \in ExecutionResults
<1>1. [r EXCEPT !.failedPhase = p, !.firstErr = e,
                !.phases = [r.phases EXCEPT ![p] = "failure"]] \in ExecutionResults
  BY DEF ExecutionResults, PhaseStatuses
<1>2. QED
  BY <1>1, RecordRecoveryErrorType DEF FailCompletedPhase, ExecutionResults

LEMMA RecoveryBegunType ==
  ASSUME result \in ExecutionResults
  PROVE  RecoveryBegun \in ExecutionResults
<1>1. [result EXCEPT !.recoveryStatus = "error"] \in ExecutionResults
  BY DEF ExecutionResults, Outcomes
<1>2. QED
  BY <1>1, BeginPhaseType DEF RecoveryBegun, Phases

LEMMA RecoveryEndedType ==
  ASSUME NEW r \in ExecutionResults
  PROVE  RecoveryEnded(r) \in ExecutionResults
  BY DEF RecoveryEnded, ExecutionResults

-----------------------------------------------------------------------------
(* Type correctness.                                                       *)

RunTypeOK ==
    /\ stage    \in Stages
    /\ step     \in Steps
    /\ result   \in ExecutionResults
    /\ err      \in Errors

LEMMA StepPhaseType == \A n : StepPhase(n) \in WorkPhases /\ StepPhase(n) \in Phases
  BY DEF StepPhase, WorkPhases, Phases

LEMMA AdvanceType ==
  ASSUME RunTypeOK, NEW r \in ExecutionResults, AdvanceWith(r)
  PROVE  RunTypeOK'
<1>1. CASE step = CleanDb
  BY <1>1, CompletePhaseType DEF AdvanceWith, RunTypeOK, Stages
<1>2. CASE step # CleanDb
  <2>1. step' \in Steps
    BY <1>2 DEF AdvanceWith, RunTypeOK, Steps, CleanDb, RecordReplicas
  <2>2. BeginPhase(CompletePhase(r), StepPhase(step + 1)) \in ExecutionResults
    BY CompletePhaseType, BeginPhaseType, StepPhaseType
  <2>3. QED
    BY <1>2, <2>1, <2>2 DEF AdvanceWith, RunTypeOK
<1>3. QED
  BY <1>1, <1>2

LEMMA AbortType ==
  ASSUME RunTypeOK, Abort
  PROVE  RunTypeOK'
  BY FailPhaseType, StepPhaseType DEF Abort, RunTypeOK, Stages, Errors

\* The restore step returns nil with the whole dump only.
LEMMA RestoreDumpShape ==
  ASSUME RestoreDumpReturns
  PROVE  /\ stage = "workflow" /\ step = RestoreDump
         /\ database = "empty" /\ database' = "restored" /\ Advance
         /\ UNCHANGED <<spec, pod, status, session, canceled, tempFile, late, notice, run>>
<1>1. PICK o \in RestoreOutcomes : o.failed = FALSE /\ database' = o.database
  BY DEF RestoreDumpReturns, LoadDump
<1>2. o.database = "restored"
  BY <1>1 DEF RestoreOutcomes
<1>3. QED
  BY <1>1, <1>2 DEF RestoreDumpReturns, LoadDump, At

\* What a workflow step that returns nil does to the world.
LEMMA ScaleShape ==
  ASSUME ScaleReturns
  PROVE  /\ stage = "workflow" /\ step \in Scales /\ Advance
         /\ spec' = [spec EXCEPT ![Scaled(step)] = Count(step)]
         /\ UNCHANGED <<pod, status, database, session, canceled, tempFile, late, notice, run>>
  BY DEF ScaleReturns, SetReplicas

LEMMA DataShape ==
  ASSUME TerminateReturns \/ DropReturns \/ CreateReturns \/ AnalyzeReturns
  PROVE  /\ stage = "workflow" /\ Advance
         /\ UNCHANGED <<spec, pod, status, canceled, tempFile, late, notice, run>>
         /\ \/ step = Terminate /\ session' = FALSE /\ database' = database
            \/ step = Drop /\ database' = "absent" /\ session' = session
            \/ step = Create /\ database' = "empty" /\ session' = session
            \/ /\ step = AnalyzeDb /\ session' = session
               /\ database' = IF database = "restored" THEN "analyzed" ELSE database
  BY DEF TerminateReturns, DropReturns, CreateReturns, AnalyzeReturns, At, EndSessions,
     DropDatabase, CreateDatabase, AnalyzeTables

\* What a landing request does to it.
LEMMA LandShape ==
  ASSUME NEW n \in Mutations, Land(n)
  PROVE  /\ n \in late /\ late' \subseteq late
         /\ UNCHANGED <<pod, status, stage, step, canceled, result, err, tempFile, notice, run>>
         /\ \/ /\ n \in Scales /\ spec' = [spec EXCEPT ![Scaled(n)] = Count(n)]
               /\ UNCHANGED <<database, session>>
            \/ n = Terminate /\ session' = FALSE /\ UNCHANGED <<spec, database>>
            \/ n = Drop /\ database' = "absent" /\ UNCHANGED <<spec, session>>
            \/ n = Create /\ database' = "empty" /\ database = "absent" /\ UNCHANGED <<spec, session>>
            \/ /\ n = RestoreDump /\ database = "empty"
               /\ database' \in {"empty", "dirty", "restored"} /\ UNCHANGED <<spec, session>>
            \/ /\ n = AnalyzeDb /\ UNCHANGED <<spec, session>>
               /\ database' = IF database = "restored" THEN "analyzed" ELSE database
<1>1. n \in late /\ late' \subseteq late
  BY DEF Land, Standing
<1>2. n = RestoreDump /\ LoadDump(TRUE) =>
        database = "empty" /\ database' \in {"empty", "dirty", "restored"}
        /\ UNCHANGED <<spec, session>>
  BY DEF LoadDump, RestoreOutcomes
<1>3. QED
  BY <1>1, <1>2 DEF Land, SetReplicas, EndSessions, DropDatabase, CreateDatabase, AnalyzeTables

\* A landing request writes a workload's count or touches the database, not both.
LEMMA LandKinds ==
  ASSUME NEW n \in Mutations, Land(n)
  PROVE  \/ /\ n \in Scales /\ spec' = [spec EXCEPT ![Scaled(n)] = Count(n)]
            /\ database' = database
         \/ n \notin Scales /\ spec' = spec
<1>1. n \in {Terminate, Drop, Create, RestoreDump, AnalyzeDb} => n \notin Scales
  BY DEF Scales, ScaleWebDown, ScaleDbUp, ScaleWebUp, CleanWeb, CleanDb,
     Terminate, Drop, Create, RestoreDump, AnalyzeDb
<1>2. CASE n \in Scales
  BY <1>1, <1>2, LandShape
<1>3. CASE n \notin Scales
  BY <1>3, LandShape
<1>4. QED
  BY <1>2, <1>3

LEMMA ScaledRange == \A n : Scaled(n) \in Workloads /\ Count(n) \in 0..1
  BY DEF Scaled, Count, Workloads

LEMMA InFlightRange == InFlight \subseteq Mutations
  BY DEF InFlight, Mutations, Scales

LEMMA SetObjectType ==
  ASSUME NEW r \in ExecutionResults
  PROVE  SetObject(r) \in ExecutionResults
  BY DEF SetObject, ExecutionResults

\* A step of the cluster keeps the types of the cluster.
LEMMA EnvironmentType ==
  ASSUME ClusterTypeOK, Controllers \/ Happenstance
  PROVE  ClusterTypeOK'
<1> USE DEF ClusterTypeOK
<1>1. ASSUME NEW w \in Workloads,
             StartPod(w) \/ PodReady(w) \/ StopPod(w) \/ PodGone(w) \/ PodUnready(w)
      PROVE  ClusterTypeOK'
  BY <1>1 DEF StartPod, PodReady, StopPod, PodGone, PodUnready, Pods
<1>2. ASSUME NEW w \in Workloads, ReportStatus(w)
      PROVE  ClusterTypeOK'
  BY <1>2 DEF ReportStatus
<1>3. CASE WebConnect \/ WebMigrate
  BY <1>3 DEF WebConnect, WebMigrate, Databases
<1>4. QED
  BY <1>1, <1>2, <1>3 DEF Controllers, Happenstance

LEMMA WorkflowReturnsType ==
  ASSUME TypeOK, WorkflowReturns
  PROVE  TypeOK'
<1>1. RunTypeOK
  BY DEF TypeOK, RunTypeOK
<1> USE <1>1
<1>2. SUFFICES RunTypeOK' /\ ClusterTypeOK' /\ tempFile' \in {"none", "staged", "orphan"}
               /\ UNCHANGED <<canceled, late, notice, run>>
  BY DEF TypeOK, RunTypeOK
<1>3. CASE RecordReplicasReturns \/ CheckS3Returns \/ CheckK8sReturns \/ CheckDbReturns
           \/ ReadinessReturns \/ CheckTimelineReturns
           \/ \E w \in Workloads, n \in 0..1 : WaitReturns(w, n)
  BY <1>3, AdvanceType DEF RecordReplicasReturns, CheckS3Returns, CheckK8sReturns,
     CheckDbReturns, ReadinessReturns, CheckTimelineReturns, WaitReturns, Advance,
     RunTypeOK, TypeOK, ClusterTypeOK, clusterVars
<1>4. CASE DownloadReturns
  BY <1>4, AdvanceType, SetObjectType
     DEF DownloadReturns, RunTypeOK, TypeOK, ClusterTypeOK, clusterVars
<1>5. CASE ScaleReturns
  BY <1>5, ScaleShape, ScaledRange, AdvanceType DEF Advance, RunTypeOK, TypeOK, ClusterTypeOK
<1>6. CASE TerminateReturns \/ DropReturns \/ CreateReturns \/ AnalyzeReturns
  BY <1>6, DataShape, AdvanceType DEF Advance, RunTypeOK, TypeOK, ClusterTypeOK, Databases
<1>9. CASE RestoreDumpReturns
  BY <1>9, RestoreDumpShape, AdvanceType
     DEF Advance, RunTypeOK, TypeOK, ClusterTypeOK, Databases
<1>7. CASE MeasureSizeReturns
  <2>1. PICK available \in BOOLEAN :
          AdvanceWith([result EXCEPT !.databaseSizeAttempted = TRUE,
                                     !.databaseSizeAvailable = available])
    BY <1>7 DEF MeasureSizeReturns
  <2>2. [result EXCEPT !.databaseSizeAttempted = TRUE,
                       !.databaseSizeAvailable = available] \in ExecutionResults
    BY DEF RunTypeOK, ExecutionResults
  <2>3. RunTypeOK'
    BY <2>1, <2>2, AdvanceType
  <2>4. QED
    BY <1>7, <2>3 DEF MeasureSizeReturns, TypeOK, ClusterTypeOK, clusterVars
<1>8. QED
  BY <1>3, <1>4, <1>5, <1>6, <1>7, <1>9 DEF WorkflowReturns

LEMMA InitType == Init => TypeOK
<1>1. ASSUME Init PROVE ClusterTypeOK
  BY <1>1 DEF Init, ClusterInit, ClusterTypeOK, Workloads, Pods, Databases
<1>2. RecordReplicas \in Steps /\ 1 \in 1..MaxRuns
  BY MaxRunsAssumption DEF Steps, RecordReplicas, CleanDb
<1>3. QED
  BY <1>1, <1>2, FirstResultType DEF Init, TypeOK, Stages, Errors

\* One step of any action keeps the types.
LEMMA NextType == TypeOK /\ [Next]_vars => TypeOK'
<1> SUFFICES ASSUME TypeOK, [Next]_vars PROVE TypeOK'
  OBVIOUS
<1> USE DEF TypeOK
<1>1. CASE PreflightPasses
  <2>1. MarkInitialized(result) \in ExecutionResults
    BY DEF MarkInitialized, ExecutionResults
  <2>2. result' \in ExecutionResults
    BY <1>1, <2>1, CompletePhaseType, BeginPhaseType DEF PreflightPasses, Phases
  <2>3. QED
    BY <1>1, <2>2 DEF PreflightPasses, Stages, clusterVars, ClusterTypeOK
<1>2. CASE PreflightRejects
  <2>1. result' \in ExecutionResults
    BY <1>2, FailPhaseType DEF PreflightRejects, Phases, Errors
  <2>2. QED
    BY <1>2, <2>1 DEF PreflightRejects, Stages, clusterVars, ClusterTypeOK, Errors
<1>3. CASE WorkflowReturns
  BY <1>3, WorkflowReturnsType
<1>4. CASE StepFails
  <2>1. RunTypeOK'
    BY <1>4, AbortType DEF StepFails, RunTypeOK
  <2>2. tempFile' \in {"none", "staged", "orphan"} /\ late' \subseteq Mutations
    BY <1>4, InFlightRange DEF StepFails, GiveUp
  <2>3. QED
    BY <1>4, <2>1, <2>2 DEF StepFails, RunTypeOK, clusterVars, ClusterTypeOK
<1>5. CASE Recover
  <2>1. [result EXCEPT !.recoveryStatus = "error"] \in ExecutionResults
    BY DEF ExecutionResults, Outcomes
  <2>2. FailPhase(RecoveryBegun, "cleanup", "recovery step") \in ExecutionResults
    BY RecoveryBegunType, FailPhaseType DEF Phases, Errors
  <2>3. CompletePhase(RecoveryBegun) \in ExecutionResults
    BY RecoveryBegunType, CompletePhaseType
  <2>4. result' \in ExecutionResults
    BY <1>5, <2>1, <2>2, <2>3, RecoveryEndedType DEF Recover
  <2>5. spec' \in [Workloads -> 0..1]
    <3>1. spec' = spec \/ spec' = [spec EXCEPT !["web"] = 0]
      BY <1>5, Zenon DEF Recover
    <3>2. [spec EXCEPT !["web"] = 0] \in [Workloads -> 0..1]
      BY DEF ClusterTypeOK, Workloads
    <3>3. QED
      BY <3>1, <3>2 DEF ClusterTypeOK
  <2>6. /\ UNCHANGED <<pod, status, database, session, step, canceled, err, tempFile, notice, run>>
        /\ stage' = "dump cleanup"
    BY <1>5 DEF Recover
  <2>7. ClusterTypeOK'
    BY <2>5, <2>6 DEF ClusterTypeOK
  <2>8. late' \subseteq Mutations
    BY <1>5, InFlightRange DEF Recover, GiveUp, Standing
  <2>9. QED
    BY <2>4, <2>6, <2>7, <2>8 DEF Stages
<1>6. CASE DumpCleanup
  <2>1. \A s \in Outcomes : [result EXCEPT !.tempCleanupStatus = s] \in ExecutionResults
    BY DEF ExecutionResults
  <2>2. result' \in ExecutionResults /\ err' \in Errors
    BY <1>6, <2>1, FailCompletedPhaseType, RecordRecoveryErrorType
    DEF DumpCleanup, Phases, Errors, Outcomes
  <2>3. QED
    BY <1>6, <2>2 DEF DumpCleanup, Stages, clusterVars, ClusterTypeOK
<1>7. CASE FinalReport
  <2>1. result.currentPhase # "" => result.currentPhase \in Phases
    BY DEF ExecutionResults
  <2>2. result' \in ExecutionResults
    BY <1>7, <2>1, FailPhaseType DEF FinalReport
  <2>3. QED
    BY <1>7, <2>2 DEF FinalReport, Stages, clusterVars, ClusterTypeOK
<1>8. CASE Notify
  BY <1>8 DEF Notify, Stages, clusterVars, ClusterTypeOK
<1>9. CASE Environment
  BY <1>9, EnvironmentType DEF Environment, Standing
<1>10. CASE Cancel
  BY <1>10 DEF Cancel, clusterVars, ClusterTypeOK
<1>11. CASE Crash
  BY <1>11, InFlightRange DEF Crash, GiveUp, Stages, clusterVars, ClusterTypeOK
<1>12. CASE NextRun
  <2>1. RecordReplicas \in Steps
    BY DEF Steps, RecordReplicas, CleanDb
  <2>2. run' \in 1..MaxRuns
    BY <1>12, MaxRunsAssumption DEF NextRun
  <2>3. ClusterTypeOK'
    BY <1>12 DEF NextRun, ClusterTypeOK, Databases
  <2>4. QED
    BY <1>12, <2>1, <2>2, <2>3, FirstResultType DEF NextRun, Stages, Errors
<1>13. CASE UNCHANGED vars
  BY <1>13 DEF vars, runVars, clusterVars, ClusterTypeOK
<1>14. CASE Landing
  <2>1. PICK n \in Mutations : Land(n)
    BY <1>14 DEF Landing
  <2>2. spec' \in [Workloads -> 0..1]
    <3>1. spec' = spec \/ spec' = [spec EXCEPT ![Scaled(n)] = Count(n)]
      BY <2>1, LandShape
    <3>2. QED
      BY <3>1, ScaledRange DEF ClusterTypeOK
  <2>5. database' \in Databases /\ session' \in BOOLEAN
    BY <2>1, LandShape DEF ClusterTypeOK, Databases
  <2>3. late' \subseteq Mutations
        /\ UNCHANGED <<pod, status, stage, step, canceled, result, err, tempFile, notice, run>>
    BY <2>1, LandShape
  <2>4. QED
    BY <2>2, <2>3, <2>5 DEF ClusterTypeOK
<1>15. QED
  BY <1>1, <1>2, <1>3, <1>4, <1>5, <1>6, <1>7, <1>8, <1>9, <1>10, <1>11, <1>12, <1>13, <1>14
  DEF Next, Runner

\* TypeOK holds in every reachable state, for every constant (all actions).
THEOREM TypeCorrect == Spec => []TypeOK
  BY InitType, NextType, PTL DEF Spec

-----------------------------------------------------------------------------
(* What the operations do to the record, in the terms of RecordInv.        *)

\* Fields that the operations on phases leave alone.
SameBase(r, q) ==
    q.initialized = r.initialized /\ q.objectRecorded = r.objectRecorded

LEMMA PhaseBorder ==
  ASSUME NEW r \in ExecutionResults, NEW p \in Phases, NEW q \in Phases,
         PhaseIndex(q) = PhaseIndex(p) + 1, InPhase(r, p)
  PROVE  LET b == BeginPhase(CompletePhase(r), q) IN InPhase(b, q) /\ SameBase(r, b)
<1> DEFINE c == [r EXCEPT !.phases = PhasesUpTo(q, "skipped"),
                          !.nextPhase = PhaseIndex(q), !.currentPhase = ""]
<1>1. [r.phases EXCEPT ![p] = "success"] = PhasesUpTo(q, "skipped")
  BY DEF InPhase, PhasesUpTo, PhaseIndex, Phases
<1>2. CompletePhase(r) = c
  BY <1>1 DEF CompletePhase, IsRecovery, InPhase, Unharmed, ExecutionResults, Phases
<1>3. BeginPhase(c, q) = [r EXCEPT !.phases = PhasesUpTo(q, "skipped"),
                                   !.nextPhase = PhaseIndex(q), !.currentPhase = q]
  BY DEF BeginPhase, InPhase, Unharmed, ExecutionResults
<1> DEFINE b == [r EXCEPT !.phases = PhasesUpTo(q, "skipped"),
                          !.nextPhase = PhaseIndex(q), !.currentPhase = q]
<1>4. /\ b.currentPhase = q /\ b.nextPhase = PhaseIndex(q) /\ b.phases = PhasesUpTo(q, "skipped")
      /\ b.failedPhase = r.failedPhase /\ b.firstErr = r.firstErr /\ b.recoveryErr = r.recoveryErr
      /\ b.recoveryStatus = r.recoveryStatus /\ b.recoveryPhaseStatus = r.recoveryPhaseStatus
      /\ b.recoveryAttempted = r.recoveryAttempted /\ b.tempCleanupStatus = r.tempCleanupStatus
      /\ b.initialized = r.initialized /\ b.objectRecorded = r.objectRecorded
  BY DEF ExecutionResults
<1>5. InPhase(b, q) /\ SameBase(r, b)
  BY <1>4 DEF InPhase, Unharmed, SameBase
<1>6. QED
  BY <1>2, <1>3, <1>5

LEMMA LastPhase ==
  ASSUME NEW r \in ExecutionResults, InPhase(r, "cleanup"), r.initialized
  PROVE  LET c == CompletePhase(r)
         IN  Done(c) /\ SameBase(r, c) /\ ~c.recoveryAttempted
<1>1. [r.phases EXCEPT !["cleanup"] = "success"] = PhasesUpTo("cleanup", "success")
  BY DEF InPhase, PhasesUpTo, PhaseIndex, Phases
<1>2. CompletePhase(r) = [r EXCEPT !.phases = PhasesUpTo("cleanup", "success"),
                                   !.nextPhase = 5, !.currentPhase = ""]
  <2>1. PhaseIndex("cleanup") = 4 /\ r.nextPhase = 4 /\ r.currentPhase = "cleanup"
    BY DEF InPhase, PhaseIndex
  <2>2. ~IsRecovery(r, "cleanup")
    BY DEF IsRecovery, InPhase, Unharmed
  <2>3. CompletePhase(r) = [r EXCEPT !.phases = [r.phases EXCEPT !["cleanup"] = "success"],
                                     !.nextPhase = r.nextPhase + 1, !.currentPhase = ""]
    BY <2>1, <2>2 DEF CompletePhase, ExecutionResults
  <2>4. r.nextPhase + 1 = 5
    BY <2>1
  <2>5. QED
    BY <1>1, <2>3, <2>4
<1>3. QED
  BY <1>2 DEF InPhase, Unharmed, SameBase, ExecutionResults, Done, PhaseCount

LEMMA FirstFailure ==
  ASSUME NEW r \in ExecutionResults, NEW p \in Phases, NEW e \in Errors, InPhase(r, p)
  PROVE  LET f == FailPhase(r, p, e)
         IN  /\ FailedIn(f, p, e) /\ SameBase(r, f)
             /\ ~f.recoveryAttempted /\ f.recoveryErr = {}
<1>1. [r.phases EXCEPT ![p] = "failure"] = PhasesUpTo(p, "failure")
  BY DEF InPhase, PhasesUpTo, PhaseIndex, Phases
<1>2. FailPhase(r, p, e) = [r EXCEPT !.phases = PhasesUpTo(p, "failure"), !.currentPhase = "",
                                     !.failedPhase = p, !.firstErr = e]
  BY <1>1 DEF FailPhase, IsRecovery, InPhase, Unharmed, ExecutionResults
<1>3. QED
  BY <1>2 DEF InPhase, Unharmed, SameBase, ExecutionResults, FailedIn

\* Recovery after a first failure: its record, for a scale-down that worked and
\* for one that failed.
LEMMA RecoveryOutcome ==
  ASSUME result \in ExecutionResults, NEW p \in WorkPhases, FailedIn(result, p, "step"),
         result.initialized, ~result.recoveryAttempted, result.recoveryErr = {}
  PROVE  LET good == RecoveryEnded(CompletePhase(RecoveryBegun))
             bad  == RecoveryEnded(FailPhase(RecoveryBegun, "cleanup", "recovery step"))
         IN  /\ Recovered(good, p) /\ SameBase(result, good)
             /\ Recovered(bad, p)  /\ SameBase(result, bad)
             /\ bad.recoveryPhaseStatus = "error"
<1>1. RecoveryBegun = [result EXCEPT !.recoveryStatus = "error", !.currentPhase = "cleanup",
                                     !.recoveryAttempted = TRUE]
  BY DEF RecoveryBegun, BeginPhase, FailedIn, ExecutionResults, WorkPhases
<1>2. RecoveryEnded(CompletePhase(RecoveryBegun)) =
        [result EXCEPT !.recoveryStatus = "success", !.recoveryAttempted = TRUE,
                       !.currentPhase = "", !.recoveryPhaseStatus = "success"]
  BY <1>1 DEF RecoveryEnded, CompletePhase, IsRecovery, ExecutionResults
<1>3. RecoveryEnded(FailPhase(RecoveryBegun, "cleanup", "recovery step")) =
        [result EXCEPT !.recoveryStatus = "error", !.recoveryAttempted = TRUE,
                       !.currentPhase = "", !.recoveryPhaseStatus = "error",
                       !.recoveryErr = {"recovery step"}]
  <2> DEFINE begun == RecoveryBegun
  <2>1. begun.currentPhase = "cleanup" /\ begun.recoveryAttempted
    BY <1>1 DEF ExecutionResults
  <2>2. FailPhase(begun, "cleanup", "recovery step") =
          [begun EXCEPT !.currentPhase = "", !.recoveryStatus = "error",
                        !.recoveryErr = begun.recoveryErr \cup {"recovery step"}]
    <3> HIDE DEF begun
    <3>1. FailPhase(begun, "cleanup", "recovery step") =
            RecordRecoveryError([begun EXCEPT !.currentPhase = ""], "recovery step")
      BY <2>1 DEF FailPhase, IsRecovery
    <3>2. QED
      BY <3>1 DEF RecordRecoveryError
  <2>3. begun.recoveryErr = {}
    BY <1>1 DEF ExecutionResults
  <2>4. FailPhase(begun, "cleanup", "recovery step") =
          [begun EXCEPT !.currentPhase = "", !.recoveryStatus = "error",
                        !.recoveryErr = {"recovery step"}]
    <3> HIDE DEF begun
    <3>1. begun.recoveryErr \cup {"recovery step"} = {"recovery step"}
      BY <2>3
    <3>2. QED
      BY <2>2, <3>1
  <2>5. FailPhase(begun, "cleanup", "recovery step") =
          [result EXCEPT !.recoveryStatus = "error", !.recoveryAttempted = TRUE,
                         !.currentPhase = "", !.recoveryErr = {"recovery step"}]
    BY ONLY <1>1, <2>4, result \in ExecutionResults DEF ExecutionResults
  <2>6. QED
    BY ONLY <2>5, result \in ExecutionResults DEF RecoveryEnded, ExecutionResults
<1> DEFINE good == RecoveryEnded(CompletePhase(RecoveryBegun))
           bad  == RecoveryEnded(FailPhase(RecoveryBegun, "cleanup", "recovery step"))
           Kept(q) == /\ q.currentPhase = "" /\ q.failedPhase = p /\ q.firstErr = "step"
                      /\ q.phases = PhasesUpTo(p, "failure")
                      /\ q.initialized /\ q.recoveryAttempted /\ SameBase(result, q)
<1>4. Kept(good) /\ Kept(bad)
  <2>1. Kept(good)
    BY <1>2 DEF SameBase, FailedIn, ExecutionResults
  <2>2. Kept(bad)
    BY <1>3 DEF SameBase, FailedIn, ExecutionResults
  <2>3. QED
    BY <2>1, <2>2
<1>5. /\ good.recoveryPhaseStatus = "success" /\ good.recoveryErr = {}
      /\ bad.recoveryPhaseStatus = "error" /\ bad.recoveryStatus = "error"
      /\ bad.recoveryErr = {"recovery step"}
  BY <1>2, <1>3 DEF ExecutionResults
<1>6. QED
  BY <1>4, <1>5 DEF Recovered, FailedIn

-----------------------------------------------------------------------------
(* The invariant is inductive.                                             *)

Rest == RecordInv /\ DumpInv /\ WorldInv

\* A step that returned nil: r is the record it leaves, and the world is what
\* the next step finds.
LEMMA AdvanceInv ==
  ASSUME TypeOK, RecordInv, stage = "workflow",
         NEW r \in ExecutionResults, InPhase(r, StepPhase(step)), r.initialized,
         r.objectRecorded <=> step + 1 > Download,
         tempFile' = (IF step + 1 > Download THEN "staged" ELSE "none"),
         WorldAt(step + 1, database', spec'),
         AdvanceWith(r)
  PROVE  Rest'
<1>1. step \in 1..21 /\ err = "nil"
  BY DEF TypeOK, Steps, RecordReplicas, CleanDb, RecordInv
<1>2. CASE step = CleanDb
  <2>1. StepPhase(step) = "cleanup"
    BY <1>2 DEF StepPhase, CleanDb, Download, AnalyzeDb, CheckTimeline
  <2>2. result' = CompletePhase(r) /\ stage' = "dump cleanup" /\ err' = "nil"
    BY <1>1, <1>2 DEF AdvanceWith
  <2>3. Done(result') /\ SameBase(r, result') /\ ~result'.recoveryAttempted
    BY <2>1, <2>2, LastPhase
  <2>4. r.objectRecorded /\ tempFile' = "staged"
    BY <1>2 DEF CleanDb, Download
  <2>5. RecordInv'
    BY <2>2, <2>3 DEF RecordInv
  <2>6. DumpInv'
    BY <2>2, <2>3, <2>4 DEF DumpInv, SameBase
  <2>7. WorldInv'
    BY <1>2, <2>2 DEF WorldInv
  <2>8. QED
    BY <2>5, <2>6, <2>7 DEF Rest
<1>3. CASE step # CleanDb
  <2>1. step' = step + 1 /\ stage' = "workflow" /\ err' = "nil"
    BY <1>1, <1>3 DEF AdvanceWith
  <2>2. InPhase(result', StepPhase(step + 1)) /\ SameBase(r, result')
    <3>1. CASE StepPhase(step + 1) = StepPhase(step)
      BY <1>3, <3>1 DEF AdvanceWith, SameBase
    <3>2. CASE StepPhase(step + 1) # StepPhase(step)
      <4>1. PhaseIndex(StepPhase(step + 1)) = PhaseIndex(StepPhase(step)) + 1
        BY <1>1, <3>2 DEF StepPhase, PhaseIndex, Download, AnalyzeDb, CheckTimeline
      <4>2. result' = BeginPhase(CompletePhase(r), StepPhase(step + 1))
        BY <1>3, <3>2 DEF AdvanceWith
      <4>3. QED
        BY <4>1, <4>2, PhaseBorder, StepPhaseType
    <3>3. QED
      BY <3>1, <3>2
  <2>3. RecordInv'
    BY <2>1, <2>2 DEF RecordInv, SameBase
  <2>4. DumpInv'
    BY <2>1, <2>2 DEF DumpInv, SameBase
  <2>5. WorldInv'
    BY <2>1 DEF WorldInv
  <2>6. QED
    BY <2>3, <2>4, <2>5 DEF Rest
<1>4. QED
  BY <1>2, <1>3

\* A step that returned an error.
LEMMA AbortInv ==
  ASSUME TypeOK, RecordInv, stage = "workflow", Abort,
         IF result.objectRecorded THEN tempFile' = "staged" ELSE tempFile' # "staged"
  PROVE  Rest'
<1>1. InPhase(result, StepPhase(step)) /\ result.initialized
  BY DEF RecordInv
<1>2. /\ FailedIn(result', StepPhase(step), "step") /\ SameBase(result, result')
      /\ ~result'.recoveryAttempted /\ result'.recoveryErr = {}
  BY <1>1, FirstFailure, StepPhaseType DEF Abort, TypeOK, Errors
<1>3. stage' = "recover" /\ err' = "step" /\ step' = step
  BY DEF Abort
<1>4. RecordInv'
  BY <1>1, <1>2, <1>3 DEF RecordInv, SameBase
<1>5. DumpInv'
  BY <1>2, <1>3 DEF DumpInv, SameBase
<1>6. WorldInv'
  BY <1>3 DEF WorldInv
<1>7. QED
  BY <1>4, <1>5, <1>6 DEF Rest

\* In the workflow the file follows the bookkeeping.
LEMMA WorkflowDump ==
  ASSUME DumpInv, stage = "workflow"
  PROVE  IF result.objectRecorded THEN tempFile = "staged" ELSE tempFile # "staged"
  BY DEF DumpInv

LEMMA StepFailsInv ==
  ASSUME IInv, StepFails
  PROVE  Rest'
<1>1. stage = "workflow" /\ Abort
  BY DEF StepFails
<1>2. IF result.objectRecorded THEN tempFile' = "staged" ELSE tempFile' # "staged"
  <2>1. CASE step = Download
    <3>1. tempFile' \in {"none", "orphan"}
      BY <2>1 DEF StepFails
    <3>2. ~result.objectRecorded
      BY <1>1, <2>1 DEF IInv, DumpInv, Download
    <3>3. QED
      BY <3>1, <3>2
  <2>2. CASE step # Download
    <3>1. tempFile' = tempFile
      BY <2>2 DEF StepFails
    <3>2. QED
      BY <1>1, <3>1, WorkflowDump DEF IInv
  <2>3. QED
    BY <2>1, <2>2
<1>3. QED
  BY <1>1, <1>2, AbortInv DEF IInv

LEMMA WorkflowReturnsInv ==
  ASSUME IInv, WorkflowReturns
  PROVE  Rest'
<1> DEFINE Kept == result.objectRecorded <=> step + 1 > Download
           KeptFile == tempFile = (IF step + 1 > Download THEN "staged" ELSE "none")
<1>1. /\ TypeOK /\ RecordInv /\ step \in 1..21 /\ result \in ExecutionResults
      /\ stage = "workflow" =>
           /\ InPhase(result, StepPhase(step)) /\ result.initialized
           /\ WorldAt(step, database, spec)
           /\ step # Download => Kept /\ KeptFile
  <2>1. stage = "workflow" /\ step # Download => Kept /\ KeptFile
    BY DEF IInv, TypeOK, DumpInv, Download, Steps, RecordReplicas, CleanDb
  <2>2. QED
    BY <2>1 DEF IInv, TypeOK, RecordInv, WorldInv, Steps, RecordReplicas, CleanDb
<1> DEFINE Base == /\ InPhase(result, StepPhase(step)) /\ result.initialized
                   /\ WorldAt(step, database, spec)
<1> USE DEF RecordReplicas, CheckS3, CheckK8s, Download, ScaleWebDown, ScaleDbUp, WaitWebDown,
        WaitDbUp, CheckDb, Terminate, Drop, Create, RestoreDump, MeasureSize, AnalyzeDb,
        ScaleWebUp, WaitWebUp, AwaitReadiness, CheckTimeline, CleanWeb, CleanDb
<1>2. CASE RecordReplicasReturns \/ CheckS3Returns \/ CheckK8sReturns \/ CheckDbReturns
           \/ ReadinessReturns \/ CheckTimelineReturns
           \/ \E w \in Workloads, n \in 0..1 : WaitReturns(w, n)
  <2>1. /\ stage = "workflow" /\ AdvanceWith(result)
        /\ UNCHANGED <<spec, database, tempFile>>
        /\ step \in {1, 2, 3, 7, 8, 9, 17, 18, 19}
    BY <1>2 DEF RecordReplicasReturns, CheckS3Returns, CheckK8sReturns, CheckDbReturns,
       ReadinessReturns, CheckTimelineReturns, WaitReturns, Advance, At, clusterVars
  <2>2. WorldAt(step + 1, database', spec')
    BY <1>1, <2>1 DEF WorldAt
  <2>3. QED
    BY <1>1, <2>1, <2>2, AdvanceInv
<1>3. CASE DownloadReturns
  <2>1. /\ stage = "workflow" /\ step = 4 /\ AdvanceWith(SetObject(result))
        /\ UNCHANGED <<spec, database>> /\ tempFile' = "staged"
    BY <1>3 DEF DownloadReturns, At, clusterVars
  <2>2. /\ InPhase(SetObject(result), StepPhase(step)) /\ SetObject(result).initialized
        /\ SetObject(result).objectRecorded
    BY <1>1, <2>1 DEF InPhase, Unharmed, SetObject, ExecutionResults
  <2>3. WorldAt(step + 1, database', spec')
    BY <2>1 DEF WorldAt
  <2>4. SetObject(result) \in ExecutionResults
    BY <1>1, SetObjectType
  <2> DEFINE r == SetObject(result)
  <2> HIDE DEF r
  <2>5. /\ r \in ExecutionResults /\ InPhase(r, StepPhase(step)) /\ r.initialized
        /\ r.objectRecorded /\ AdvanceWith(r)
    BY <2>1, <2>2, <2>4 DEF r
  <2>6. /\ r.objectRecorded <=> step + 1 > Download
        /\ tempFile' = (IF step + 1 > Download THEN "staged" ELSE "none")
    BY <2>1, <2>5
  <2>7. TypeOK /\ RecordInv /\ stage = "workflow"
    BY <1>1, <2>1
  <2>8. QED
    BY <2>3, <2>5, <2>6, <2>7, AdvanceInv
<1>4. CASE MeasureSizeReturns
  <2>1. PICK a \in BOOLEAN : AdvanceWith([result EXCEPT !.databaseSizeAttempted = TRUE,
                                                        !.databaseSizeAvailable = a])
    BY <1>4 DEF MeasureSizeReturns
  <2> DEFINE r == [result EXCEPT !.databaseSizeAttempted = TRUE, !.databaseSizeAvailable = a]
  <2>2. stage = "workflow" /\ step = 14 /\ UNCHANGED <<spec, database, tempFile>>
    BY <1>4 DEF MeasureSizeReturns, At, clusterVars
  <2>3. r \in ExecutionResults
    BY <1>1 DEF ExecutionResults
  <2>4. /\ InPhase(r, StepPhase(step)) /\ r.initialized
        /\ r.objectRecorded = result.objectRecorded
    BY <1>1, <2>2 DEF InPhase, Unharmed, ExecutionResults
  <2>5. AdvanceWith(r)
    BY <2>1
  <2> HIDE DEF r
  <2>6. /\ r.objectRecorded <=> step + 1 > Download
        /\ tempFile' = (IF step + 1 > Download THEN "staged" ELSE "none")
    BY <1>1, <2>2, <2>4
  <2>7. WorldAt(step + 1, database', spec')
    BY <1>1, <2>2 DEF WorldAt
  <2>8. QED
    BY <1>1, <2>2, <2>3, <2>4, <2>5, <2>6, <2>7, AdvanceInv
<1>5. ASSUME Advance, stage = "workflow", step # 4, tempFile' = tempFile,
             WorldAt(step + 1, database', spec')
      PROVE  Rest'
  BY <1>1, <1>5, AdvanceInv DEF Advance
<1>6. CASE ScaleReturns
  <2>1. /\ stage = "workflow" /\ Advance /\ UNCHANGED <<database, tempFile>>
        /\ step \in {5, 6, 16, 20, 21} /\ spec' = [spec EXCEPT ![Scaled(step)] = Count(step)]
    BY <1>6, ScaleShape DEF Scales
  <2>2. spec \in [Workloads -> 0..1] /\ Workloads = {"web", "db"}
    BY <1>1 DEF TypeOK, ClusterTypeOK, Workloads
  <2>3. WorldAt(step + 1, database', spec')
    BY <1>1, <2>1, <2>2 DEF WorldAt, Scaled, Count
  <2>4. QED
    BY <1>5, <2>1, <2>3
<1>7. CASE TerminateReturns \/ DropReturns \/ CreateReturns \/ AnalyzeReturns
  <2>1. /\ stage = "workflow" /\ Advance /\ UNCHANGED <<spec, tempFile>>
        /\ step \in {10, 11, 12} \/ (step = 15 /\ (database = "restored" => database' = "analyzed"))
    BY <1>7, DataShape
  <2>2. WorldAt(step + 1, database', spec')
    BY <1>1, <2>1 DEF WorldAt
  <2>3. QED
    BY <1>5, <2>1, <2>2
<1>8. CASE RestoreDumpReturns
  <2>1. /\ stage = "workflow" /\ step = 13 /\ Advance /\ UNCHANGED <<spec, tempFile>>
        /\ database' = "restored"
    BY <1>8, RestoreDumpShape
  <2>2. WorldAt(step + 1, database', spec')
    BY <1>1, <2>1 DEF WorldAt
  <2>3. QED
    BY <1>5, <2>1, <2>2
<1>9. QED
  BY <1>2, <1>3, <1>4, <1>6, <1>7, <1>8 DEF WorkflowReturns

\* The cluster between calls: it never raises or drops what the run relies on.
LEMMA EnvironmentInv ==
  ASSUME IInv, Environment
  PROVE  Rest'
<1>1. /\ UNCHANGED <<stage, step, canceled, result, err, tempFile, notice, run>> /\ spec' = spec
      /\ database' = database \/ (database = "empty" /\ database' = "dirty")
  BY DEF Environment, Controllers, Happenstance, StartPod, PodReady, StopPod, PodGone,
         ReportStatus, PodUnready, WebConnect, WebMigrate
<1>2. RecordInv' /\ DumpInv'
  BY <1>1 DEF IInv, RecordInv, DumpInv
<1>3. \A n : WorldAt(n, database, spec) => WorldAt(n, database', spec')
  BY <1>1 DEF WorldAt
<1>4. WorldInv'
  BY <1>1, <1>3 DEF IInv, WorldInv, WorldAt
<1>5. QED
  BY <1>2, <1>4 DEF Rest

LEMMA RecoverInv ==
  ASSUME IInv, Recover
  PROVE  Rest'
<1>1. /\ stage = "recover" /\ result \in ExecutionResults /\ StepPhase(step) \in WorkPhases
      /\ FailedIn(result, StepPhase(step), "step") /\ result.initialized
      /\ err = "step" /\ ~result.recoveryAttempted /\ result.recoveryErr = {}
      /\ IF result.objectRecorded THEN tempFile = "staged" ELSE tempFile # "staged"
  BY StepPhaseType DEF Recover, IInv, TypeOK, RecordInv, DumpInv
<1>2. RecoveryRequired(result) /\ CanBegin(result, "cleanup")
  BY <1>1 DEF RecoveryRequired, CanBegin, FailedIn, WorkPhases
<1> DEFINE good == RecoveryEnded(CompletePhase(RecoveryBegun))
           bad  == RecoveryEnded(FailPhase(RecoveryBegun, "cleanup", "recovery step"))
<1>3. /\ Recovered(good, StepPhase(step)) /\ SameBase(result, good)
      /\ Recovered(bad, StepPhase(step))  /\ SameBase(result, bad)
      /\ bad.recoveryPhaseStatus = "error"
  BY <1>1, RecoveryOutcome
<1>4. \/ result' = good /\ spec' = [spec EXCEPT !["web"] = 0]
      \/ result' = bad
  BY <1>2 DEF Recover
<1>5. stage' = "dump cleanup" /\ err' = "step" /\ tempFile' = tempFile /\ step' = step
  BY <1>1 DEF Recover
<1> HIDE DEF good, bad
<1>6. Recovered(result', StepPhase(step)) /\ SameBase(result, result')
  BY <1>3, <1>4
<1>7. result'.recoveryPhaseStatus = "success" => spec'["web"] = 0
  <2>1. "web" \in DOMAIN spec
    BY DEF IInv, TypeOK, ClusterTypeOK, Workloads
  <2>2. QED
    BY <1>3, <1>4, <2>1
<1>8. RecordInv'
  BY <1>5, <1>6 DEF RecordInv
<1>9. DumpInv'
  BY <1>1, <1>5, <1>6 DEF DumpInv, SameBase
<1>10. WorldInv'
  BY <1>5, <1>7 DEF WorldInv
<1>11. QED
  BY <1>8, <1>9, <1>10 DEF Rest

\* The three outcomes of the deferred removal.
LEMMA DumpCleanupInv ==
  ASSUME IInv, DumpCleanup
  PROVE  Rest'
<1>1. /\ stage = "dump cleanup" /\ stage' = "report" /\ result \in ExecutionResults
      /\ spec' = spec /\ database' = database /\ step' = step
      /\ \/ err = "nil" /\ Done(result) /\ ~result.recoveryAttempted
         \/ err = "step" /\ Recovered(result, StepPhase(step))
      /\ IF result.objectRecorded THEN tempFile = "staged" ELSE tempFile # "staged"
      /\ err = "nil" => result.objectRecorded /\ WorldAt(CleanDb + 1, database, spec)
      /\ err = "step" /\ result.recoveryPhaseStatus = "success" =>
           spec["web"] = 0 \/ step = ScaleWebUp
  BY DEF DumpCleanup, IInv, TypeOK, RecordInv, DumpInv, WorldInv, clusterVars
<1> DEFINE gone   == [result EXCEPT !.tempCleanupStatus = "success"]
           failed == [result EXCEPT !.tempCleanupStatus = "error"]
<1>2. CASE ~DumpHeld /\ UNCHANGED <<tempFile, result, err>> /\ err = "step"
  BY <1>1, <1>2 DEF DumpHeld, Rest, RecordInv, DumpInv, WorldInv
<1>3. CASE DumpHeld /\ tempFile' = "none" /\ result' = gone /\ UNCHANGED err
  <2>1. /\ Done(result) => Done(gone)
        /\ Recovered(result, StepPhase(step)) => Recovered(gone, StepPhase(step))
        /\ gone.recoveryAttempted = result.recoveryAttempted
        /\ gone.recoveryPhaseStatus = result.recoveryPhaseStatus
    BY <1>1 DEF Done, Recovered, FailedIn, ExecutionResults
  <2>2. QED
    BY <1>1, <1>3, <2>1 DEF Rest, RecordInv, DumpInv, WorldInv
<1>4. CASE /\ DumpHeld /\ UNCHANGED tempFile /\ err = "nil"
           /\ result' = FailCompletedPhase(failed, "cleanup", "dump cleanup")
           /\ err' = "dump cleanup"
  <2>1. Done(result) /\ ~result.recoveryAttempted
    BY <1>1, <1>4
  <2>2. [result.phases EXCEPT !["cleanup"] = "failure"] = PhasesUpTo("cleanup", "failure")
    BY <2>1 DEF Done, PhasesUpTo, PhaseIndex, Phases
  <2>3. result' = [result EXCEPT !.tempCleanupStatus = "error", !.failedPhase = "cleanup",
                                 !.firstErr = "dump cleanup",
                                 !.phases = PhasesUpTo("cleanup", "failure")]
    BY <1>1, <1>4, <2>1, <2>2 DEF FailCompletedPhase, Done, ExecutionResults
  <2>4. /\ FailedIn(result', "cleanup", "dump cleanup") /\ ~result'.recoveryAttempted
        /\ result'.tempCleanupStatus = "error"
    BY <1>1, <2>1, <2>3 DEF FailedIn, Done, ExecutionResults
  <2>5. QED
    BY <1>1, <1>4, <2>4 DEF Rest, RecordInv, DumpInv, WorldInv
<1>5. CASE /\ DumpHeld /\ UNCHANGED <<tempFile, err>> /\ err = "step"
           /\ result' = RecordRecoveryError(failed, "dump cleanup")
  <2>1. result' = [result EXCEPT !.tempCleanupStatus = "error", !.recoveryStatus = "error",
                                 !.recoveryErr = result.recoveryErr \cup {"dump cleanup"}]
    BY <1>1, <1>5 DEF RecordRecoveryError, ExecutionResults
  <2>2. /\ result'.tempCleanupStatus = "error" /\ result'.recoveryStatus = "error"
        /\ result'.recoveryErr = result.recoveryErr \cup {"dump cleanup"}
        /\ result'.recoveryPhaseStatus = result.recoveryPhaseStatus
        /\ result'.initialized = result.initialized
        /\ result'.recoveryAttempted = result.recoveryAttempted
        /\ result'.failedPhase = result.failedPhase /\ result'.firstErr = result.firstErr
        /\ result'.currentPhase = result.currentPhase /\ result'.phases = result.phases
    BY <1>1, <2>1 DEF ExecutionResults
  <2>3. Recovered(result, StepPhase(step))
    BY <1>1, <1>5
  <2>4. Recovered(result', StepPhase(step))
    BY <2>2, <2>3 DEF Recovered, FailedIn
  <2>5. QED
    BY <1>1, <1>5, <2>2, <2>4 DEF Rest, RecordInv, DumpInv, WorldInv
<1>6. QED
  <2>1. err = "nil" => result.objectRecorded /\ result.failedPhase = ""
    BY <1>1 DEF Done
  <2>2. QED
    BY <1>1, <1>2, <1>3, <1>4, <1>5, <2>1 DEF DumpCleanup, DumpHeld

\* The request that raises web is that of the step that was given up on.
LEMMA LateStep ==
  ASSUME LateInv, ScaleWebUp \in late
  PROVE  step = ScaleWebUp
<1>1. ScaleWebUp # ScaleWebDown
  BY DEF ScaleWebUp, ScaleWebDown
<1>2. QED
  BY <1>1 DEF LateInv

\* A request that lands after the step that sent it has failed: it touches neither the
\* record nor the file, and raises web only if that is what was given up on.
LEMMA LandingInv ==
  ASSUME IInv, Landing
  PROVE  Rest'
<1>1. PICK n \in Mutations : Land(n)
  BY DEF Landing
<1>2. /\ n \in late
      /\ UNCHANGED <<stage, step, canceled, result, err, tempFile, notice, run>>
      /\ spec' = spec \/ (n \in Scales /\ spec' = [spec EXCEPT ![Scaled(n)] = Count(n)])
  BY <1>1, LandShape
<1>3. stage = "crashed" \/
        (stage \in {"recover", "dump cleanup", "report", "notify", "exited"} /\ err = "step")
  BY <1>2 DEF IInv, LateInv
<1>4. RecordInv' /\ DumpInv'
  BY <1>2 DEF IInv, RecordInv, DumpInv
<1>5. spec["web"] = 0 => spec'["web"] = 0 \/ step = ScaleWebUp
  <2>1. n = ScaleWebUp => step = ScaleWebUp
    BY <1>2, LateStep DEF IInv
  <2>2. spec \in [Workloads -> 0..1] /\ Workloads = {"web", "db"}
    BY DEF IInv, TypeOK, ClusterTypeOK, Workloads
  <2>3. CASE n = ScaleWebUp
    BY <2>1, <2>3
  <2>4. CASE n # ScaleWebUp
    <3>1. Scaled(n) = "db" \/ Count(n) = 0
      BY <2>4 DEF Scaled, Count
    <3>2. Scaled(n) \in {"web", "db"}
      BY DEF Scaled
    <3>3. QED
      BY <1>2, <2>2, <3>1, <3>2
  <2>5. QED
    BY <2>3, <2>4
<1>6. WorldInv'
  BY <1>2, <1>3, <1>5 DEF IInv, WorldInv
<1>7. QED
  BY <1>4, <1>6 DEF Rest

\* The work after the workflow leaves the base of the record alone.
LEMMA ClosingKeepsBase ==
  ASSUME result \in ExecutionResults, DumpCleanup \/ FinalReport
  PROVE  SameBase(result, result')
<1>1. CASE DumpCleanup
  BY <1>1 DEF DumpCleanup, FailCompletedPhase, RecordRecoveryError, ExecutionResults, SameBase
<1>2. CASE FinalReport
  BY <1>2 DEF FinalReport, FailPhase, RecordRecoveryError, IsRecovery, ExecutionResults, SameBase
<1>3. QED
  BY <1>1, <1>2

\* The request of the step at which a run gives up, or ends.
LEMMA GiveUpInv ==
  ASSUME IInv, stage = "workflow", GiveUp, UNCHANGED <<spec, database, step>>,
         result'.initialized = result.initialized,
         result'.objectRecorded = result.objectRecorded,
         stage' = "crashed" \/ (stage' = "recover" /\ err' = "step")
  PROVE  LateInv'
<1> USE DEF RecordReplicas, CheckS3, CheckK8s, Download, ScaleWebDown, ScaleDbUp, WaitWebDown,
        WaitDbUp, CheckDb, Terminate, Drop, Create, RestoreDump, MeasureSize, AnalyzeDb,
        ScaleWebUp, WaitWebUp, AwaitReadiness, CheckTimeline, CleanWeb, CleanDb
<1>1. late = {} /\ result.initialized
  BY DEF IInv, LateInv, RecordInv
<1>2. late' \subseteq {step} /\ (step \in late' => step \in Mutations)
  BY <1>1 DEF GiveUp, InFlight
<1>3. step \in Mutations \ Scales => result.objectRecorded /\ spec["web"] = 0
  <2>1. step \in Mutations \ Scales => step \in {10, 11, 12, 13, 15}
    BY DEF Mutations, Scales
  <2>2. /\ result.objectRecorded <=> step > 4
        /\ WorldAt(step, database, spec)
    BY DEF IInv, DumpInv, WorldInv
  <2>3. QED
    BY <2>1, <2>2 DEF WorldAt
<1>4. step = 16 => database = "analyzed"
  BY DEF IInv, WorldInv, WorldAt
<1>5. late' \subseteq Scales \/ (result'.objectRecorded /\ spec'["web"] = 0)
  BY <1>2, <1>3
<1>6. ScaleWebUp \in late' => database' = "analyzed"
  BY <1>2, <1>4
<1>7. QED
  BY <1>1, <1>2, <1>5, <1>6 DEF LateInv

\* With no step of its own, a set of late requests keeps what it finds.
LEMMA FewerLate ==
  ASSUME IInv, late' \subseteq late, step' = step,
         SameBase(result, result'),
         spec'["web"] = spec["web"] \/ spec'["web"] = 0,
         database = "analyzed" => database' = "analyzed",
         stage \in {"recover", "dump cleanup", "report", "notify", "exited"} /\ err = "step" =>
           /\ stage' \in {"recover", "dump cleanup", "report", "notify", "exited", "crashed"}
           /\ err' = "step",
         stage = "crashed" => stage' = "crashed"
  PROVE  LateInv'
  BY DEF IInv, LateInv, SameBase

\* What a late request finds is kept by every step.
LEMMA NextLateInv ==
  ASSUME IInv, [Next]_vars
  PROVE  LateInv'
<1>1. result \in ExecutionResults
  BY DEF IInv, TypeOK
<1>2. stage \in {"preflight", "workflow"} => late = {}
  BY DEF IInv, LateInv
<1>3. ASSUME late' = {} PROVE LateInv'
  BY <1>3 DEF LateInv
<1>4. CASE PreflightPasses \/ PreflightRejects \/ WorkflowReturns \/ NextRun
  <2>1. late' = {}
    BY <1>2, <1>4, ScaleShape, DataShape, RestoreDumpShape
       DEF PreflightPasses, PreflightRejects, WorkflowReturns, RecordReplicasReturns,
       CheckS3Returns, CheckK8sReturns, DownloadReturns, WaitReturns, CheckDbReturns,
       MeasureSizeReturns, ReadinessReturns, CheckTimelineReturns, At, NextRun
  <2>2. QED
    BY <1>3, <2>1
<1>5. CASE StepFails
  <2>1. /\ stage = "workflow" /\ Abort /\ UNCHANGED <<spec, database>>
        /\ GiveUp \/ late' = late
    BY <1>5 DEF StepFails, clusterVars
  <2>2. /\ stage' = "recover" /\ err' = "step" /\ step' = step
        /\ SameBase(result, result')
    <3>1. InPhase(result, StepPhase(step))
      BY <2>1 DEF IInv, RecordInv
    <3>2. QED
      BY <1>1, <2>1, <3>1, FirstFailure, StepPhaseType DEF Abort, Errors
  <2>3. QED
    BY <1>2, <1>3, <2>1, <2>2, GiveUpInv DEF SameBase
<1>6. CASE Recover
  <2>1. /\ stage = "recover" /\ stage' = "dump cleanup" /\ err' = err
        /\ UNCHANGED <<step, database>>
        /\ spec' = spec \/ spec' = [spec EXCEPT !["web"] = 0]
        /\ late' \subseteq late \cup {ScaleWebDown}
    BY <1>6 DEF Recover, GiveUp, InFlight, Standing
  <2>2. FailedIn(result, StepPhase(step), "step") /\ result.initialized /\ err = "step"
        /\ ~result.recoveryAttempted /\ result.recoveryErr = {}
    BY <2>1 DEF IInv, RecordInv
  <2>3. SameBase(result, result')
    <3> DEFINE good == RecoveryEnded(CompletePhase(RecoveryBegun))
               bad  == RecoveryEnded(FailPhase(RecoveryBegun, "cleanup", "recovery step"))
    <3>1. SameBase(result, good) /\ SameBase(result, bad)
      BY <1>1, <2>2, RecoveryOutcome, StepPhaseType
    <3>2. RecoveryRequired(result) /\ CanBegin(result, "cleanup")
      BY <2>2, StepPhaseType DEF RecoveryRequired, CanBegin, FailedIn, WorkPhases
    <3>3. result' = good \/ result' = bad
      BY <1>6, <3>2 DEF Recover
    <3> HIDE DEF good, bad
    <3>4. QED
      BY <3>1, <3>3
  <2>4. spec'["web"] = spec["web"] \/ spec'["web"] = 0
    BY <2>1 DEF IInv, TypeOK, ClusterTypeOK, Workloads
  <2>5. ScaleWebDown \in Scales /\ ScaleWebDown # ScaleWebUp
    BY DEF Scales, ScaleWebDown, ScaleWebUp
  <2>6. QED
    BY <2>1, <2>2, <2>3, <2>4, <2>5 DEF IInv, LateInv, SameBase
<1>7. CASE DumpCleanup \/ FinalReport
  <2>1. SameBase(result, result')
    BY <1>1, <1>7, ClosingKeepsBase
  <2>2. /\ stage \in {"dump cleanup", "report"} /\ stage' \in {"report", "notify"}
        /\ UNCHANGED <<late, step, spec, database>>
    BY <1>7 DEF DumpCleanup, FinalReport, clusterVars
  <2>3. err = "step" => err' = "step"
    BY <1>7 DEF DumpCleanup, FinalReport
  <2>4. QED
    BY <2>1, <2>2, <2>3, FewerLate
<1>8. CASE Notify \/ Cancel \/ UNCHANGED vars
  <2>1. /\ UNCHANGED <<late, step, spec, database, result, err>>
        /\ stage' = stage \/ (stage = "notify" /\ stage' = "exited")
    BY <1>8 DEF Notify, Cancel, vars, runVars, clusterVars
  <2>2. QED
    BY <2>1, FewerLate DEF SameBase
<1>9. CASE Environment
  <2>1. /\ UNCHANGED <<stage, step, result, err, spec>> /\ late' \subseteq late
        /\ database' = database \/ (database = "empty" /\ database' = "dirty")
    BY <1>9 DEF Environment, Controllers, Happenstance, StartPod, PodReady, StopPod, PodGone,
       ReportStatus, PodUnready, WebConnect, WebMigrate, Standing
  <2>2. QED
    BY <2>1, FewerLate DEF SameBase
<1>10. CASE Landing
  <2>1. PICK n \in Mutations : Land(n)
    BY <1>10 DEF Landing
  <2>2. /\ n \in late /\ late' \subseteq late /\ UNCHANGED <<stage, step, result, err>>
        /\ \/ n \in Scales /\ spec' = [spec EXCEPT ![Scaled(n)] = Count(n)] /\ database' = database
           \/ n \notin Scales /\ spec' = spec
    BY <2>1, LandShape, LandKinds
  <2>3. CASE n = ScaleWebUp
    <3>1. step = ScaleWebUp
      BY <2>2, <2>3, LateStep DEF IInv
    <3>2. n \in Scales /\ late \subseteq Scales /\ database' = database
      BY <2>2, <2>3, <3>1 DEF IInv, LateInv, Scales
    <3>3. QED
      BY <2>2, <3>2 DEF IInv, LateInv
  <2>4. CASE n \in Scales /\ n # ScaleWebUp
    <3>1. Scaled(n) = "db" \/ Count(n) = 0
      BY <2>4 DEF Scaled, Count
    <3>2. spec'["web"] = spec["web"] \/ spec'["web"] = 0
      BY <2>2, <2>4, <3>1 DEF IInv, TypeOK, ClusterTypeOK, Workloads
    <3>3. database' = database
      BY <2>2, <2>4
    <3>4. QED
      BY <2>2, <3>2, <3>3, FewerLate DEF SameBase
  <2>5. CASE n \notin Scales
    <3>1. ScaleWebUp \notin late
      <4>1. n \in late /\ late \subseteq {step, ScaleWebDown} /\ ScaleWebDown \in Scales
            /\ ScaleWebUp \in Scales
        BY <2>2 DEF IInv, LateInv, Scales
      <4>2. n = step
        BY <2>5, <4>1
      <4>3. QED
        BY <2>5, <4>1, <4>2, LateStep DEF IInv
    <3>2. spec' = spec
      BY <2>2, <2>5
    <3>3. n \in late /\ late' \subseteq late /\ UNCHANGED <<stage, step, result, err>>
      BY <2>2
    <3>4. result.objectRecorded /\ spec["web"] = 0
      BY <2>5, <3>3 DEF IInv, LateInv
    <3>5. QED
      BY <3>1, <3>2, <3>3, <3>4 DEF IInv, LateInv
  <2>6. QED
    BY <2>3, <2>4, <2>5
<1>11. CASE Crash
  <2>1. /\ stage' = "crashed" /\ Running /\ GiveUp
        /\ UNCHANGED <<spec, database, step, result, err>>
    BY <1>11 DEF Crash, clusterVars
  <2>2. CASE stage = "workflow"
    BY <2>1, <2>2, GiveUpInv
  <2>3. CASE stage = "recover"
    <3>1. late' \subseteq late \cup {ScaleWebDown} /\ result.initialized
      BY <2>1, <2>3 DEF GiveUp, InFlight, IInv, RecordInv
    <3>2. ScaleWebDown \in Scales /\ ScaleWebDown # ScaleWebUp
      BY DEF Scales, ScaleWebDown, ScaleWebUp
    <3>3. QED
      BY <2>1, <3>1, <3>2 DEF IInv, LateInv
  <2>4. CASE stage \notin {"workflow", "recover"}
    <3>1. late' = late
      BY <2>1, <2>4 DEF GiveUp, InFlight
    <3>2. QED
      BY <2>1, <3>1, FewerLate DEF SameBase, Running
  <2>5. QED
    BY <2>2, <2>3, <2>4
<1>12. QED
  BY <1>4, <1>5, <1>6, <1>7, <1>8, <1>9, <1>10, <1>11 DEF Next, Runner

\* IInv holds in every reachable state.
THEOREM Invariance == Spec => []IInv
<1>1. Init => IInv
  <2>1. ASSUME Init PROVE RecordInv /\ DumpInv /\ WorldInv /\ LateInv
    BY <2>1 DEF Init, RecordInv, DumpInv, WorldInv, LateInv
  <2>2. QED
    BY <2>1, InitType DEF IInv
<1>2. IInv /\ [Next]_vars => Rest'
  <2> SUFFICES ASSUME IInv, [Next]_vars PROVE Rest'
    OBVIOUS
  <2>1. CASE PreflightPasses
    <3> DEFINE m == MarkInitialized(result)
    <3>1. result = FirstResult /\ stage = "preflight" /\ tempFile = "none" /\ err = "nil"
      BY <2>1 DEF PreflightPasses, IInv, RecordInv, DumpInv
    <3>2. m \in ExecutionResults /\ InPhase(m, "preflight") /\ m.initialized /\ ~m.objectRecorded
      <4>1. NewExecutionResult.phases = PhasesUpTo("preflight", "skipped")
        BY DEF NewExecutionResult, PhasesUpTo, PhaseIndex, Phases
      <4>2. m = [NewExecutionResult EXCEPT !.currentPhase = "preflight", !.initialized = TRUE,
                                           !.recoveryAttempted = FALSE]
        BY <3>1 DEF MarkInitialized, FirstResult, BeginPhase, NewExecutionResult
      <4>3. m \in ExecutionResults
        BY <3>1, FirstResultType DEF MarkInitialized, ExecutionResults
      <4>4. QED
        BY <4>1, <4>2, <4>3 DEF InPhase, Unharmed, NewExecutionResult, PhaseIndex
    <3> HIDE DEF m
    <3>3. result' = BeginPhase(CompletePhase(m), "prepare")
      BY <2>1 DEF PreflightPasses, m
    <3>4. PhaseIndex("prepare") = PhaseIndex("preflight") + 1
          /\ "prepare" \in Phases /\ "preflight" \in Phases
      BY DEF PhaseIndex, Phases
    <3>5. InPhase(result', "prepare") /\ SameBase(m, result')
      BY <3>2, <3>3, <3>4, PhaseBorder
    <3>6. /\ stage' = "workflow" /\ err' = "nil" /\ tempFile' = "none"
          /\ step' = RecordReplicas
      BY <2>1, <3>1 DEF PreflightPasses, IInv, RecordInv
    <3>7. StepPhase(RecordReplicas) = "prepare"
      BY DEF StepPhase, RecordReplicas, Download
    <3>8. RecordInv'
      BY <3>2, <3>5, <3>6, <3>7 DEF RecordInv, SameBase
    <3>9. DumpInv'
      BY <3>2, <3>5, <3>6 DEF DumpInv, SameBase, RecordReplicas, Download
    <3>10. WorldInv'
      BY <3>6 DEF WorldInv, WorldAt, RecordReplicas, MeasureSize, AnalyzeDb, ScaleDbUp,
         ScaleWebUp, CleanWeb, CleanDb
    <3>11. QED
      BY <3>8, <3>9, <3>10 DEF Rest
  <2>2. CASE PreflightRejects
    <3>1. result = FirstResult /\ stage = "preflight" /\ tempFile = "none"
      BY <2>2 DEF PreflightRejects, IInv, RecordInv, DumpInv
    <3>2. InPhase(result, "preflight") /\ ~result.initialized
      <4>1. NewExecutionResult.phases = PhasesUpTo("preflight", "skipped")
        BY DEF NewExecutionResult, PhasesUpTo, PhaseIndex, Phases
      <4>2. QED
        BY <3>1, <4>1 DEF FirstResult, BeginPhase, InPhase, Unharmed, NewExecutionResult, PhaseIndex
    <3>3. err' \in {"help", "input"} /\ result' = FailPhase(result, "preflight", err')
          /\ stage' = "report" /\ tempFile' = "none"
      BY <2>2, <3>1 DEF PreflightRejects
    <3>4. /\ FailedIn(result', "preflight", err') /\ SameBase(result, result')
          /\ ~result'.recoveryAttempted
      BY <3>1, <3>2, <3>3, FirstFailure, FirstResultType DEF Phases, Errors
    <3>5. QED
      BY <3>2, <3>3, <3>4 DEF Rest, RecordInv, DumpInv, WorldInv, SameBase
  <2>3. CASE WorkflowReturns
    BY <2>3, WorkflowReturnsInv
  <2>4. CASE StepFails
    BY <2>4, StepFailsInv
  <2>5. CASE Recover
    BY <2>5, RecoverInv
  <2>6. CASE DumpCleanup
    BY <2>6, DumpCleanupInv
  <2>7. CASE FinalReport
    <3>1. err # "nil" => result.firstErr # "nil"
      BY <2>7 DEF FinalReport, IInv, RecordInv, Recovered, FailedIn
    <3>2. result' = result
      BY <2>7, <3>1 DEF FinalReport
    <3>3. QED
      BY <2>7, <3>2 DEF FinalReport, Rest, IInv, RecordInv, DumpInv, WorldInv, clusterVars
  <2>8. CASE Notify
    BY <2>8 DEF Notify, Rest, IInv, RecordInv, DumpInv, WorldInv, clusterVars
  <2>9. CASE Environment
    BY <2>9, EnvironmentInv
  <2>10. CASE Cancel
    BY <2>10 DEF Cancel, Rest, IInv, RecordInv, DumpInv, WorldInv, clusterVars
  <2>11. CASE Crash
    BY <2>11 DEF Crash, Rest, RecordInv, DumpInv, WorldInv
  <2>12. CASE NextRun
    BY <2>12 DEF NextRun, Rest, RecordInv, DumpInv, WorldInv
  <2>13. CASE UNCHANGED vars
    BY <2>13 DEF vars, runVars, clusterVars, Rest, IInv, RecordInv, DumpInv, WorldInv
  <2>14. CASE Landing
    BY <2>14, LandingInv
  <2>15. QED
    BY <2>1, <2>2, <2>3, <2>4, <2>5, <2>6, <2>7, <2>8, <2>9, <2>10, <2>11, <2>12, <2>13, <2>14
    DEF Next, Runner
<1>3. IInv /\ [Next]_vars => IInv'
  BY <1>2, NextType, NextLateInv DEF IInv, Rest
<1>4. QED
  BY <1>1, <1>3, PTL DEF Spec

-----------------------------------------------------------------------------
(* What follows.                                                           *)

\* Exit code 0 always means restored, analyzed, stopped and cleaned up: through
\* any interleaving of failing calls, signals, crashes and a web process that
\* lingers, over any number of runs (runWithResult's nil return).
THEOREM VerifiedDataHolds == Spec => []VerifiedData
<1>1. IInv => VerifiedData
  BY DEF IInv, VerifiedData, Ended, RecordInv, DumpInv, WorldInv, WorldAt, Workloads,
     CleanDb, AnalyzeDb, CleanWeb
<1>2. QED
  BY <1>1, Invariance, PTL

\* Web is never left up silently after initialization, but for an update that the run
\* gave up on and that lands behind recovery's own (recover, scaleOnce, and the
\* deferred cleanup that must not hide recovery's outcome).
THEOREM WebDownOrReportedHolds == Spec => []WebDownOrReported
<1>1. IInv => WebDownOrReported
  <2> SUFFICES ASSUME IInv, Ended, result.initialized, spec["web"] = 1
               PROVE  /\ result.recoveryAttempted
                      /\ \/ WebUpGivenUp
                         \/ /\ Report(result).recoveryStatus = "error"
                            /\ SafeSummary(result).recoveryStatus = "error"
    BY DEF WebDownOrReported
  <2>1. err \notin {"nil", "dump cleanup"}
    <3>1. err \in {"nil", "dump cleanup"} => WorldAt(CleanDb + 1, database, spec)
      BY DEF IInv, Ended, WorldInv
    <3>2. WorldAt(CleanDb + 1, database, spec) => spec["web"] = 0
      BY DEF WorldAt, CleanDb, CleanWeb
    <3>3. spec["web"] # 0
      OBVIOUS
    <3>4. QED
      BY <3>1, <3>2, <3>3, Zenon
  <2>2. err = "step" /\ Recovered(result, StepPhase(step))
    BY <2>1 DEF IInv, Ended, RecordInv
  <2>3. CASE step = ScaleWebUp
    BY <2>2, <2>3 DEF WebUpGivenUp, Recovered
  <2>4. CASE step # ScaleWebUp
    <3>1. result.recoveryPhaseStatus # "success"
      BY <2>2, <2>4 DEF IInv, Ended, WorldInv
    <3>2. result.recoveryPhaseStatus = "error"
      BY <2>2, <3>1 DEF Recovered
    <3>3. /\ result.recoveryAttempted /\ result.recoveryStatus = "error"
          /\ result.failedPhase # ""
      BY <2>2, <3>2 DEF Recovered, FailedIn, WorkPhases
    <3>4. QED
      BY <3>2, <3>3 DEF Report, SafeSummary
  <2>5. QED
    BY <2>3, <2>4
<1>2. QED
  BY <1>1, Invariance, PTL

\* A dump handed over by the download is deleted or its deletion is reported
\* failed, on every way a run can exit (the deferred function of runWithResult).
THEOREM StagedFileAccountedHolds == Spec => []StagedFileAccounted
<1>1. IInv => StagedFileAccounted
  <2> SUFFICES ASSUME IInv, Ended, tempFile = "staged"
               PROVE  /\ SafeSummary(result).tempCleanupStatus = "error"
                      /\ Report(result).result = "failure"
    BY DEF StagedFileAccounted
  <2>1. result.tempCleanupStatus = "error" /\ err # "nil"
    BY DEF IInv, Ended, DumpInv
  <2>2. result.failedPhase # ""
    BY <2>1 DEF IInv, Ended, RecordInv, Recovered, FailedIn, WorkPhases
  <2>3. QED
    BY <2>1, <2>2 DEF SafeSummary, Report
<1>2. QED
  BY <1>1, Invariance, PTL

\* Report, summary and exit code agree, the first error is the one reported, and
\* the phase table has one failure with successes before it and skips after it
\* (result.go's four transitions and the deferred functions that call them).
THEOREM ReportTruthfulHolds == Spec => []ReportTruthful
<1>1. IInv => ReportTruthful
  <2> SUFFICES ASSUME IInv, Ended PROVE ReportTruthful
    BY DEF ReportTruthful
  <2>1. CASE err = "nil"
    BY <2>1 DEF IInv, Ended, RecordInv, Done, ReportTruthful, Report, SafeSummary,
       AllPhasesDone, PhaseCount
  <2>2. CASE err # "nil"
    <3>1. PICK p \in Phases : FailedIn(result, p, err)
      BY <2>2 DEF IInv, Ended, RecordInv, Recovered, WorkPhases, Phases
    <3>2. /\ p # "" /\ result.failedPhase = p /\ result.firstErr = err
          /\ result.phases = PhasesUpTo(p, "failure")
      BY <3>1 DEF FailedIn, Phases
    <3>3. \A x \in Phases : result.phases[x] = IF x = p THEN "failure"
                                                ELSE IF PhaseBefore(x, p)
                                                THEN "success" ELSE "skipped"
      BY <3>2 DEF PhasesUpTo, PhaseBefore
    <3>4. QED
      BY <2>2, <3>2, <3>3 DEF ReportTruthful, Report, SafeSummary, AllPhasesDone
  <2>3. QED
    BY <2>1, <2>2
<1>2. QED
  BY <1>1, Invariance, PTL

\* The recovery outcome told to the operator is that of the scale-down alone
\* (recoveryPhaseStatus).
THEOREM RecoveryStatusHonestHolds == Spec => []RecoveryStatusHonest
<1>1. IInv => RecoveryStatusHonest
  <2> SUFFICES ASSUME IInv, Ended, result.recoveryAttempted PROVE RecoveryStatusHonest
    BY DEF RecoveryStatusHonest
  <2>1. err = "step" /\ Recovered(result, StepPhase(step))
    BY DEF IInv, Ended, RecordInv
  <2>2. SafeSummary(result).recoveryStatus = result.recoveryPhaseStatus
    BY <2>1 DEF SafeSummary, Recovered
  <2>3. result.recoveryPhaseStatus = "success" => spec["web"] = 0 \/ WebUpGivenUp
    BY <2>1 DEF IInv, Ended, WorldInv, WebUpGivenUp
  <2>4. QED
    BY <2>1, <2>2, <2>3 DEF RecoveryStatusHonest, Recovered
<1>2. QED
  BY <1>1, Invariance, PTL

\* Steps that change the database or web, of the process, of the cluster or of a
\* request that lands late.
LEMMA OutsideChanges ==
  ASSUME IInv, [Next]_vars
  PROVE  \/ UNCHANGED <<spec, database>>
         \/ DropReturns \/ ScaleReturns \/ Landing
         \/ spec' = [spec EXCEPT !["web"] = 0] /\ database' = database
         \/ spec' = spec /\ database' # "absent"
<1>1. CASE WorkflowReturns
  <2>1. CASE RestoreDumpReturns
    BY <2>1, RestoreDumpShape
  <2>2. CASE TerminateReturns \/ CreateReturns \/ AnalyzeReturns
    <3>1. /\ spec' = spec
          /\ database' = database \/ database' \in {"empty", "analyzed"}
      BY <2>2 DEF TerminateReturns, CreateReturns, AnalyzeReturns, EndSessions, CreateDatabase,
         AnalyzeTables
    <3>2. QED
      BY <3>1
  <2>3. CASE \/ RecordReplicasReturns \/ CheckS3Returns \/ CheckK8sReturns \/ DownloadReturns
             \/ \E w \in Workloads, n \in 0..1 : WaitReturns(w, n)
             \/ CheckDbReturns \/ MeasureSizeReturns \/ ReadinessReturns \/ CheckTimelineReturns
    BY <2>3 DEF clusterVars, RecordReplicasReturns, CheckS3Returns, CheckK8sReturns,
       DownloadReturns, WaitReturns, CheckDbReturns, MeasureSizeReturns, ReadinessReturns,
       CheckTimelineReturns
  <2>4. QED
    BY <1>1, <2>1, <2>2, <2>3 DEF WorkflowReturns
<1>2. CASE Recover
  BY <1>2 DEF Recover
<1>3. CASE Environment
  BY <1>3 DEF Environment, Controllers, Happenstance, StartPod, PodReady, StopPod, PodGone,
     ReportStatus, PodUnready, WebConnect, WebMigrate
<1>4. CASE NextRun
  BY <1>4 DEF NextRun
<1>5. CASE PreflightPasses \/ PreflightRejects \/ StepFails \/ DumpCleanup \/ FinalReport
           \/ Notify \/ Cancel \/ Crash \/ UNCHANGED vars
  BY <1>5 DEF PreflightPasses, PreflightRejects, StepFails, DumpCleanup, FinalReport, Notify,
     Cancel, Crash, vars, clusterVars
<1>6. QED
  BY <1>1, <1>2, <1>3, <1>4, <1>5 DEF Next, Runner

\* No database is dropped, in time or late, unless this run has staged its replacement
\* and web is told to stop (the order of the steps, and nobody else who scales web).
THEOREM NoDestroyWithoutDumpHolds == Spec => NoDestroyWithoutDump
<1>1. IInv /\ [Next]_vars =>
        (database # "absent" /\ database' = "absent" =>
           /\ result.objectRecorded /\ spec["web"] = 0
           /\ stage = "workflow" => tempFile = "staged")
  <2> SUFFICES ASSUME IInv, [Next]_vars, database # "absent", database' = "absent"
               PROVE  /\ result.objectRecorded /\ spec["web"] = 0
                      /\ stage = "workflow" => tempFile = "staged"
    OBVIOUS
  <2>1. DropReturns \/ Landing
    BY OutsideChanges, ScaleShape
  <2>2. CASE DropReturns
    <3>1. stage = "workflow" /\ step = Drop
      BY <2>2 DEF DropReturns, At
    <3>2. QED
      BY <3>1 DEF IInv, DumpInv, WorldInv, WorldAt, Drop, Download, ScaleDbUp, ScaleWebUp
  <2>3. CASE Landing
    <3>1. PICK n \in Mutations : Land(n)
      BY <2>3 DEF Landing
    <3>2. n = Drop /\ n \in late
      BY <3>1, LandShape
    <3>3. Drop \notin Scales
      BY DEF Drop, Scales, ScaleWebDown, ScaleDbUp, ScaleWebUp, CleanWeb, CleanDb
    <3>4. QED
      BY <3>2, <3>3 DEF IInv, LateInv
  <2>4. QED
    BY <2>1, <2>2, <2>3
<1>2. QED
  BY <1>1, Invariance, PTL DEF Spec, NoDestroyWithoutDump

\* Web comes up only on restored and analyzed data: the step that raises it comes
\* after those that restore, its request may land late, and nothing else raises it
\* (the first step of the verify group).
THEOREM WebUpOnlyAfterAnalyzeHolds == Spec => WebUpOnlyAfterAnalyze
<1>1. IInv /\ [Next]_vars =>
        (spec["web"] = 0 /\ spec'["web"] = 1 => database = "analyzed")
  <2> SUFFICES ASSUME IInv, [Next]_vars, spec["web"] = 0, spec'["web"] = 1
               PROVE  database = "analyzed"
    OBVIOUS
  <2>1. spec \in [Workloads -> 0..1] /\ Workloads = {"web", "db"}
    BY DEF IInv, TypeOK, ClusterTypeOK, Workloads
  <2>2. ScaleReturns \/ Landing
    <3>1. DropReturns => spec' = spec
      BY DataShape
    <3>2. QED
      BY <2>1, <3>1, OutsideChanges
  <2>3. \A n : spec' = [spec EXCEPT ![Scaled(n)] = Count(n)] => n = ScaleWebUp
    <3>1. ASSUME NEW n, spec' = [spec EXCEPT ![Scaled(n)] = Count(n)] PROVE Count(n) = 1
      BY <2>1, <3>1 DEF Scaled
    <3>2. ASSUME NEW n, spec' = [spec EXCEPT ![Scaled(n)] = Count(n)] PROVE Scaled(n) = "web"
      BY <2>1, <3>2 DEF Scaled
    <3>3. \A n : Count(n) = 1 /\ Scaled(n) = "web" => n = ScaleWebUp
      BY DEF Count, Scaled
    <3>4. QED
      BY <3>1, <3>2, <3>3
  <2>4. CASE ScaleReturns
    <3>1. stage = "workflow" /\ step = ScaleWebUp
      BY <2>3, <2>4, ScaleShape
    <3>2. QED
      BY <3>1 DEF IInv, WorldInv, WorldAt, ScaleWebUp, AnalyzeDb
  <2>5. CASE Landing
    <3>1. PICK n \in Mutations : Land(n)
      BY <2>5 DEF Landing
    <3>2. n = ScaleWebUp /\ n \in late
      <4>1. spec' # spec
        OBVIOUS
      <4>2. QED
        BY <2>3, <3>1, <4>1, LandShape
    <3>3. QED
      BY <3>2 DEF IInv, LateInv
  <2>6. QED
    BY <2>2, <2>4, <2>5
<1>2. QED
  BY <1>1, Invariance, PTL DEF Spec, WebUpOnlyAfterAnalyze

-----------------------------------------------------------------------------
(* The contract: each step of a run is a step of it, or none.              *)

\* The process is at work after its preflight, and stays so.
StaysAtWork ==
    /\ Verdict = "running" /\ Verdict' = "running"
    /\ result.initialized = TRUE /\ result'.initialized = TRUE
    /\ Alarm = FALSE /\ Alarm' = FALSE
    /\ UNCHANGED WebUpGivenUp

\* Nothing the contract speaks of has changed.
Unnoticed ==
    UNCHANGED <<Verdict, result.initialized, spec["web"], Worth, Alarm, WebUpGivenUp>>

\* A workflow step that returns nil leaves the process at work.
LEMMA WorkflowStays ==
  ASSUME IInv, IInv', WorkflowReturns
  PROVE  StaysAtWork /\ stage = "workflow"
<1>1. stage = "workflow" /\ \E r : AdvanceWith(r)
  BY ScaleShape, DataShape, RestoreDumpShape
     DEF WorkflowReturns, RecordReplicasReturns, CheckS3Returns, CheckK8sReturns,
     DownloadReturns, WaitReturns, CheckDbReturns, MeasureSizeReturns, ReadinessReturns,
     CheckTimelineReturns, At, Advance
<1>2. stage' \in {"workflow", "dump cleanup"} /\ err' = err
  BY <1>1 DEF AdvanceWith
<1>3. err = "nil"
  BY <1>1 DEF IInv, RecordInv
<1>4. result.initialized /\ result'.initialized
  BY <1>1, <1>2 DEF IInv, RecordInv, Done, Recovered
<1>5. QED
  BY <1>1, <1>2, <1>3, <1>4 DEF StaysAtWork, Verdict, Alarm, WebUpGivenUp

\* A scaling step, answered or landing late, moves web as the contract allows.
LEMMA ScalingImplements ==
  ASSUME IInv, NEW n, spec' = [spec EXCEPT ![Scaled(n)] = Count(n)], database' = database,
         Verdict # "ok", result.initialized = TRUE,
         UNCHANGED <<Verdict, result.initialized, Alarm, WebUpGivenUp>>,
         n = ScaleWebUp => database = "analyzed" /\ (Verdict = "failed" => WebUpGivenUp)
  PROVE  [Contract!Next]_Contract!vars
<1>1. spec \in [Workloads -> 0..1] /\ Workloads = {"web", "db"}
  BY DEF IInv, TypeOK, ClusterTypeOK, Workloads
<1>2. Worth' = Worth
  BY DEF Worth
<1>3. CASE Scaled(n) = "db"
  <2>1. spec'["web"] = spec["web"]
    BY <1>1, <1>3
  <2>2. QED
    BY <1>2, <2>1 DEF Contract!vars
<1>4. CASE Scaled(n) = "web" /\ Count(n) = 0
  <2>1. spec'["web"] = 0
    BY <1>1, <1>4
  <2>2. Contract!Lower
    BY <1>2, <2>1 DEF Contract!Lower, Contract!Outstanding
  <2>3. QED
    BY <2>2 DEF Contract!Next
<1>5. CASE Scaled(n) = "web" /\ Count(n) = 1
  <2>1. n = ScaleWebUp
    BY <1>5 DEF Scaled, Count
  <2>2. spec'["web"] = 1 /\ Worth = "good"
    BY <1>1, <1>5, <2>1 DEF Worth
  <2>3. Contract!Raise
    BY <1>2, <2>1, <2>2 DEF Contract!Raise, Contract!Outstanding
  <2>4. QED
    BY <2>3 DEF Contract!Next
<1>6. QED
  BY <1>3, <1>4, <1>5 DEF Scaled, Count

\* So does a step of the database, which finds web told to stop.
LEMMA DataImplements ==
  ASSUME spec' = spec, spec["web"] = 0,
         Verdict # "ok", result.initialized = TRUE,
         UNCHANGED <<Verdict, result.initialized, Alarm, WebUpGivenUp>>,
         \/ Worth' \in {"none", Worth}
         \/ Worth = "none" /\ Worth' = "whole"
         \/ Worth = "whole" /\ Worth' = "good"
  PROVE  [Contract!Next]_Contract!vars
<1>1. CASE Worth' = Worth
  BY <1>1 DEF Contract!vars
<1>2. CASE Worth' # Worth
  <2>1. Contract!Rebuild
    BY <1>2 DEF Contract!Rebuild, Contract!Outstanding
  <2>2. QED
    BY <2>1 DEF Contract!Next
<1>3. QED
  BY <1>1, <1>2

\* A workflow step that returns nil moves the database and web as the contract allows.
LEMMA WorkflowImplements ==
  ASSUME IInv, IInv', WorkflowReturns
  PROVE  [Contract!Next]_Contract!vars
<1>1. StaysAtWork /\ stage = "workflow" /\ WorldAt(step, database, spec)
  BY WorkflowStays DEF IInv, WorldInv
<1>2. /\ Verdict = "running" /\ result.initialized = TRUE
      /\ UNCHANGED <<Verdict, result.initialized, Alarm, WebUpGivenUp>>
  BY <1>1 DEF StaysAtWork
<1>3. CASE UNCHANGED <<spec, database>>
  BY <1>2, <1>3 DEF Contract!vars, Worth
<1>4. CASE ScaleReturns
  <2>1. spec' = [spec EXCEPT ![Scaled(step)] = Count(step)] /\ database' = database
    BY <1>4, ScaleShape
  <2>2. step = ScaleWebUp => database = "analyzed"
    BY <1>1 DEF WorldAt, ScaleWebUp, AnalyzeDb
  <2>3. QED
    BY <1>2, <2>1, <2>2, ScalingImplements
<1>5. CASE TerminateReturns \/ DropReturns \/ CreateReturns \/ RestoreDumpReturns
           \/ AnalyzeReturns
  <2>1. /\ spec' = spec /\ step \in {Terminate, Drop, Create, RestoreDump, AnalyzeDb}
        /\ \/ database' \in {database, "absent", "empty"}
           \/ database = "empty" /\ database' = "restored"
           \/ database = "restored" /\ database' = "analyzed"
    BY <1>5, DataShape, RestoreDumpShape
  <2>2. spec["web"] = 0
    BY <1>1, <2>1 DEF WorldAt, Terminate, Drop, Create, RestoreDump, AnalyzeDb, ScaleDbUp,
       ScaleWebUp
  <2>3. \/ Worth' \in {"none", Worth}
        \/ Worth = "none" /\ Worth' = "whole"
        \/ Worth = "whole" /\ Worth' = "good"
    BY <2>1 DEF Worth
  <2>4. QED
    BY <1>2, <2>1, <2>2, <2>3, DataImplements
<1>6. QED
  BY <1>3, <1>4, <1>5 DEF WorkflowReturns, RecordReplicasReturns, CheckS3Returns,
     CheckK8sReturns, DownloadReturns, WaitReturns, CheckDbReturns, MeasureSizeReturns,
     ReadinessReturns, CheckTimelineReturns, clusterVars

\* A step that returns an error changes nothing the contract speaks of, but that an
\* update to raise web may still come.
LEMMA StepFailsImplements ==
  ASSUME IInv, IInv', StepFails
  PROVE  [Contract!Next]_Contract!vars
<1>1. /\ stage = "workflow" /\ stage' = "recover" /\ err' = "step" /\ step' = step
      /\ UNCHANGED <<spec, database>>
  BY DEF StepFails, Abort, clusterVars
<1>2. result.initialized = TRUE /\ result'.initialized = TRUE /\ err = "nil"
  BY <1>1 DEF IInv, RecordInv, TypeOK, ExecutionResults
<1>3. /\ Verdict = "running" /\ Verdict' = "running" /\ ~Alarm /\ ~Alarm'
      /\ Worth' = Worth /\ ~WebUpGivenUp /\ WebUpGivenUp' = (step = ScaleWebUp)
  BY <1>1, <1>2 DEF Verdict, Alarm, Worth, WebUpGivenUp
<1>4. CASE step # ScaleWebUp
  BY <1>1, <1>2, <1>3, <1>4 DEF Contract!vars, Alarm, WebUpGivenUp
<1>5. CASE step = ScaleWebUp
  <2>1. database = "analyzed"
    BY <1>1, <1>5 DEF IInv, WorldInv, WorldAt, ScaleWebUp, AnalyzeDb
  <2>2. Contract!GiveUpRaising
    BY <1>1, <1>2, <1>3, <1>5, <2>1
       DEF Contract!GiveUpRaising, Contract!Working, Worth, Alarm
  <2>3. QED
    BY <2>2 DEF Contract!Next
<1>6. QED
  BY <1>4, <1>5

\* A request that lands late is the contract's too, while the run is not a success.
LEMMA LandingImplements ==
  ASSUME IInv, Landing
  PROVE  [Contract!Next]_Contract!vars
<1>1. PICK n \in Mutations : Land(n)
  BY DEF Landing
<1>2. n \in late /\ UNCHANGED <<stage, step, result, err>>
  BY <1>1, LandShape
<1>3. result.initialized = TRUE /\
        (stage = "crashed" \/
           (stage \in {"recover", "dump cleanup", "report", "notify", "exited"} /\ err = "step"))
  BY <1>2 DEF IInv, LateInv, TypeOK, ExecutionResults
<1>4. /\ Verdict # "ok" /\ (Verdict = "failed" => err = "step")
      /\ UNCHANGED <<Verdict, result.initialized, Alarm, WebUpGivenUp>>
  BY <1>2, <1>3 DEF Verdict, Alarm, WebUpGivenUp
<1>5. CASE n \in Scales
  <2>1. spec' = [spec EXCEPT ![Scaled(n)] = Count(n)] /\ database' = database
    BY <1>1, <1>5, LandKinds
  <2>2. n = ScaleWebUp => database = "analyzed" /\ step = ScaleWebUp
    BY <1>2, LateStep DEF IInv, LateInv
  <2>3. QED
    BY <1>3, <1>4, <2>1, <2>2, ScalingImplements DEF WebUpGivenUp
<1>6. CASE n \notin Scales
  <2>1. spec' = spec /\ spec["web"] = 0
    BY <1>1, <1>2, <1>6, LandShape DEF IInv, LateInv
  <2>2. \/ database' \in {database, "absent"}
        \/ database = "absent" /\ database' = "empty"
        \/ database = "empty" /\ database' \in {"empty", "dirty", "restored"}
        \/ database = "restored" /\ database' = "analyzed"
    BY <1>1, <1>6, LandShape
  <2>3. \/ Worth' \in {"none", Worth}
        \/ Worth = "none" /\ Worth' = "whole"
        \/ Worth = "whole" /\ Worth' = "good"
    BY <2>2 DEF Worth
  <2>4. QED
    BY <1>3, <1>4, <2>1, <2>3, DataImplements
<1>7. QED
  BY <1>5, <1>6

\* Recovery lowers web or does nothing.
LEMMA RecoverImplements ==
  ASSUME IInv, IInv', Recover
  PROVE  [Contract!Next]_Contract!vars
<1>1. /\ stage = "recover" /\ stage' = "dump cleanup" /\ database' = database
      /\ spec' = spec \/ spec' = [spec EXCEPT !["web"] = 0]
      /\ UNCHANGED <<step, err>>
  BY DEF Recover
<1>2. result.initialized /\ result'.initialized
  BY <1>1 DEF IInv, RecordInv, Done, Recovered
<1>3. StaysAtWork /\ Worth' = Worth
  BY <1>1, <1>2 DEF StaysAtWork, Verdict, Alarm, Worth, WebUpGivenUp
<1>4. spec'["web"] = spec["web"] \/ spec'["web"] = 0
  BY <1>1 DEF IInv, TypeOK, ClusterTypeOK, Workloads
<1>5. CASE spec'["web"] = spec["web"]
  BY <1>3, <1>5 DEF Contract!vars, StaysAtWork
<1>6. CASE spec'["web"] = 0
  <2>1. Contract!Lower
    BY <1>3, <1>6 DEF Contract!Lower, Contract!Outstanding, StaysAtWork
  <2>2. QED
    BY <2>1 DEF Contract!Next
<1>7. QED
  BY <1>4, <1>5, <1>6

\* The removal of the dump and the repair of the record change no fact of the contract.
LEMMA ClosingImplements ==
  ASSUME IInv, DumpCleanup \/ FinalReport
  PROVE  Unnoticed
<1>1. result \in ExecutionResults
  BY DEF IInv, TypeOK
<1>2. result'.initialized = result.initialized
  <2>1. CASE DumpCleanup
    BY <1>1, <2>1 DEF DumpCleanup, FailCompletedPhase, RecordRecoveryError, ExecutionResults
  <2>2. CASE FinalReport
    BY <1>1, <2>2 DEF FinalReport, FailPhase, RecordRecoveryError, IsRecovery, ExecutionResults
  <2>3. QED
    BY <2>1, <2>2
<1>3. /\ stage \in {"dump cleanup", "report"} /\ stage' \in {"report", "notify"}
      /\ UNCHANGED <<spec, database, step>> /\ (err' = "step" <=> err = "step")
  BY DEF DumpCleanup, FinalReport, clusterVars
<1>4. QED
  BY <1>2, <1>3 DEF Unnoticed, Verdict, Alarm, Worth, WebUpGivenUp

\* The end of a run is one of the two verdicts, with its alarm.
LEMMA NotifyImplements ==
  ASSUME IInv, Notify
  PROVE  [Contract!Next]_Contract!vars
<1>1. /\ stage = "notify" /\ stage' = "exited"
      /\ UNCHANGED <<spec, database, result, err, step>>
  BY DEF Notify, clusterVars
<1>2. Worth' = Worth /\ Verdict = "running" /\ ~Alarm /\ WebUpGivenUp' = WebUpGivenUp
  BY <1>1 DEF Worth, Verdict, Alarm, WebUpGivenUp
<1>3. CASE err = "nil"
  <2>1. database = "analyzed" /\ spec["web"] = 0 /\ result.initialized
        /\ ~result.recoveryAttempted
    <3>1. WorldAt(CleanDb + 1, database, spec)
      BY <1>1, <1>3 DEF IInv, WorldInv
    <3>2. database = "analyzed" /\ spec["web"] = 0
      BY <3>1 DEF WorldAt, CleanDb, CleanWeb, AnalyzeDb
    <3>3. Done(result) /\ ~result.recoveryAttempted
      BY <1>1, <1>3 DEF IInv, RecordInv
    <3>4. QED
      BY <3>2, <3>3 DEF Done
  <2>2. Verdict' = "ok" /\ ~Alarm' /\ Worth = "good"
    BY <1>1, <1>3, <2>1 DEF Verdict, Alarm, Worth
  <2>3. Contract!Succeed
    <3>1. ~WebUpGivenUp
      BY <1>3 DEF WebUpGivenUp
    <3>2. result.initialized = TRUE
      BY <2>1 DEF IInv, TypeOK, ExecutionResults
    <3>3. Contract!Working /\ spec' = spec /\ result' = result /\ Alarm' = Alarm
      BY <1>1, <1>2, <2>2, <3>2 DEF Contract!Working, Alarm
    <3>4. QED
      BY <1>2, <2>1, <2>2, <3>1, <3>2, <3>3 DEF Contract!Succeed
  <2>4. QED
    BY <2>3 DEF Contract!Next
<1>4. CASE err # "nil"
  <2>1. result.initialized /\ spec["web"] = 1 =>
           \/ WebUpGivenUp
           \/ result.recoveryAttempted /\ SafeSummary(result).recoveryStatus = "error"
    <3> SUFFICES ASSUME result.initialized, spec["web"] = 1, ~WebUpGivenUp
                 PROVE  result.recoveryAttempted /\ SafeSummary(result).recoveryStatus = "error"
      OBVIOUS
    <3>1. err # "dump cleanup"
      <4>1. err = "dump cleanup" => WorldAt(CleanDb + 1, database, spec)
        BY <1>1 DEF IInv, WorldInv
      <4>2. WorldAt(CleanDb + 1, database, spec) => spec["web"] = 0
        BY DEF WorldAt, CleanDb, CleanWeb
      <4>3. spec["web"] # 0
        OBVIOUS
      <4>4. QED
        BY <4>1, <4>2, <4>3, Zenon
    <3>2. err = "step" /\ Recovered(result, StepPhase(step))
      BY <1>1, <1>4, <3>1 DEF IInv, RecordInv
    <3>3. result.recoveryPhaseStatus = "error"
      <4>1. result.recoveryPhaseStatus # "success"
        BY <1>1, <3>2 DEF IInv, WorldInv, WebUpGivenUp
      <4>2. QED
        BY <3>2, <4>1 DEF Recovered
    <3>4. QED
      BY <3>2, <3>3 DEF Recovered, SafeSummary
  <2>2. Verdict' = "failed" /\ (result.initialized /\ spec["web"] = 1 => Alarm' \/ WebUpGivenUp)
    BY <1>1, <1>4, <2>1 DEF Verdict, Alarm
  <2>3. Alarm' \in BOOLEAN
    BY <1>1 DEF Alarm, IInv, TypeOK, ExecutionResults
  <2>4. Contract!Fail
    BY <1>1, <1>2, <2>2, <2>3 DEF Contract!Fail
  <2>5. QED
    BY <2>4 DEF Contract!Next
<1>5. QED
  BY <1>3, <1>4

\* RestoreRun implements the contract: of all orders of failing calls, signals,
\* crashes and moves of the cluster none shows more than the contract has
\* (runWithSummaryLogger, runWithResult, recover).
THEOREM ContractKept == Spec => KeepsContract
<1>1. Init => Contract!Init
  BY DEF Init, ClusterInit, Contract!Init, Verdict, Worth, Alarm, WebUpGivenUp, Workloads, FirstResult,
     BeginPhase, NewExecutionResult
<1>2. IInv /\ IInv' /\ [Next]_vars => [Contract!Next]_Contract!vars
  <2> SUFFICES ASSUME IInv, IInv', [Next]_vars PROVE [Contract!Next]_Contract!vars
    OBVIOUS
  <2>1. ASSUME Unnoticed PROVE [Contract!Next]_Contract!vars
    BY <2>1 DEF Unnoticed, Contract!vars
  <2>2. CASE PreflightPasses
    <3>1. /\ stage = "preflight" /\ stage' = "workflow" /\ UNCHANGED <<spec, database, err, step>>
          /\ result'.initialized
      BY <2>2 DEF PreflightPasses, clusterVars, IInv, RecordInv
    <3>2. Contract!Begin
      BY <3>1 DEF Contract!Begin, Verdict, Alarm, WebUpGivenUp, Worth, IInv, TypeOK, ExecutionResults
    <3>3. QED
      BY <3>2 DEF Contract!Next
  <2>3. CASE PreflightRejects
    <3>1. /\ stage = "preflight" /\ stage' = "report" /\ UNCHANGED <<spec, database>>
          /\ result' = FailPhase(result, "preflight", err')
          /\ err # "step" /\ err' # "step"
      BY <2>3 DEF PreflightRejects, clusterVars, IInv, RecordInv
    <3>2. result'.initialized = result.initialized
      BY <3>1 DEF FailPhase, RecordRecoveryError, IsRecovery, ExecutionResults, IInv, TypeOK
    <3>3. Unnoticed
      BY <3>1, <3>2 DEF Unnoticed, Verdict, Alarm, Worth, WebUpGivenUp
    <3>4. QED
      BY <2>1, <3>3
  <2>4. CASE WorkflowReturns \/ StepFails \/ Landing
    BY <2>4, WorkflowImplements, StepFailsImplements, LandingImplements
  <2>5. CASE Recover
    BY <2>5, RecoverImplements
  <2>6. CASE DumpCleanup \/ FinalReport
    BY <2>1, <2>6, ClosingImplements
  <2>7. CASE Notify
    BY <2>7, NotifyImplements
  <2>8. CASE Environment
    <3>1. UNCHANGED <<spec, stage, step, result, err>> /\ Worth' = Worth
      BY <2>8 DEF Environment, Controllers, Happenstance, StartPod, PodReady, StopPod, PodGone,
         ReportStatus, PodUnready, WebConnect, WebMigrate, Worth
    <3>2. Unnoticed
      BY <3>1 DEF Unnoticed, Verdict, Alarm, WebUpGivenUp
    <3>3. QED
      BY <2>1, <3>2
  <2>9. CASE Cancel \/ UNCHANGED vars
    <3>1. UNCHANGED <<spec, database, stage, step, result, err>>
      BY <2>9 DEF Cancel, vars, clusterVars, runVars
    <3>2. Unnoticed
      BY <3>1 DEF Unnoticed, Verdict, Alarm, Worth, WebUpGivenUp
    <3>3. QED
      BY <2>1, <3>2
  <2>10. CASE Crash
    <3>1. /\ stage \notin {"exited", "crashed"} /\ stage' = "crashed"
          /\ UNCHANGED <<spec, database, result, err, step>>
      BY <2>10 DEF Crash, Running, clusterVars
    <3>2. Contract!Crash
      BY <3>1 DEF Contract!Crash, Verdict, Alarm, Worth, WebUpGivenUp
    <3>3. QED
      BY <3>2 DEF Contract!Next
  <2>11. CASE NextRun
    <3>1. /\ stage \in {"exited", "crashed"} /\ stage' = "preflight"
          /\ ~result'.initialized /\ spec' = spec /\ err' = "nil"
      BY <2>11 DEF NextRun, Running, FirstResult, BeginPhase, NewExecutionResult
    <3>2. Worth' = IF Worth \in {"whole", "good"} THEN "old" ELSE Worth
      BY <2>11 DEF NextRun, Worth
    <3>3. result'.initialized = FALSE
      BY <3>1 DEF IInv, TypeOK, ExecutionResults
    <3>4. Contract!NextRun
      BY <3>1, <3>2, <3>3 DEF Contract!NextRun, Verdict, Alarm, WebUpGivenUp
    <3>5. QED
      BY <3>4 DEF Contract!Next
  <2>12. QED
    BY <2>2, <2>3, <2>4, <2>5, <2>6, <2>7, <2>8, <2>9, <2>10, <2>11 DEF Next, Runner
<1>3. QED
  BY <1>1, <1>2, Invariance, PTL DEF Spec, KeepsContract, Contract!Spec

-----------------------------------------------------------------------------
(* The facts of the record that the message is made of.                    *)

\* The record says something of the database's size.
Sized == result.databaseSizeAttempted \/ result.databaseSizeAvailable

\* It does so of this run's data only, and only after the restore.
SizeInv ==
    /\ step <= MeasureSize => ~Sized
    /\ Sized => database \in {"restored", "analyzed"}

\* The removal of the staged file is recorded when it was tried, and as it went.
RemovalInv ==
    /\ stage \in {"preflight", "workflow", "recover", "dump cleanup"} =>
         result.tempCleanupStatus = ""
    /\ stage = "preflight" => ~result.objectRecorded
    /\ stage \in {"report", "notify", "exited"} =>
         /\ result.objectRecorded <=> tempFile = "staged" \/ result.tempCleanupStatus = "success"
         /\ result.tempCleanupStatus = "error" => tempFile = "staged"

MessageInv == SizeInv /\ RemovalInv

SameFacts(r, q) ==
    /\ q.objectRecorded = r.objectRecorded
    /\ q.databaseSizeAttempted = r.databaseSizeAttempted
    /\ q.databaseSizeAvailable = r.databaseSizeAvailable
    /\ q.tempCleanupStatus = r.tempCleanupStatus

\* The operations on phases and on the recovery touch none of them.
LEMMA FactsKept ==
  ASSUME NEW r \in ExecutionResults, NEW p \in Phases, NEW e \in Errors
  PROVE  /\ SameFacts(r, BeginPhase(r, p)) /\ SameFacts(r, CompletePhase(r))
         /\ SameFacts(r, FailPhase(r, p, e)) /\ SameFacts(r, FailCompletedPhase(r, p, e))
         /\ SameFacts(r, RecordRecoveryError(r, e)) /\ SameFacts(r, RecoveryEnded(r))
<1>1. SameFacts(r, BeginPhase(r, p))
  BY DEF BeginPhase, SameFacts, ExecutionResults
<1>2. SameFacts(r, CompletePhase(r))
  BY DEF CompletePhase, SameFacts, ExecutionResults
<1>3. SameFacts(r, RecordRecoveryError(r, e)) /\ SameFacts(r, RecoveryEnded(r))
  BY DEF RecordRecoveryError, RecoveryEnded, SameFacts, ExecutionResults
<1>4. SameFacts(r, FailPhase(r, p, e))
  BY DEF FailPhase, RecordRecoveryError, SameFacts, ExecutionResults
<1>5. SameFacts(r, FailCompletedPhase(r, p, e))
  BY DEF FailCompletedPhase, RecordRecoveryError, SameFacts, ExecutionResults
<1>6. QED
  BY <1>1, <1>2, <1>3, <1>4, <1>5

\* Neither does the end of a step.
LEMMA AdvanceFacts ==
  ASSUME NEW r \in ExecutionResults, stage = "workflow", AdvanceWith(r)
  PROVE  /\ SameFacts(r, result')
         /\ \/ stage' = "dump cleanup" /\ step = CleanDb /\ step' = step
            \/ stage' = "workflow" /\ step' = step + 1
<1>1. CompletePhase(r) \in ExecutionResults /\ SameFacts(r, CompletePhase(r))
  BY CompletePhaseType, FactsKept DEF Phases, Errors
<1>2. SameFacts(CompletePhase(r), BeginPhase(CompletePhase(r), StepPhase(step + 1)))
  BY <1>1, FactsKept, StepPhaseType DEF Errors
<1>3. \/ result' \in {r, CompletePhase(r)}
      \/ result' = BeginPhase(CompletePhase(r), StepPhase(step + 1))
  BY DEF AdvanceWith
<1>4. SameFacts(r, result')
  BY <1>1, <1>2, <1>3 DEF SameFacts
<1>5. QED
  BY <1>4 DEF AdvanceWith

LEMMA AbortFacts ==
  ASSUME TypeOK, Abort
  PROVE  SameFacts(result, result') /\ stage' = "recover" /\ step' = step
  BY FactsKept, StepPhaseType DEF Abort, TypeOK, Errors

\* After a step that leaves the facts as they are, or measures the size, the
\* message would still be true.
LEMMA StepKeepsFacts ==
  ASSUME IInv, MessageInv, stage = "workflow", NEW r \in ExecutionResults,
         r.tempCleanupStatus = result.tempCleanupStatus,
         \/ /\ r.databaseSizeAttempted = result.databaseSizeAttempted
            /\ r.databaseSizeAvailable = result.databaseSizeAvailable
         \/ step = MeasureSize,
         database' = database \/ step \in Drop..RestoreDump \/ database' = "analyzed",
         AdvanceWith(r) \/ (r = result /\ Abort)
  PROVE  MessageInv'
<1>1. step \in 1..21 /\ TypeOK
  BY DEF IInv, TypeOK, Steps, RecordReplicas, CleanDb
<1>2. /\ SameFacts(r, result')
      /\ stage' \in {"dump cleanup", "recover", "workflow"}
  BY <1>1, AdvanceFacts, AbortFacts
<1>3. Sized' = (r.databaseSizeAttempted \/ r.databaseSizeAvailable)
  BY <1>2 DEF Sized, SameFacts
<1>4. Sized' => step >= MeasureSize
  <2>1. step <= MeasureSize => ~Sized
    BY DEF MessageInv, SizeInv
  <2>2. Sized' => Sized \/ step = MeasureSize
    BY <1>3 DEF Sized
  <2>3. QED
    BY <1>1, <2>1, <2>2 DEF MeasureSize
<1>5. Sized' => database' \in {"restored", "analyzed"}
  <2>1. step >= MeasureSize => database \in {"restored", "analyzed"}
    BY <1>1 DEF IInv, WorldInv, WorldAt, MeasureSize, AnalyzeDb
  <2>2. step >= MeasureSize => ~(step \in Drop..RestoreDump)
    BY <1>1 DEF MeasureSize, Drop, RestoreDump
  <2>3. QED
    BY <1>4, <2>1, <2>2
<1>6. Sized' => step' > MeasureSize
  <2>1. CASE AdvanceWith(r)
    <3>1. step' = step + 1 \/ (step = CleanDb /\ step' = step)
      BY <2>1, AdvanceFacts
    <3>2. QED
      BY <1>1, <1>4, <3>1 DEF MeasureSize, CleanDb
  <2>2. CASE r = result /\ Abort
    <3>1. step' = step /\ (Sized' => Sized)
      BY <1>1, <1>3, <2>2, AbortFacts DEF Sized
    <3>2. QED
      BY <1>1, <3>1 DEF MessageInv, SizeInv, MeasureSize
  <2>3. QED
    BY <2>1, <2>2
<1>7. SizeInv'
  <2>1. step' <= MeasureSize => ~(step' > MeasureSize)
    <3>1. step' = step \/ step' = step + 1
      <4>1. CASE AdvanceWith(r)
        BY <4>1, AdvanceFacts
      <4>2. CASE r = result /\ Abort
        BY <1>1, <4>2, AbortFacts
      <4>3. QED
        BY <4>1, <4>2
    <3>2. QED
      BY <1>1, <3>1 DEF MeasureSize
  <2>2. QED
    BY <1>5, <1>6, <2>1 DEF SizeInv
<1>8. RemovalInv'
  BY <1>2 DEF MessageInv, RemovalInv, SameFacts
<1>9. QED
  BY <1>7, <1>8 DEF MessageInv

LEMMA WorkflowKeepsFacts ==
  ASSUME IInv, MessageInv, WorkflowReturns \/ StepFails
  PROVE  MessageInv'
<1>1. result \in ExecutionResults
  BY DEF IInv, TypeOK
<1>2. ASSUME stage = "workflow", Advance \/ Abort,
             database' = database \/ step \in Drop..RestoreDump \/ database' = "analyzed"
      PROVE  MessageInv'
  BY <1>1, <1>2, StepKeepsFacts DEF Advance
<1>3. CASE StepFails
  BY <1>2, <1>3 DEF StepFails, clusterVars
<1>4. CASE RecordReplicasReturns \/ CheckS3Returns \/ CheckK8sReturns \/ CheckDbReturns
           \/ ReadinessReturns \/ CheckTimelineReturns \/ ScaleReturns
           \/ \E w \in Workloads, n \in 0..1 : WaitReturns(w, n)
  <2>1. stage = "workflow" /\ Advance /\ database' = database
    BY <1>4, ScaleShape DEF RecordReplicasReturns, CheckS3Returns, CheckK8sReturns,
       CheckDbReturns, ReadinessReturns, CheckTimelineReturns, WaitReturns, At, clusterVars
  <2>2. QED
    BY <1>2, <2>1
<1>5. CASE TerminateReturns \/ DropReturns \/ CreateReturns \/ RestoreDumpReturns
           \/ AnalyzeReturns
  <2>1. /\ stage = "workflow" /\ Advance
        /\ step \in {Drop, Create, RestoreDump} \/ database' \in {database, "analyzed"}
    BY <1>5, DataShape, RestoreDumpShape
  <2>2. step \in {Drop, Create, RestoreDump} => step \in Drop..RestoreDump
    BY DEF Drop, Create, RestoreDump
  <2>3. QED
    BY <1>2, <2>1, <2>2
<1>7. CASE DownloadReturns
  <2> DEFINE r == SetObject(result)
  <2>1. /\ r \in ExecutionResults
        /\ r.tempCleanupStatus = result.tempCleanupStatus
        /\ r.databaseSizeAttempted = result.databaseSizeAttempted
        /\ r.databaseSizeAvailable = result.databaseSizeAvailable
    BY <1>1, SetObjectType DEF SetObject, ExecutionResults
  <2>2. stage = "workflow" /\ AdvanceWith(r) /\ database' = database
    BY <1>7 DEF DownloadReturns, At, clusterVars
  <2> HIDE DEF r
  <2>3. QED
    BY <2>1, <2>2, StepKeepsFacts
<1>8. CASE MeasureSizeReturns
  <2>1. PICK a \in BOOLEAN : AdvanceWith([result EXCEPT !.databaseSizeAttempted = TRUE,
                                                        !.databaseSizeAvailable = a])
    BY <1>8 DEF MeasureSizeReturns
  <2> DEFINE r == [result EXCEPT !.databaseSizeAttempted = TRUE, !.databaseSizeAvailable = a]
  <2>2. r \in ExecutionResults /\ r.tempCleanupStatus = result.tempCleanupStatus
    BY <1>1 DEF ExecutionResults
  <2>3. stage = "workflow" /\ step = MeasureSize /\ database' = database
    BY <1>8 DEF MeasureSizeReturns, At, clusterVars
  <2>4. AdvanceWith(r)
    BY <2>1
  <2> HIDE DEF r
  <2>5. QED
    BY <2>2, <2>3, <2>4, StepKeepsFacts
<1>9. QED
  BY <1>3, <1>4, <1>5, <1>7, <1>8 DEF WorkflowReturns

\* Recovery runs after a failed step and says nothing of sizes or the file.
LEMMA RecoverKeepsFacts ==
  ASSUME IInv, MessageInv, Recover
  PROVE  MessageInv'
<1>1. /\ result \in ExecutionResults /\ stage = "recover" /\ stage' = "dump cleanup"
      /\ UNCHANGED <<database, step>>
  BY DEF IInv, TypeOK, Recover
<1> DEFINE marked == [result EXCEPT !.recoveryStatus = "error"]
<1>2. marked \in ExecutionResults /\ SameFacts(result, marked)
  BY <1>1 DEF ExecutionResults, Outcomes, SameFacts
<1>3. RecoveryBegun \in ExecutionResults /\ SameFacts(result, RecoveryBegun)
  BY <1>1, <1>2, RecoveryBegunType, FactsKept DEF RecoveryBegun, SameFacts, Phases, Errors
<1> DEFINE done == CompletePhase(RecoveryBegun)
           lost == FailPhase(RecoveryBegun, "cleanup", "recovery step")
<1>4. done \in ExecutionResults /\ lost \in ExecutionResults
  BY <1>3, CompletePhaseType, FailPhaseType DEF Phases, Errors
<1>5. SameFacts(RecoveryBegun, done) /\ SameFacts(RecoveryBegun, lost)
  BY <1>3, FactsKept DEF Phases, Errors
<1>6. result' \in {result, RecoveryEnded(marked), RecoveryEnded(done), RecoveryEnded(lost)}
  BY DEF Recover
<1> HIDE DEF marked, done, lost
<1>7. /\ SameFacts(marked, RecoveryEnded(marked)) /\ SameFacts(done, RecoveryEnded(done))
      /\ SameFacts(lost, RecoveryEnded(lost))
  BY <1>2, <1>4, FactsKept DEF Phases, Errors
<1>8. SameFacts(result, result')
  BY <1>2, <1>3, <1>5, <1>6, <1>7 DEF SameFacts
<1>9. QED
  BY <1>1, <1>8 DEF MessageInv, SizeInv, RemovalInv, Sized, SameFacts

\* The removal is recorded as it went, and only of a file that was handed over.
LEMMA RemovalIsRecorded ==
  ASSUME IInv, MessageInv, DumpCleanup
  PROVE  MessageInv'
<1>1. /\ result \in ExecutionResults /\ stage = "dump cleanup" /\ stage' = "report"
      /\ UNCHANGED <<database, step>> /\ result.tempCleanupStatus = ""
      /\ IF result.objectRecorded THEN tempFile = "staged" ELSE tempFile # "staged"
  BY DEF IInv, TypeOK, DumpInv, MessageInv, RemovalInv, DumpCleanup, clusterVars
<1> DEFINE gone   == [result EXCEPT !.tempCleanupStatus = "success"]
           failed == [result EXCEPT !.tempCleanupStatus = "error"]
           SameSizes(q) == /\ q.objectRecorded = result.objectRecorded
                           /\ q.databaseSizeAttempted = result.databaseSizeAttempted
                           /\ q.databaseSizeAvailable = result.databaseSizeAvailable
<1>2. /\ failed \in ExecutionResults /\ SameSizes(failed) /\ SameSizes(gone)
      /\ failed.tempCleanupStatus = "error" /\ gone.tempCleanupStatus = "success"
  BY <1>1 DEF ExecutionResults, Outcomes
<1>3. \/ ~result.objectRecorded /\ UNCHANGED <<tempFile, result>>
      \/ result.objectRecorded /\ tempFile' = "none" /\ result' = gone
      \/ /\ result.objectRecorded /\ UNCHANGED tempFile
         /\ result' \in {FailCompletedPhase(failed, "cleanup", "dump cleanup"),
                         RecordRecoveryError(failed, "dump cleanup")}
  BY DEF DumpCleanup, DumpHeld
<1> HIDE DEF gone, failed
<1>4. /\ SameFacts(failed, FailCompletedPhase(failed, "cleanup", "dump cleanup"))
      /\ SameFacts(failed, RecordRecoveryError(failed, "dump cleanup"))
  BY <1>2, FactsKept DEF Phases, Errors
<1>5. SameSizes(result')
  BY <1>2, <1>3, <1>4 DEF SameFacts
<1>6. SizeInv'
  BY <1>1, <1>5 DEF MessageInv, SizeInv, Sized
<1>7. \/ ~result.objectRecorded /\ result'.tempCleanupStatus = "" /\ tempFile' # "staged"
      \/ result.objectRecorded /\ result'.tempCleanupStatus = "success" /\ tempFile' = "none"
      \/ result.objectRecorded /\ result'.tempCleanupStatus = "error" /\ tempFile' = "staged"
  BY <1>1, <1>2, <1>3, <1>4 DEF SameFacts
<1>8. RemovalInv'
  BY <1>1, <1>5, <1>7 DEF RemovalInv
<1>9. QED
  BY <1>6, <1>8 DEF MessageInv

\* A request that lands late changes no data whose size the record tells of.
LEMMA LandingKeepsFacts ==
  ASSUME IInv, MessageInv, Landing
  PROVE  MessageInv'
<1>1. PICK n \in Mutations : Land(n)
  BY DEF Landing
<1>2. /\ n \in late /\ UNCHANGED <<stage, step, result, tempFile>>
      /\ n \in {Drop, Create, RestoreDump} \/ database' \in {database, "analyzed"}
  BY <1>1, LandShape
<1>3. n \in {Drop, Create, RestoreDump} => step <= MeasureSize
  <2>1. n = step \/ n = ScaleWebDown
    BY <1>2 DEF IInv, LateInv
  <2>2. QED
    BY <2>1 DEF Drop, Create, RestoreDump, ScaleWebDown, MeasureSize
<1>4. Sized => database' \in {"restored", "analyzed"}
  BY <1>2, <1>3 DEF MessageInv, SizeInv
<1>5. QED
  BY <1>2, <1>4 DEF MessageInv, SizeInv, RemovalInv, Sized

\* MessageInv holds in every reachable state.
THEOREM MessageInvariance == Spec => [](IInv /\ MessageInv)
<1>1. Init => MessageInv
  <2>1. /\ ~FirstResult.databaseSizeAttempted /\ ~FirstResult.databaseSizeAvailable
        /\ ~FirstResult.objectRecorded /\ FirstResult.tempCleanupStatus = ""
    BY DEF FirstResult, BeginPhase, NewExecutionResult
  <2>2. QED
    BY <2>1 DEF Init, MessageInv, SizeInv, Sized, RemovalInv
<1>2. IInv /\ MessageInv /\ [Next]_vars => MessageInv'
  <2> SUFFICES ASSUME IInv, MessageInv, [Next]_vars PROVE MessageInv'
    OBVIOUS
  <2>1. result \in ExecutionResults
    BY DEF IInv, TypeOK
  <2>2. CASE PreflightPasses
    <3> DEFINE m == MarkInitialized(result)
    <3>1. m \in ExecutionResults /\ SameFacts(result, m)
      BY <2>1 DEF MarkInitialized, ExecutionResults, SameFacts
    <3>2. result' = BeginPhase(CompletePhase(m), "prepare")
      BY <2>2 DEF PreflightPasses
    <3> HIDE DEF m
    <3>3. SameFacts(result, result')
      <4>1. CompletePhase(m) \in ExecutionResults /\ SameFacts(m, CompletePhase(m))
        BY <3>1, CompletePhaseType, FactsKept DEF Phases, Errors
      <4>2. SameFacts(CompletePhase(m), result')
        BY <3>2, <4>1, FactsKept DEF Phases, Errors
      <4>3. QED
        BY <3>1, <4>1, <4>2 DEF SameFacts
    <3>4. stage = "preflight" /\ stage' = "workflow" /\ UNCHANGED <<database, step>>
      BY <2>2 DEF PreflightPasses, clusterVars
    <3>5. QED
      BY <3>3, <3>4 DEF MessageInv, SizeInv, Sized, RemovalInv, SameFacts
  <2>3. CASE PreflightRejects
    <3>1. /\ stage = "preflight" /\ stage' = "report" /\ UNCHANGED <<database, step>>
          /\ tempFile' = tempFile /\ tempFile = "none"
          /\ err' \in Errors /\ result' = FailPhase(result, "preflight", err')
      BY <2>3 DEF PreflightRejects, clusterVars, IInv, DumpInv, Errors
    <3>2. SameFacts(result, result')
      BY <2>1, <3>1, FactsKept DEF Phases
    <3>3. QED
      BY <3>1, <3>2 DEF MessageInv, SizeInv, Sized, RemovalInv, SameFacts
  <2>4. CASE WorkflowReturns \/ StepFails \/ Landing
    BY <2>4, WorkflowKeepsFacts, LandingKeepsFacts
  <2>5. CASE Recover
    BY <2>5, RecoverKeepsFacts
  <2>6. CASE DumpCleanup
    BY <2>6, RemovalIsRecorded
  <2>7. CASE FinalReport
    <3>1. SameFacts(result, result')
      <4>1. CASE result' = result
        BY <4>1 DEF SameFacts
      <4>2. CASE result' # result
        <5>1. /\ result.currentPhase \in Phases /\ err \in Errors
              /\ result' = FailPhase(result, result.currentPhase, err)
          BY <2>1, <2>7, <4>2 DEF FinalReport, ExecutionResults, IInv, TypeOK
        <5>2. QED
          BY <2>1, <5>1, FactsKept
      <4>3. QED
        BY <4>1, <4>2
    <3>2. /\ stage = "report" /\ stage' = "notify" /\ UNCHANGED <<database, tempFile, step>>
      BY <2>7 DEF FinalReport, clusterVars
    <3>3. QED
      BY <3>1, <3>2 DEF MessageInv, SizeInv, Sized, RemovalInv, SameFacts
  <2>8. CASE Notify \/ Cancel \/ Crash
    <3>1. /\ UNCHANGED <<database, tempFile, result, step>>
          /\ stage' = stage \/ stage' = "crashed" \/ (stage = "notify" /\ stage' = "exited")
      BY <2>8 DEF Notify, Cancel, Crash, clusterVars
    <3>2. QED
      BY <3>1 DEF MessageInv, SizeInv, Sized, RemovalInv
  <2>9. CASE Environment
    <3>1. /\ UNCHANGED <<stage, step, result, tempFile>>
          /\ database' = database \/ database = "empty"
      BY <2>9 DEF Environment, Controllers, Happenstance, StartPod, PodReady, StopPod, PodGone,
         ReportStatus, PodUnready, WebConnect, WebMigrate
    <3>2. QED
      BY <3>1 DEF MessageInv, SizeInv, Sized, RemovalInv
  <2>10. CASE NextRun
    <3>1. stage' = "preflight" /\ result' = FirstResult
      BY <2>10 DEF NextRun
    <3>2. QED
      BY <3>1 DEF MessageInv, SizeInv, Sized, RemovalInv, FirstResult, BeginPhase,
         NewExecutionResult
  <2>11. CASE UNCHANGED vars
    BY <2>11 DEF vars, runVars, clusterVars, MessageInv, SizeInv, Sized, RemovalInv
  <2>12. QED
    BY <2>2, <2>3, <2>4, <2>5, <2>6, <2>7, <2>8, <2>9, <2>10, <2>11 DEF Next, Runner
<1>3. QED
  BY <1>1, <1>2, Invariance, PTL DEF Spec

-----------------------------------------------------------------------------
(* What the message says.                                                  *)

\* A removal that failed has a line of its own or shows in the cleanup phase's.
LEMMA RemovalShown ==
  ASSUME result \in ExecutionResults, result.tempCleanupStatus = "error"
  PROVE  Failures \cap {"cleanup", "tempCleanup"} # {}
<1>1. TempCleanup = "failure"
  BY DEF TempCleanup, Summary, SafeSummary, NotificationStatus
<1>2. Summary.phases = result.phases
  BY DEF Summary, SafeSummary
<1>3. CASE result.phases["cleanup"] = "skipped"
  <2>1. Message.tempCleanup = "time, failed"
    BY <1>1, <1>2, <1>3 DEF Message, FormatRestoreResult, TempLine, PhaseText
  <2>2. QED
    BY <2>1 DEF Failures
<1>4. CASE result.phases["cleanup"] # "skipped"
  <2>1. PhaseLine("cleanup") = "time, failed"
    BY <1>1, <1>2, <1>4 DEF PhaseLine, CleanupStatus, PhaseText
  <2>2. "cleanup" \in Phases /\ Message.phases["cleanup"] = "time, failed"
    BY <2>1 DEF Message, FormatRestoreResult, Phases
  <2>3. QED
    BY <2>2 DEF Failures
<1>5. QED
  BY <1>3, <1>4

\* A staged file and a web workload left up stand in the message, and a recovery that is
\* said to have succeeded has brought web down, but for an update given up on (the merged
\* and the separate lines of FormatRestoreResult, through every ending of a run).
THEOREM LeftoversHaveALineHolds == Spec => []LeftoversHaveALine
<1>1. IInv /\ WebDownOrReported /\ StagedFileAccounted /\ RecoveryStatusHonest
        => LeftoversHaveALine
  <2> SUFFICES ASSUME IInv, WebDownOrReported, StagedFileAccounted, RecoveryStatusHonest, Told
               PROVE  /\ tempFile = "staged" => Failures \cap {"cleanup", "tempCleanup"} # {}
                      /\ result.initialized /\ spec["web"] = 1 =>
                           \/ "recovery" \in Failures
                           \/ /\ WebUpGivenUp /\ "verify" \in Failures
                              /\ Message.recovery # "none"
                      /\ Message.recovery = "time, succeeded" =>
                           spec["web"] = 0 \/ WebUpGivenUp
    BY DEF LeftoversHaveALine
  <2>1. Ended /\ result \in ExecutionResults /\ Message.recovery = RecoveryLine
    BY DEF Told, IInv, TypeOK, Message, FormatRestoreResult
  <2>2. /\ Summary.recoveryAttempted = result.recoveryAttempted
        /\ Recovery = NotificationStatus(Summary.recoveryStatus)
    BY DEF Summary, SafeSummary, Recovery
  <2>3. tempFile = "staged" => Failures \cap {"cleanup", "tempCleanup"} # {}
    BY <2>1, RemovalShown DEF StagedFileAccounted, SafeSummary
  <2>4. ASSUME result.initialized, spec["web"] = 1
        PROVE  \/ "recovery" \in Failures
               \/ WebUpGivenUp /\ "verify" \in Failures /\ Message.recovery # "none"
    <3>1. result.recoveryAttempted
      BY <2>1, <2>4 DEF WebDownOrReported
    <3>2. CASE Summary.recoveryStatus = "error"
      <4>1. RecoveryLine = "time, failed"
        BY <2>2, <3>1, <3>2 DEF RecoveryLine, NotificationStatus, PhaseText
      <4>2. QED
        BY <2>1, <4>1 DEF Failures
    <3>3. CASE Summary.recoveryStatus # "error"
      <4>1. WebUpGivenUp
        BY <2>1, <2>4, <3>3 DEF WebDownOrReported, Summary
      <4>2. FailedIn(result, "verify", "step")
        <5>1. Recovered(result, StepPhase(step))
          BY <2>1, <3>1 DEF Ended, IInv, RecordInv
        <5>2. FailedIn(result, StepPhase(step), "step")
          BY <5>1 DEF Recovered
        <5>3. QED
          BY <4>1, <5>2 DEF WebUpGivenUp, StepPhase, ScaleWebUp, Download, AnalyzeDb,
             CheckTimeline
      <4>3. Summary.phases["verify"] = "failure" /\ "verify" \in Phases
        BY <4>2 DEF Summary, SafeSummary, FailedIn, PhasesUpTo, Phases
      <4>4. Message.phases["verify"] = "time, failed"
        BY <4>3 DEF Message, FormatRestoreResult, PhaseLine, PhaseText
      <4>5. RecoveryLine # "none"
        BY <2>2, <3>1 DEF RecoveryLine, PhaseText
      <4>6. QED
        BY <2>1, <4>1, <4>3, <4>4, <4>5 DEF Failures
    <3>4. QED
      BY <3>2, <3>3
  <2>5. ASSUME Message.recovery = "time, succeeded" PROVE spec["web"] = 0 \/ WebUpGivenUp
    <3>1. result.recoveryAttempted /\ Recovery = "success"
      BY <2>1, <2>2, <2>5 DEF RecoveryLine, PhaseText
    <3>2. Summary.recoveryStatus = "success"
      BY <2>2, <3>1 DEF NotificationStatus
    <3>3. QED
      BY <2>1, <3>1, <3>2 DEF RecoveryStatusHonest, Summary
  <2>6. QED
    BY <2>3, <2>4, <2>5
<1>2. QED
  BY <1>1, Invariance, WebDownOrReportedHolds, StagedFileAccountedHolds,
     RecoveryStatusHonestHolds, PTL

\* The sizes in the message are of this run's dump and this run's restore.
LEMMA SizesHonest ==
  ASSUME TypeOK, MessageInv, Ended
  PROVE  SizesAreOfThisRun
<1>1. /\ Summary.databaseSizeAttempted = result.databaseSizeAttempted
      /\ Summary.databaseSizeAvailable = result.databaseSizeAvailable
      /\ Summary.backupSizeAvailable = result.objectRecorded
      /\ Summary.tempCleanupStatus = result.tempCleanupStatus
  BY DEF Summary, SafeSummary
<1>2. Message.dbSize # "unknown" => database \in {"restored", "analyzed"}
  <2>1. Message.dbSize # "unknown" => Sized
    BY <1>1 DEF Message, FormatRestoreResult, DbSize, SizeText, Sized
  <2>2. QED
    BY <2>1 DEF MessageInv, SizeInv
<1>3. Message.backupSize = "size" <=> result.objectRecorded
  BY <1>1 DEF Message, FormatRestoreResult, SizeText
<1>4. result.objectRecorded <=> tempFile = "staged" \/ result.tempCleanupStatus = "success"
  BY DEF MessageInv, RemovalInv, Ended
<1>5. QED
  BY <1>1, <1>2, <1>3, <1>4 DEF SizesAreOfThisRun

\* The lines of a success: every phase has a time, and nothing else is told.
LEMMA SuccessLines ==
  ASSUME IInv, MessageInv, Ended, err = "nil"
  PROVE  /\ Failures = {} /\ Message.recovery = "none" /\ Message.failedPhase = ""
         /\ \A p \in Phases : Message.phases[p] = "time"
<1>1. /\ result.phases = PhasesUpTo("cleanup", "success") /\ result.failedPhase = ""
      /\ ~result.recoveryAttempted /\ result.tempCleanupStatus # "error"
  BY DEF IInv, RecordInv, DumpInv, MessageInv, RemovalInv, Ended, Done
<1>2. \A p \in Phases : Summary.phases[p] = "success"
  <2>1. \A p \in Phases : PhasesUpTo("cleanup", "success")[p] = "success"
    BY DEF PhasesUpTo, PhaseIndex, Phases
  <2>2. Summary.phases = result.phases
    BY DEF Summary, SafeSummary
  <2>3. QED
    BY <1>1, <2>1, <2>2
<1>3. /\ ~Summary.recoveryAttempted /\ TempCleanup # "failure" /\ Summary.failedPhase = ""
  <2>1. result.tempCleanupStatus # "failure"
    BY DEF IInv, TypeOK, ExecutionResults, Outcomes
  <2>2. QED
    BY <1>1, <2>1 DEF Summary, SafeSummary, TempCleanup, NotificationStatus
<1>4. \A p \in Phases : PhaseLine(p) = "time"
  BY <1>2, <1>3 DEF PhaseLine, CleanupStatus, PhaseText
<1>5. RecoveryLine = "none" /\ TempLine = "none"
  BY <1>2, <1>3 DEF RecoveryLine, TempLine, Phases
<1>6. /\ \A p \in Phases : Message.phases[p] = "time"
      /\ Message.recovery = "none" /\ Message.tempCleanup = "none" /\ Message.failedPhase = ""
  BY <1>3, <1>4, <1>5 DEF Message, FormatRestoreResult
<1>7. QED
  BY <1>6 DEF Failures

\* The lines of a failure: times, one failure, and nothing run after it.  The status
\* of the file does not turn a cleanup that never ran into a failed one, and cleanup
\* is the last phase: one that ran in a failed run has failed.
LEMMA FailureLines ==
  ASSUME IInv, ReportTruthful, Ended, err # "nil", NEW p \in Phases
  PROVE  Message.phases[p] = IF p = Message.failedPhase THEN "time, failed"
                             ELSE IF PhaseBefore(p, Message.failedPhase)
                             THEN "time" ELSE "not run"
<1> DEFINE first == result.failedPhase
<1>1. first \in Phases
  BY DEF IInv, RecordInv, Ended, Recovered, FailedIn, WorkPhases, Phases
<1>2. Summary.phases[p] = IF p = first THEN "failure"
                          ELSE IF PhaseBefore(p, first) THEN "success" ELSE "skipped"
  <2>1. Report(result).phases = result.phases /\ Report(result).failedPhase = first
    BY DEF Report
  <2>2. Summary.phases = result.phases
    BY DEF Summary, SafeSummary
  <2>3. QED
    BY <2>1, <2>2 DEF ReportTruthful
<1>3. ~PhaseBefore("cleanup", first)
  BY <1>1 DEF PhaseBefore, PhaseIndex, Phases
<1>4. Message.phases[p] = PhaseLine(p) /\ Message.failedPhase = first
  BY DEF Message, FormatRestoreResult, Summary, SafeSummary
<1> HIDE DEF first
<1>5. CASE p # "cleanup"
  BY <1>2, <1>4, <1>5 DEF PhaseLine, PhaseText
<1>6. CASE p = "cleanup"
  <2>1. CASE p = first
    BY <1>2, <1>4, <1>6, <2>1 DEF PhaseLine, CleanupStatus, PhaseText
  <2>2. CASE p # first
    BY <1>2, <1>3, <1>4, <1>6, <2>2 DEF PhaseLine, CleanupStatus, PhaseText
  <2>3. QED
    BY <2>1, <2>2
<1>7. QED
  BY <1>5, <1>6

\* The lines of the message agree with its first line, with each other and with the
\* data the run has handled (FormatRestoreResult of the summary of any ended run).
THEOREM LinesAgreeHolds == Spec => []LinesAgree
<1>1. IInv /\ MessageInv /\ ReportTruthful => LinesAgree
  <2> SUFFICES ASSUME IInv, MessageInv, ReportTruthful, Ended
               PROVE  /\ SizesAreOfThisRun
                      /\ Message.state = "succeeded" =>
                           /\ Failures = {} /\ Message.recovery = "none"
                           /\ Message.failedPhase = ""
                           /\ \A p \in Phases : Message.phases[p] = "time"
                      /\ Message.state = "failed" =>
                           \A p \in Phases :
                             Message.phases[p] = IF p = Message.failedPhase THEN "time, failed"
                                                 ELSE IF PhaseBefore(p, Message.failedPhase)
                                                 THEN "time" ELSE "not run"
    BY DEF LinesAgree, Told
  <2>1. Message.state = IF err = "nil" THEN "succeeded" ELSE "failed"
    BY DEF Message, FormatRestoreResult
  <2>2. SizesAreOfThisRun
    BY SizesHonest DEF IInv
  <2>3. CASE err = "nil"
    BY <2>1, <2>2, <2>3, SuccessLines
  <2>4. CASE err # "nil"
    BY <2>1, <2>2, <2>4, FailureLines
  <2>5. QED
    BY <2>3, <2>4
<1>2. QED
  BY <1>1, MessageInvariance, ReportTruthfulHolds, PTL
=============================================================================
