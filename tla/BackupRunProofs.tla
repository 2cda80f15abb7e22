--------------------------- MODULE BackupRunProofs ---------------------------
(***************************************************************************)
(* BackupRun for any disturbances and any number of runs: what exit code,  *)
(* report, embed and stored object have to do with each other; and with    *)
(* Delivery, what a restore-test gets of what backups put there, for any   *)
(* length of an object.                                                    *)
(***************************************************************************)
EXTENDS Delivery, BackupMessage, TLAPS

\* No phase has failed, and the first n have succeeded.
Unfailed(n) ==
    /\ err = "nil" /\ summary.failedPhase = ""
    /\ \A p \in Phases :
           summary.phases[p] = IF PhaseIndex(p) < n THEN "success" ELSE "skipped"

\* The phases' history after a failure, with the error that goes with it.
History ==
    /\ summary.failedPhase \in Phases
    /\ \/ err = summary.failedPhase
       \/ err = "config" /\ summary.failedPhase = "preflight"
    /\ summary.phases[summary.failedPhase] = "failure"
    /\ \A p \in Phases :
         /\ PhaseIndex(p) < PhaseIndex(summary.failedPhase) => summary.phases[p] = "success"
         /\ PhaseIndex(p) > PhaseIndex(summary.failedPhase) /\ p # "cleanup"
                => summary.phases[p] = "skipped"

\* The summary and the error at each stage.
SummaryInv ==
    /\ stage = "preflight" => Unfailed(0)
    /\ stage \in {"create temp", "dump"} => Unfailed(1)
    /\ stage = "validate" => Unfailed(2)
    /\ stage \in {"upload", "head"} => Unfailed(3)
    /\ stage = "cleanup" =>
         \/ Unfailed(4) /\ summary.uploadVerified
         \/ History /\ summary.failedPhase # "cleanup"
    /\ stage = "notify" => (Unfailed(5) /\ summary.uploadVerified) \/ History
    /\ stage = "exited" =>
         (Unfailed(5) /\ summary.uploadVerified) \/ History \/ err = "help"

\* The temporary file at each stage.
TempInv ==
    /\ stage \in {"preflight", "create temp"} => temp = "absent"
    /\ stage \in {"validate", "upload", "head"} => temp \in {"absent", "complete"}
    /\ stage \in {"notify", "exited"} /\ temp # "absent" =>
         History /\ summary.phases["cleanup"] = "failure"

\* The object: verified only once HEAD has matched, and not touched after that.
ObjectInv ==
    /\ stage \in {"preflight", "create temp", "dump", "validate", "upload", "head"}
         => ~summary.uploadVerified
    /\ stage = "head" => object \in [run : {run}, content : {"complete", "short"}]
    /\ summary.uploadVerified => DumpStored

\* An upload under way sends a validated dump, and nothing is said to be verified.
LateInv ==
    /\ late \in {"none", "complete"}
    /\ late # "none" =>
         /\ stage \in {"upload", "cleanup", "notify", "exited", "crashed"}
         /\ summary.phases["validate"] = "success" /\ ~summary.uploadVerified

RunInv == TypeOK /\ SummaryInv /\ TempInv /\ ObjectInv

IInv == RunInv /\ LateInv

-----------------------------------------------------------------------------

LEMMA InitIInv == Init => IInv
<1> SUFFICES ASSUME Init PROVE IInv
  OBVIOUS
<1>1. summary \in Summaries
  BY DEF Init, NewSummary, Summaries
<1>2. object \in Objects /\ run \in 1..MaxRuns
  BY BackupAssumption DEF BackupAssumption, Init, Objects, Dumps
<1>3. TypeOK
  BY <1>1, <1>2, Zenon DEF Init, TypeOK, Stages, Errors
<1>4. Unfailed(0)
  <2>1. summary.phases = [p \in Phases |-> "skipped"] /\ summary.failedPhase = ""
    BY DEF Init, NewSummary
  <2>2. \A p \in Phases : ~(PhaseIndex(p) < 0)
    BY DEF PhaseIndex, Phases
  <2>3. QED
    BY <2>1, <2>2 DEF Init, Unfailed
<1>5. SummaryInv
  BY <1>4 DEF Init, SummaryInv
<1>6. TempInv /\ ObjectInv /\ LateInv
  BY DEF Init, NewSummary, TempInv, ObjectInv, LateInv
<1>7. QED
  BY <1>3, <1>5, <1>6 DEF IInv, RunInv

\* What a step that fails a phase makes of the summary and the error.
LEMMA FailsShape ==
    ASSUME NEW s \in Summaries, NEW phase \in Phases, err \in Errors, Fails(s, phase)
    PROVE  /\ summary' \in Summaries /\ err' \in Errors
           /\ summary'.phases[phase] = "failure"
           /\ \A p \in Phases \ {phase} : summary'.phases[p] = s.phases[p]
           /\ summary'.uploadVerified = s.uploadVerified
           /\ err = "nil" => summary'.failedPhase = phase /\ err' = phase
           /\ err # "nil" => summary'.failedPhase = s.failedPhase /\ err' = err
<1> DEFINE failed == [s EXCEPT !.phases = [s.phases EXCEPT ![phase] = "failure"]]
<1>1. /\ failed \in Summaries
      /\ failed.phases[phase] = "failure"
      /\ \A p \in Phases \ {phase} : failed.phases[p] = s.phases[p]
      /\ failed.uploadVerified = s.uploadVerified /\ failed.failedPhase = s.failedPhase
  BY DEF Summaries
<1>2. CASE err = "nil"
  <2>1. summary' = [failed EXCEPT !.failedPhase = phase] /\ err' = phase
    BY <1>2 DEF Fails
  <2>2. QED
    <3> HIDE DEF failed
    <3>1. /\ summary' \in Summaries /\ summary'.phases = failed.phases
          /\ summary'.uploadVerified = failed.uploadVerified
          /\ summary'.failedPhase = phase
      BY <1>1, <2>1 DEF Summaries
    <3>2. QED
      BY <1>1, <1>2, <2>1, <3>1 DEF Errors
<1>3. CASE err # "nil"
  <2>1. summary' = failed /\ err' = err
    BY <1>3 DEF Fails
  <2>2. QED
    BY <1>1, <1>3, <2>1
<1>4. QED
  BY <1>2, <1>3

\* What a step that completes a phase makes of the summary.
LEMMA SucceedsShape ==
    ASSUME NEW s \in Summaries, NEW phase \in Phases, Succeeds(s, phase)
    PROVE  /\ summary' \in Summaries /\ err' = err
           /\ summary'.phases[phase] = "success"
           /\ \A p \in Phases \ {phase} : summary'.phases[p] = s.phases[p]
           /\ summary'.uploadVerified = s.uploadVerified
           /\ summary'.failedPhase = s.failedPhase
  BY DEF Succeeds, Succeeded, Summaries

LEMMA IndexRange == \A p \in Phases : PhaseIndex(p) \in 0..4
  BY DEF PhaseIndex, Phases

\* The failure of the phase whose turn it is starts a history.
LEMMA FirstFailure ==
    ASSUME NEW n \in 0..4, NEW s \in Summaries, NEW phase \in Phases,
           Unfailed(n), PhaseIndex(phase) = n, s.phases = summary.phases,
           Fails(s, phase)
    PROVE  /\ History' /\ summary'.failedPhase = phase
           /\ summary'.phases[phase] = "failure"
<1>1. /\ summary'.phases[phase] = "failure"
      /\ \A p \in Phases \ {phase} : summary'.phases[p] = summary.phases[p]
      /\ summary'.failedPhase = phase /\ err' = phase
  <2>1. err = "nil" /\ err \in Errors
    BY DEF Unfailed, Errors
  <2>2. QED
    BY <2>1, FailsShape
<1>2. ASSUME NEW p \in Phases
      PROVE  /\ PhaseIndex(p) < n => summary'.phases[p] = "success"
             /\ PhaseIndex(p) > n /\ p # "cleanup" => summary'.phases[p] = "skipped"
  <2>1. summary.phases[p] = IF PhaseIndex(p) < n THEN "success" ELSE "skipped"
    BY DEF Unfailed
  <2>2. PhaseIndex(p) # n => summary'.phases[p] = summary.phases[p]
    BY <1>1
  <2>3. QED
    BY <2>1, <2>2, IndexRange
<1>3. QED
  BY <1>1, <1>2 DEF History

\* The success of the phase whose turn it is passes the turn on.
LEMMA PhaseSucceeds ==
    ASSUME NEW n \in 0..4, NEW s \in Summaries, NEW phase \in Phases,
           Unfailed(n), PhaseIndex(phase) = n, s.phases = summary.phases,
           s.failedPhase = summary.failedPhase, Succeeds(s, phase),
           \A p \in Phases : PhaseIndex(p) = n => p = phase
    PROVE  Unfailed(n + 1)'
<1>1. /\ summary'.phases[phase] = "success"
      /\ \A p \in Phases \ {phase} : summary'.phases[p] = summary.phases[p]
      /\ summary'.failedPhase = "" /\ err' = "nil"
  <2>1. summary.failedPhase = "" /\ err = "nil"
    BY DEF Unfailed
  <2>2. /\ summary'.phases[phase] = "success" /\ err' = err
        /\ \A p \in Phases \ {phase} : summary'.phases[p] = s.phases[p]
        /\ summary'.failedPhase = s.failedPhase
    BY ONLY Succeeds(s, phase), s \in Summaries, phase \in Phases, SucceedsShape
  <2>3. QED
    BY ONLY <2>1, <2>2, s.phases = summary.phases, s.failedPhase = summary.failedPhase
<1>2. ASSUME NEW p \in Phases
      PROVE  summary'.phases[p] = IF PhaseIndex(p) < n + 1 THEN "success" ELSE "skipped"
  <2>1. summary.phases[p] = IF PhaseIndex(p) < n THEN "success" ELSE "skipped"
    BY DEF Unfailed
  <2>2. CASE p = phase
    <3>1. PhaseIndex(p) = n /\ summary'.phases[p] = "success"
      BY <1>1, <2>2
    <3>2. n < n + 1
      OBVIOUS
    <3>3. QED
      BY <3>1, <3>2
  <2>3. CASE p # phase
    <3>1. PhaseIndex(p) \in 0..4 /\ PhaseIndex(p) # n
      BY <2>3, IndexRange
    <3>2. summary'.phases[p] = summary.phases[p]
      BY <1>1, <2>3
    <3>3. QED
      BY <2>1, <3>1, <3>2
  <2>4. QED
    BY <2>2, <2>3
<1>3. QED
  BY <1>1, <1>2 DEF Unfailed

\* The cleanup after a failure adds to the history and leaves the first failure.
LEMMA HistoryGrows ==
    ASSUME summary \in Summaries, err \in Errors,
           History, summary.failedPhase # "cleanup",
           Succeeds(summary, "cleanup") \/ Fails(summary, "cleanup")
    PROVE  History'
<1>1. "cleanup" \in Phases
  BY DEF Phases
<1>2. err # "nil"
  BY DEF History, Phases
<1>3. /\ \A p \in Phases \ {"cleanup"} : summary'.phases[p] = summary.phases[p]
      /\ summary'.failedPhase = summary.failedPhase /\ err' = err
  BY <1>1, <1>2, FailsShape, SucceedsShape
<1>4. PhaseIndex("cleanup") = 4 /\ PhaseIndex(summary.failedPhase) \in 0..4
  BY IndexRange DEF History, PhaseIndex
<1>5. QED
  BY <1>3, <1>4 DEF History

LEMMA IndexValues ==
    /\ PhaseIndex("preflight") = 0 /\ PhaseIndex("dump") = 1
    /\ PhaseIndex("validate") = 2 /\ PhaseIndex("upload") = 3
    /\ PhaseIndex("cleanup") = 4
    /\ \A p, q \in Phases : PhaseIndex(p) = PhaseIndex(q) => p = q
    /\ {"preflight", "dump", "validate", "upload", "cleanup"} = Phases
<1>1. /\ PhaseIndex("preflight") = 0 /\ PhaseIndex("dump") = 1
      /\ PhaseIndex("validate") = 2 /\ PhaseIndex("upload") = 3
      /\ PhaseIndex("cleanup") = 4
  BY DEF PhaseIndex
<1>2. {"preflight", "dump", "validate", "upload", "cleanup"} = Phases
  BY DEF Phases
<1>3. \A p, q \in Phases : PhaseIndex(p) = PhaseIndex(q) => p = q
  BY <1>1 DEF Phases
<1>4. QED
  BY <1>1, <1>2, <1>3

LEMMA SameHistory ==
    ASSUME UNCHANGED <<summary, err>>
    PROVE  (\A n \in 0..5 : Unfailed(n)' <=> Unfailed(n)) /\ (History' <=> History)
  BY Zenon DEF Unfailed, History

LEMMA SameSummary ==
    ASSUME SummaryInv, UNCHANGED <<stage, summary, err>>
    PROVE  SummaryInv'
  BY Zenon DEF SummaryInv, Unfailed, History

\* Changes of a summary that leave its phases alone.
LEMMA OtherFields ==
    ASSUME NEW s \in Summaries, NEW b \in BOOLEAN
    PROVE  /\ [s EXCEPT !.identityKnown = TRUE] \in Summaries
           /\ [s EXCEPT !.identityKnown = TRUE].phases = s.phases
           /\ [s EXCEPT !.identityKnown = TRUE].failedPhase = s.failedPhase
           /\ [s EXCEPT !.identityKnown = TRUE].uploadVerified = s.uploadVerified
           /\ [s EXCEPT !.sizeAvailable = b] \in Summaries
           /\ [s EXCEPT !.sizeAvailable = b].phases = s.phases
           /\ [s EXCEPT !.sizeAvailable = b].failedPhase = s.failedPhase
           /\ [s EXCEPT !.sizeAvailable = b].uploadVerified = s.uploadVerified
           /\ [s EXCEPT !.uploadVerified = TRUE] \in Summaries
           /\ [s EXCEPT !.uploadVerified = TRUE].phases = s.phases
           /\ [s EXCEPT !.uploadVerified = TRUE].failedPhase = s.failedPhase
           /\ [s EXCEPT !.uploadVerified = TRUE].uploadVerified
  BY DEF Summaries

\* The object a run puts has the type of an object and the content of its dump.
LEMMA StoredType ==
    ASSUME TypeOK, NEW file \in Dumps, NEW o \in Stored(file)
    PROVE  /\ o \in Objects /\ o.run = run /\ o.content \in {file, "short"}
           /\ o \in [run : {run}, content : {file, "short"}]
<1>1. run \in 0..MaxRuns
  BY BackupAssumption DEF TypeOK, BackupAssumption
<1>2. o \in [run : {run}, content : {file, "short"}]
  BY DEF Stored
<1>3. QED
  BY <1>1, <1>2 DEF Objects

\* What is uploaded and what lands is the validated dump, whole or cut by the store.
LEMMA LandsWhole ==
    ASSUME IInv, NEW o, \/ stage = "upload" /\ temp # "absent" /\ o \in Stored(temp)
                        \/ late # "none" /\ o \in Stored(late)
    PROVE  /\ o \in Objects /\ o \in [run : {run}, content : {"complete", "short"}]
           /\ o.run = run /\ o.content \in {"complete", "short"}
<1>1. TypeOK /\ o \in Stored("complete")
  BY DEF IInv, RunInv, TempInv, LateInv
<1>2. "complete" \in Dumps
  BY DEF Dumps
<1>3. QED
  BY <1>1, <1>2, StoredType

LEMMA ValidatedAtUpload ==
    ASSUME Unfailed(3)
    PROVE  summary.phases["validate"] = "success"
<1>1. PhaseIndex("validate") < 3 /\ "validate" \in Phases
  BY IndexValues
<1>2. QED
  BY <1>1 DEF Unfailed

LEMMA UnderWayRange ==
    ASSUME IInv, NEW file \in {late} \cup UnderWay
    PROVE  /\ file \in {"none", "complete"}
           /\ file # "none" =>
                /\ stage \in {"upload", "cleanup", "notify", "exited", "crashed"}
                /\ summary.phases["validate"] = "success" /\ ~summary.uploadVerified
<1>1. CASE file = late
  BY <1>1 DEF IInv, LateInv
<1>2. CASE file \in UnderWay
  <2>1. stage = "upload" /\ temp # "absent" /\ file = temp
    BY <1>2 DEF UnderWay
  <2>2. file = "complete" /\ Unfailed(3) /\ ~summary.uploadVerified
    BY <2>1 DEF IInv, RunInv, TempInv, SummaryInv, ObjectInv
  <2>3. QED
    BY <2>1, <2>2, ValidatedAtUpload
<1>3. QED
  BY <1>1, <1>2

-----------------------------------------------------------------------------
(* Every step preserves the invariant.                                     *)

LEMMA NextLateInv == IInv /\ [Next]_vars => LateInv'
<1> SUFFICES ASSUME IInv, [Next]_vars PROVE LateInv'
  OBVIOUS
<1>t. /\ summary \in Summaries /\ err \in Errors
      /\ "upload" \in Phases /\ "cleanup" \in Phases /\ "validate" \in Phases
  BY DEF IInv, RunInv, TypeOK, Phases
<1>1. CASE Help \/ Preflight \/ PreflightFails \/ CreateTemp \/ CreateTempFails
           \/ DumpReturns \/ DumpFails \/ Validate \/ ValidateFails \/ HeadMatches
           \/ HeadFails
  <2>1. late' = "none"
    BY <1>1 DEF IInv, LateInv, Help, Preflight, PreflightFails, CreateTemp, CreateTempFails,
       DumpReturns, DumpFails, Validate, ValidateFails, HeadMatches, HeadFails
  <2>2. QED
    BY <2>1 DEF LateInv
<1>2. CASE Upload \/ Land \/ NextRun
  BY <1>2 DEF Upload, Land, NextRun, LateInv
<1>3. CASE UploadFails
  <2>1. Fails(summary, "upload") /\ late' \in {late} \cup UnderWay /\ stage' = "cleanup"
    BY <1>3 DEF UploadFails
  <2>2. /\ summary'.phases["validate"] = summary.phases["validate"]
        /\ summary'.uploadVerified = summary.uploadVerified
    BY <1>t, <2>1, FailsShape
  <2>3. QED
    BY <2>1, <2>2, UnderWayRange DEF LateInv
<1>4. CASE Cleanup
  <2>1. /\ Succeeds(summary, "cleanup") \/ Fails(summary, "cleanup")
        /\ late' = late /\ stage' = "notify"
    BY <1>4 DEF Cleanup
  <2>2. /\ summary'.phases["validate"] = summary.phases["validate"]
        /\ summary'.uploadVerified = summary.uploadVerified
    BY <1>t, <2>1, FailsShape, SucceedsShape
  <2>3. QED
    BY <2>1, <2>2 DEF IInv, LateInv
<1>5. CASE Cancel \/ Crash
  <2>1. /\ summary' = summary /\ late' \in {late} \cup UnderWay
        /\ stage' \in {stage, "crashed"}
    BY <1>5 DEF Cancel, Crash
  <2>2. QED
    BY <2>1, UnderWayRange DEF LateInv
<1>6. CASE Notify \/ TempVanishes \/ UNCHANGED vars
  <2>1. summary' = summary /\ late' = late /\ stage' \in {stage, "exited"}
    BY <1>6 DEF Notify, TempVanishes, vars
  <2>2. QED
    BY <2>1 DEF IInv, LateInv
<1>7. QED
  BY <1>1, <1>2, <1>3, <1>4, <1>5, <1>6 DEF Next, Worker

LEMMA NextRunInv == IInv /\ [Next]_vars => RunInv'
<1> SUFFICES ASSUME IInv, [Next]_vars PROVE RunInv'
  OBVIOUS
<1> USE DEF IInv, RunInv
<1>t. /\ TypeOK /\ summary \in Summaries /\ err \in Errors
      /\ canceled \in BOOLEAN /\ run \in 1..MaxRuns
  BY DEF TypeOK
<1>1. CASE Help
  <2>1. TypeOK'
    BY <1>t, <1>1 DEF Help, TypeOK, Stages, Errors
  <2>2. SummaryInv'
    BY <1>1 DEF Help, SummaryInv
  <2>3. TempInv'
    BY <1>1 DEF Help, TempInv
  <2>4. ObjectInv'
    BY <1>1 DEF Help, ObjectInv
  <2>5. QED
    BY <2>1, <2>2, <2>3, <2>4
<1>2. CASE PreflightFails
  <2>1. PICK known \in BOOLEAN, e \in {"preflight", "config"} :
          /\ err' = e
          /\ summary' = [summary EXCEPT !.failedPhase = "preflight",
                                         !.phases = [summary.phases EXCEPT !["preflight"] = "failure"],
                                         !.identityKnown = known]
    <3>1. summary.identityKnown \in BOOLEAN
      BY <1>t DEF Summaries
    <3>2. CASE summary' = [summary EXCEPT !.failedPhase = "preflight",
                                           !.phases = [summary.phases EXCEPT !["preflight"] = "failure"]]
               /\ err' \in {"preflight", "config"}
      <4>1. summary' = [summary EXCEPT !.failedPhase = "preflight",
                                        !.phases = [summary.phases EXCEPT !["preflight"] = "failure"],
                                        !.identityKnown = summary.identityKnown]
        BY <1>t, <3>2 DEF Summaries
      <4>2. QED
        BY <3>1, <3>2, <4>1
    <3>3. CASE summary' = [[summary EXCEPT !.failedPhase = "preflight",
                                            !.phases = [summary.phases EXCEPT !["preflight"] = "failure"]]
                              EXCEPT !.identityKnown = TRUE]
               /\ err' = "preflight"
      <4>1. summary' = [summary EXCEPT !.failedPhase = "preflight",
                                        !.phases = [summary.phases EXCEPT !["preflight"] = "failure"],
                                        !.identityKnown = TRUE]
        BY <1>t, <3>3 DEF Summaries
      <4>2. QED
        BY <3>3, <4>1
    <3>4. QED
      BY <1>2, <3>2, <3>3 DEF PreflightFails
  <2>2. /\ summary' \in Summaries /\ summary'.failedPhase = "preflight"
        /\ summary'.phases["preflight"] = "failure"
        /\ \A p \in Phases \ {"preflight"} : summary'.phases[p] = summary.phases[p]
        /\ summary'.uploadVerified = summary.uploadVerified
    BY <1>t, <2>1, IndexValues DEF Summaries
  <2>3. \A p \in Phases : p # "preflight" => PhaseIndex(p) > 0 /\ summary.phases[p] = "skipped"
    <3>1. Unfailed(0)
      BY <1>2 DEF PreflightFails, SummaryInv
    <3>2. \A p \in Phases : PhaseIndex(p) = 0 => p = "preflight"
      BY IndexValues
    <3>3. ASSUME NEW p \in Phases, p # "preflight" PROVE PhaseIndex(p) > 0
      BY <3>2, <3>3, IndexRange
    <3>4. ASSUME NEW p \in Phases PROVE summary.phases[p] = "skipped"
      <4>1. ~(PhaseIndex(p) < 0)
        BY IndexRange
      <4>2. QED
        BY <3>1, <4>1 DEF Unfailed
    <3>5. QED
      BY <3>3, <3>4
  <2>4. History'
    BY <2>1, <2>2, <2>3, IndexValues, IndexRange DEF History
  <2>5. TypeOK'
    BY <1>t, <1>2, <2>1, <2>2 DEF PreflightFails, TypeOK, Stages, Errors, Phases
  <2>6. SummaryInv'
    BY <1>2, <2>4 DEF PreflightFails, SummaryInv
  <2>7. TempInv'
    BY <1>2 DEF PreflightFails, TempInv
  <2>8. ObjectInv'
    BY <1>2, <2>2 DEF PreflightFails, ObjectInv
  <2>9. QED
    BY <2>5, <2>6, <2>7, <2>8
<1>3. CASE Preflight
  <2>1. Unfailed(0) /\ ~summary.uploadVerified
    BY <1>3 DEF Preflight, SummaryInv, ObjectInv
  <2>2. PICK s \in Summaries :
          /\ s.phases = summary.phases /\ s.failedPhase = summary.failedPhase
          /\ s.uploadVerified = summary.uploadVerified /\ Succeeds(s, "preflight")
    BY <1>t, OtherFields, <1>3 DEF Preflight
  <2>3. Unfailed(1)'
    BY <2>1, <2>2, PhaseSucceeds, IndexValues
  <2>4. summary' \in Summaries /\ err' = err /\ ~summary'.uploadVerified
    BY <2>1, <2>2, SucceedsShape, IndexValues
  <2>5. TypeOK'
    BY <1>t, <1>3, <2>4 DEF Preflight, TypeOK, Stages
  <2>6. SummaryInv'
    BY <1>3, <2>3 DEF Preflight, SummaryInv
  <2>7. TempInv'
    BY <1>3 DEF Preflight, TempInv
  <2>8. ObjectInv'
    BY <1>3, <2>4 DEF Preflight, ObjectInv
  <2>9. QED
    BY <2>1, <2>2, <2>3, <2>4, <2>5, <2>6, <2>7, <2>8
<1>4. CASE CreateTemp
  <2>1. Unfailed(1)'
    BY <1>4 DEF CreateTemp, SummaryInv, Unfailed
  <2>2. TypeOK'
    BY <1>t, <1>4 DEF CreateTemp, TypeOK, Stages, Dumps
  <2>3. SummaryInv'
    BY <1>4, <2>1 DEF CreateTemp, SummaryInv
  <2>4. TempInv'
    BY <1>4 DEF CreateTemp, TempInv
  <2>5. ObjectInv'
    BY <1>4 DEF CreateTemp, ObjectInv, DumpStored
  <2>6. QED
    BY <2>1, <2>2, <2>3, <2>4, <2>5
<1>5. CASE CreateTempFails
  <2>1. Unfailed(1) /\ ~summary.uploadVerified
    BY <1>5 DEF CreateTempFails, SummaryInv, ObjectInv
  <2>2. /\ summary \in Summaries /\ (summary).phases = summary.phases
        /\ (summary).uploadVerified = summary.uploadVerified
    BY <1>t
  <2>3. Fails(summary, "dump")
    BY <1>5 DEF CreateTempFails
  <2>4. History' /\ summary'.failedPhase = "dump"
    BY <2>1, <2>2, <2>3, FirstFailure, IndexValues
  <2>5. summary' \in Summaries /\ err' \in Errors /\ ~summary'.uploadVerified
    BY <1>t, <2>1, <2>2, <2>3, FailsShape, IndexValues
  <2>6. TypeOK'
    BY <1>t, <1>5, <2>5 DEF CreateTempFails, TypeOK, Stages, Dumps
  <2>7. SummaryInv'
    BY <1>5, <2>4 DEF CreateTempFails, SummaryInv
  <2>8. TempInv'
    BY <1>5, <2>4 DEF CreateTempFails, TempInv
  <2>9. ObjectInv'
    BY <1>5, <2>5 DEF CreateTempFails, ObjectInv
  <2>10. QED
    BY <2>1, <2>2, <2>3, <2>4, <2>5, <2>6, <2>7, <2>8, <2>9
<1>6. CASE DumpReturns
  <2>1. Unfailed(1) /\ ~summary.uploadVerified
    BY <1>6 DEF DumpReturns, SummaryInv, ObjectInv
  <2>2. PICK s \in Summaries :
          /\ s.phases = summary.phases /\ s.failedPhase = summary.failedPhase
          /\ s.uploadVerified = summary.uploadVerified /\ Succeeds(s, "dump")
    BY <1>t, <1>6 DEF DumpReturns
  <2>3. Unfailed(2)'
    BY <2>1, <2>2, PhaseSucceeds, IndexValues
  <2>4. summary' \in Summaries /\ err' = err /\ ~summary'.uploadVerified
    BY <2>1, <2>2, SucceedsShape, IndexValues
  <2>5. TypeOK'
    BY <1>t, <1>6, <2>4 DEF DumpReturns, TypeOK, Stages, DumpOutcomes, Dumps
  <2>6. SummaryInv'
    BY <1>6, <2>3 DEF DumpReturns, SummaryInv
  <2>7. TempInv'
    BY <1>6 DEF DumpReturns, TempInv, DumpOutcomes, Dumps
  <2>8. ObjectInv'
    BY <1>6, <2>4 DEF DumpReturns, ObjectInv
  <2>9. QED
    BY <2>1, <2>2, <2>3, <2>4, <2>5, <2>6, <2>7, <2>8
<1>7. CASE DumpFails
  <2>1. Unfailed(1) /\ ~summary.uploadVerified
    BY <1>7 DEF DumpFails, SummaryInv, ObjectInv
  <2>2. /\ summary \in Summaries /\ (summary).phases = summary.phases
        /\ (summary).uploadVerified = summary.uploadVerified
    BY <1>t
  <2>3. Fails(summary, "dump")
    BY <1>7 DEF DumpFails
  <2>4. History' /\ summary'.failedPhase = "dump"
    BY <2>1, <2>2, <2>3, FirstFailure, IndexValues
  <2>5. summary' \in Summaries /\ err' \in Errors /\ ~summary'.uploadVerified
    BY <1>t, <2>1, <2>2, <2>3, FailsShape, IndexValues
  <2>6. TypeOK'
    BY <1>t, <1>7, <2>5 DEF DumpFails, TypeOK, Stages, DumpOutcomes
  <2>7. SummaryInv'
    BY <1>7, <2>4 DEF DumpFails, SummaryInv
  <2>8. TempInv'
    BY <1>7, <2>4 DEF DumpFails, TempInv
  <2>9. ObjectInv'
    BY <1>7, <2>5 DEF DumpFails, ObjectInv
  <2>10. QED
    BY <2>1, <2>2, <2>3, <2>4, <2>5, <2>6, <2>7, <2>8, <2>9
<1>8. CASE Validate
  <2>1. Unfailed(2) /\ ~summary.uploadVerified
    BY <1>8 DEF Validate, SummaryInv, ObjectInv
  <2>2. PICK s \in Summaries :
          /\ s.phases = summary.phases /\ s.failedPhase = summary.failedPhase
          /\ s.uploadVerified = summary.uploadVerified /\ Succeeds(s, "validate")
    BY <1>t, OtherFields, <1>8 DEF Validate
  <2>3. Unfailed(3)'
    BY <2>1, <2>2, PhaseSucceeds, IndexValues
  <2>4. summary' \in Summaries /\ err' = err /\ ~summary'.uploadVerified
    BY <2>1, <2>2, SucceedsShape, IndexValues
  <2>5. TypeOK'
    BY <1>t, <1>8, <2>4 DEF Validate, TypeOK, Stages
  <2>6. SummaryInv'
    BY <1>8, <2>3 DEF Validate, SummaryInv
  <2>7. TempInv'
    BY <1>8 DEF Validate, TempInv
  <2>8. ObjectInv'
    BY <1>8, <2>4 DEF Validate, ObjectInv
  <2>9. QED
    BY <2>1, <2>2, <2>3, <2>4, <2>5, <2>6, <2>7, <2>8
<1>9. CASE ValidateFails
  <2>1. Unfailed(2) /\ ~summary.uploadVerified
    BY <1>9 DEF ValidateFails, SummaryInv, ObjectInv
  <2>2. PICK s \in Summaries :
          /\ s.phases = summary.phases /\ s.uploadVerified = summary.uploadVerified
          /\ Fails(s, "validate")
    BY <1>t, OtherFields, <1>9 DEF ValidateFails
  <2>3. /\ s \in Summaries /\ (s).phases = summary.phases
        /\ (s).uploadVerified = summary.uploadVerified
    BY <2>2
  <2>4. Fails(s, "validate")
    BY <1>9, <2>2 DEF ValidateFails
  <2>5. History' /\ summary'.failedPhase = "validate"
    BY <2>1, <2>3, <2>4, FirstFailure, IndexValues
  <2>6. summary' \in Summaries /\ err' \in Errors /\ ~summary'.uploadVerified
    BY <1>t, <2>1, <2>3, <2>4, FailsShape, IndexValues
  <2>7. TypeOK'
    BY <1>t, <1>9, <2>6 DEF ValidateFails, TypeOK, Stages
  <2>8. SummaryInv'
    BY <1>9, <2>5 DEF ValidateFails, SummaryInv
  <2>9. TempInv'
    BY <1>9, <2>5 DEF ValidateFails, TempInv
  <2>10. ObjectInv'
    BY <1>9, <2>6 DEF ValidateFails, ObjectInv
  <2>11. QED
    BY <2>1, <2>2, <2>3, <2>4, <2>5, <2>6, <2>7, <2>8, <2>9, <2>10
<1>10. CASE Upload
  <2>1. Unfailed(3)'
    BY <1>10 DEF Upload, SummaryInv, Unfailed
  <2>2. /\ object' \in Objects
        /\ object' \in [run : {run}, content : {"complete", "short"}]
    BY <1>10, LandsWhole DEF Upload
  <2>3. TypeOK'
    BY <1>t, <1>10, <2>2 DEF Upload, TypeOK, Stages, Dumps
  <2>4. SummaryInv'
    BY <1>10, <2>1 DEF Upload, SummaryInv
  <2>5. TempInv'
    BY <1>10 DEF Upload, TempInv
  <2>6. ObjectInv'
    BY <1>10, <2>2 DEF Upload, ObjectInv
  <2>7. QED
    BY <2>1, <2>2, <2>3, <2>4, <2>5, <2>6
<1>11. CASE UploadFails
  <2>1. Unfailed(3) /\ ~summary.uploadVerified
    BY <1>11 DEF UploadFails, SummaryInv, ObjectInv
  <2>2. late' \in {"none", "complete"}
    BY <1>11, UnderWayRange DEF UploadFails
  <2>3. /\ summary \in Summaries /\ (summary).phases = summary.phases
        /\ (summary).uploadVerified = summary.uploadVerified
    BY <1>t
  <2>4. Fails(summary, "upload")
    BY <1>11, <2>2 DEF UploadFails
  <2>5. History' /\ summary'.failedPhase = "upload"
    BY <2>1, <2>3, <2>4, FirstFailure, IndexValues
  <2>6. summary' \in Summaries /\ err' \in Errors /\ ~summary'.uploadVerified
    BY <1>t, <2>1, <2>3, <2>4, FailsShape, IndexValues
  <2>7. TypeOK'
    BY <1>t, <1>11, <2>6, <2>2 DEF UploadFails, TypeOK, Stages, Dumps
  <2>8. SummaryInv'
    BY <1>11, <2>5 DEF UploadFails, SummaryInv
  <2>9. TempInv'
    BY <1>11, <2>5 DEF UploadFails, TempInv
  <2>10. ObjectInv'
    BY <1>11, <2>6 DEF UploadFails, ObjectInv
  <2>11. QED
    BY <2>1, <2>2, <2>3, <2>4, <2>5, <2>6, <2>7, <2>8, <2>9, <2>10
<1>12. CASE HeadFails
  <2>1. Unfailed(3) /\ ~summary.uploadVerified
    BY <1>12 DEF HeadFails, SummaryInv, ObjectInv
  <2>2. /\ summary \in Summaries /\ (summary).phases = summary.phases
        /\ (summary).uploadVerified = summary.uploadVerified
    BY <1>t
  <2>3. Fails(summary, "upload")
    BY <1>12 DEF HeadFails
  <2>4. History' /\ summary'.failedPhase = "upload"
    BY <2>1, <2>2, <2>3, FirstFailure, IndexValues
  <2>5. summary' \in Summaries /\ err' \in Errors /\ ~summary'.uploadVerified
    BY <1>t, <2>1, <2>2, <2>3, FailsShape, IndexValues
  <2>6. TypeOK'
    BY <1>t, <1>12, <2>5 DEF HeadFails, TypeOK, Stages
  <2>7. SummaryInv'
    BY <1>12, <2>4 DEF HeadFails, SummaryInv
  <2>8. TempInv'
    BY <1>12, <2>4 DEF HeadFails, TempInv
  <2>9. ObjectInv'
    BY <1>12, <2>5 DEF HeadFails, ObjectInv
  <2>10. QED
    BY <2>1, <2>2, <2>3, <2>4, <2>5, <2>6, <2>7, <2>8, <2>9
<1>13. CASE HeadMatches
  <2>1. Unfailed(3) /\ object.content = "complete" /\ object.run = run
    BY <1>13 DEF HeadMatches, SummaryInv, ObjectInv
  <2>2. PICK s \in Summaries :
          /\ s.phases = summary.phases /\ s.failedPhase = summary.failedPhase
          /\ s.uploadVerified
          /\ Succeeds(s, "upload") \/ Fails(s, "upload")
    BY <1>t, OtherFields, <1>13 DEF HeadMatches
  <2>3. /\ summary' \in Summaries /\ err' \in Errors /\ summary'.uploadVerified
    BY <1>t, <2>2, SucceedsShape, FailsShape, IndexValues
  <2>4. Unfailed(4)' \/ (History' /\ summary'.failedPhase = "upload")
    BY <2>1, <2>2, PhaseSucceeds, FirstFailure, IndexValues
  <2>5. DumpStored'
    <3>1. object = [run |-> run, content |-> "complete"]
      BY <2>1, <1>t DEF TypeOK, Objects
    <3>2. QED
      BY <1>13, <3>1 DEF HeadMatches, DumpStored
  <2>6. TypeOK'
    BY <1>t, <1>13, <2>3 DEF HeadMatches, TypeOK, Stages
  <2>7. SummaryInv'
    BY <1>13, <2>3, <2>4 DEF HeadMatches, SummaryInv
  <2>8. TempInv'
    BY <1>13 DEF HeadMatches, TempInv
  <2>9. ObjectInv'
    BY <1>13, <2>5 DEF HeadMatches, ObjectInv
  <2>10. QED
    BY <2>6, <2>7, <2>8, <2>9
<1>14. CASE Cleanup
  <2>1. /\ stage = "cleanup" /\ stage' = "notify"
        /\ Succeeds(summary, "cleanup") \/ Fails(summary, "cleanup")
    BY <1>14 DEF Cleanup
  <2>2. summary' \in Summaries /\ err' \in Errors
        /\ summary'.uploadVerified = summary.uploadVerified
    BY <1>t, <2>1, SucceedsShape, FailsShape, IndexValues
  <2>3. (Unfailed(5)' /\ Succeeds(summary, "cleanup") /\ summary.uploadVerified) \/ History'
    <3>1. CASE Unfailed(4) /\ summary.uploadVerified
      BY <1>t, <2>1, <3>1, PhaseSucceeds, FirstFailure, IndexValues
    <3>2. CASE History /\ summary.failedPhase # "cleanup"
      BY <1>t, <2>1, <3>2, HistoryGrows
    <3>3. QED
      BY <2>1, <3>1, <3>2 DEF SummaryInv
  <2>4. temp' # "absent" => History' /\ summary'.phases["cleanup"] = "failure"
    <3>1. SUFFICES ASSUME temp' # "absent"
                   PROVE  History' /\ summary'.phases["cleanup"] = "failure"
      OBVIOUS
    <3>2. Fails(summary, "cleanup")
      BY <1>14, <3>1 DEF Cleanup
    <3>3. summary'.phases["cleanup"] = "failure"
      BY <1>t, <3>2, FailsShape, IndexValues
    <3>4. History'
      <4>1. CASE Unfailed(4)
        BY <1>t, <3>2, <4>1, FirstFailure, IndexValues
      <4>2. CASE History /\ summary.failedPhase # "cleanup"
        BY <1>t, <2>1, <4>2, HistoryGrows
      <4>3. QED
        BY <2>1, <4>1, <4>2 DEF SummaryInv
    <3>5. QED
      BY <3>3, <3>4
  <2>5. TypeOK'
    BY <1>t, <1>14, <2>2 DEF Cleanup, TypeOK, Stages
  <2>6. SummaryInv'
    BY <2>1, <2>2, <2>3 DEF SummaryInv
  <2>7. TempInv'
    BY <2>1, <2>4 DEF TempInv
  <2>8. ObjectInv'
    BY <1>14, <2>2 DEF Cleanup, ObjectInv, DumpStored
  <2>9. QED
    BY <2>5, <2>6, <2>7, <2>8
<1>15. CASE Notify
  <2>1. /\ \A n \in 0..5 : Unfailed(n)' <=> Unfailed(n)
        /\ History' <=> History
    BY <1>15, SameHistory DEF Notify
  <2>2. TypeOK'
    BY <1>t, <1>15 DEF Notify, TypeOK, Stages, Color
  <2>3. SummaryInv'
    BY <1>15, <2>1 DEF Notify, SummaryInv
  <2>4. TempInv'
    BY <1>15, <2>1 DEF Notify, TempInv
  <2>5. ObjectInv'
    BY <1>15 DEF Notify, ObjectInv, DumpStored
  <2>6. QED
    BY <2>1, <2>2, <2>3, <2>4, <2>5
<1>16. CASE TempVanishes
  <2>1. /\ \A n \in 0..5 : Unfailed(n)' <=> Unfailed(n)
        /\ History' <=> History
    BY <1>16, SameHistory DEF TempVanishes
  <2>2. TypeOK'
    BY <1>t, <1>16 DEF TempVanishes, TypeOK, Stages
  <2>3. SummaryInv'
    BY <1>16, SameSummary DEF TempVanishes
  <2>4. TempInv'
    BY <1>16, <2>1 DEF TempVanishes, TempInv
  <2>5. ObjectInv'
    BY <1>16 DEF TempVanishes, ObjectInv, DumpStored
  <2>6. QED
    BY <2>1, <2>2, <2>3, <2>4, <2>5
<1>17. CASE Cancel
  <2>1. /\ \A n \in 0..5 : Unfailed(n)' <=> Unfailed(n)
        /\ History' <=> History
    BY <1>17, SameHistory DEF Cancel
  <2>2. TypeOK'
    <3>1. late' \in {"none", "complete"}
      BY <1>17, UnderWayRange DEF Cancel
    <3>2. QED
      BY <1>t, <1>17, <3>1 DEF Cancel, TypeOK, Stages, Running, Dumps
  <2>3. SummaryInv'
    BY <1>17, SameSummary DEF Cancel
  <2>4. TempInv'
    BY <1>17, <2>1 DEF Cancel, TempInv, Running
  <2>5. ObjectInv'
    BY <1>17 DEF Cancel, ObjectInv, DumpStored, Running
  <2>6. QED
    BY <2>1, <2>2, <2>3, <2>4, <2>5
<1>18. CASE Crash
  <2>1. /\ \A n \in 0..5 : Unfailed(n)' <=> Unfailed(n)
        /\ History' <=> History
    BY <1>18, SameHistory DEF Crash
  <2>2. late' \in {"none", "complete"}
    BY <1>18, UnderWayRange DEF Crash
  <2>3. TypeOK'
    BY <1>t, <1>18, <2>2 DEF Crash, TypeOK, Stages, Running, Dumps
  <2>4. SummaryInv'
    BY <1>18, <2>1 DEF Crash, SummaryInv, Running
  <2>5. TempInv'
    BY <1>18, <2>1 DEF Crash, TempInv, Running
  <2>6. ObjectInv'
    BY <1>18 DEF Crash, ObjectInv, DumpStored, Running
  <2>7. QED
    BY <2>1, <2>2, <2>3, <2>4, <2>5, <2>6
<1>19. CASE NextRun
  <2>1. /\ summary' \in Summaries /\ err' \in Errors /\ ~summary'.uploadVerified
        /\ summary'.failedPhase = "" /\ err' = "nil"
        /\ \A p \in Phases : summary'.phases[p] = "skipped"
    BY <1>19 DEF NextRun, NewSummary, Summaries, Errors
  <2>2. run' \in 1..MaxRuns
    BY <1>t, <1>19, BackupAssumption DEF NextRun, BackupAssumption
  <2>3. Unfailed(0)'
    <3>1. \A p \in Phases : ~(PhaseIndex(p) < 0)
      BY IndexRange
    <3>2. QED
      BY <2>1, <3>1 DEF Unfailed
  <2>4. TypeOK'
    BY <1>t, <1>19, <2>1, <2>2 DEF NextRun, TypeOK, Stages
  <2>5. SummaryInv'
    BY <1>19, <2>3 DEF NextRun, SummaryInv
  <2>6. TempInv'
    BY <1>19 DEF NextRun, TempInv
  <2>7. ObjectInv'
    BY <1>19, <2>1 DEF NextRun, ObjectInv
  <2>8. QED
    BY <2>4, <2>5, <2>6, <2>7
<1>20. CASE UNCHANGED vars
  <2>1. /\ \A n \in 0..5 : Unfailed(n)' <=> Unfailed(n)
        /\ History' <=> History
    BY <1>20, SameHistory DEF vars
  <2>2. TypeOK'
    BY <1>t, <1>20 DEF vars, TypeOK
  <2>3. SummaryInv'
    BY <1>20, SameSummary DEF vars
  <2>4. TempInv' /\ ObjectInv'
    BY <1>20, <2>1 DEF vars, TempInv, ObjectInv, DumpStored
  <2>5. QED
    BY <2>2, <2>3, <2>4
<1>21. CASE Land
  <2>1. /\ \A n \in 0..5 : Unfailed(n)' <=> Unfailed(n)
        /\ History' <=> History
    BY <1>21, SameHistory DEF Land
  <2>2. object' \in Objects
    BY <1>21, LandsWhole DEF Land
  <2>3. TypeOK'
    BY <1>t, <1>21, <2>2 DEF Land, TypeOK, Stages
  <2>4. SummaryInv'
    BY <1>21, SameSummary DEF Land
  <2>5. TempInv'
    BY <1>21, <2>1 DEF Land, TempInv
  <2>6. ObjectInv'
    BY <1>21 DEF Land, ObjectInv, LateInv
  <2>7. QED
    BY <2>3, <2>4, <2>5, <2>6
<1>22. QED
  BY <1>1, <1>2, <1>3, <1>4, <1>5, <1>6, <1>7, <1>8, <1>9, <1>10, <1>11, <1>12,
     <1>13, <1>14, <1>15, <1>16, <1>17, <1>18, <1>19, <1>20, <1>21
     DEF Next, Worker

LEMMA NextIInv == IInv /\ [Next]_vars => IInv'
  BY NextRunInv, NextLateInv DEF IInv

\* The inductive invariant of backup runs: what each stage of runWithDependencies
\* has established about the summary, the temporary file, the object and an upload that
\* is still under way.
THEOREM Invariance == Spec => []IInv
<1>1. QED
  BY InitIInv, NextIInv, PTL DEF Spec

-----------------------------------------------------------------------------
(* What follows.                                                           *)

\* Every run is well typed (runWithDependencies).
THEOREM TypeCorrect == Spec => []TypeOK
<1>1. IInv => TypeOK
  BY DEF IInv, RunInv
<1>2. QED
  BY <1>1, Invariance, PTL

\* "Verified" is true of the object whenever a summary says so (the HEAD check of
\* a validated dump, and no write after it).
THEOREM VerifiedIsStoredHolds == Spec => []VerifiedIsStored
<1>1. IInv => VerifiedIsStored
  BY DEF IInv, RunInv, ObjectInv, VerifiedIsStored
<1>2. QED
  BY <1>1, Invariance, PTL

\* Exit code 0 without help means stored, verified and cleaned up (finish).
THEOREM SuccessMeansStoredHolds == Spec => []SuccessMeansStored
<1>1. IInv => SuccessMeansStored
  <2> SUFFICES ASSUME IInv, stage = "exited", err = "nil"
               PROVE  /\ DumpStored /\ summary.uploadVerified /\ temp = "absent"
                      /\ \A p \in Phases : summary.phases[p] = "success"
    BY DEF SuccessMeansStored, Ended
  <2>1. ~History
    BY DEF History, Phases
  <2>2. Unfailed(5) /\ summary.uploadVerified
    BY <2>1 DEF IInv, RunInv, SummaryInv
  <2>3. DumpStored /\ temp = "absent"
    BY <2>1, <2>2 DEF IInv, RunInv, ObjectInv, TempInv
  <2>4. ASSUME NEW p \in Phases PROVE summary.phases[p] = "success"
    <3>1. PhaseIndex(p) < 5
      BY IndexRange
    <3>2. QED
      BY <2>2, <3>1 DEF Unfailed
  <2>5. QED
    BY <2>2, <2>3, <2>4
<1>2. QED
  BY <1>1, Invariance, PTL

\* The report names the first failure, and the other phases fit (runPhase).
THEOREM ReportTruthfulHolds == Spec => []ReportTruthful
<1>1. IInv => ReportTruthful
  <2> SUFFICES ASSUME IInv, stage = "exited", err \notin {"nil", "help"}
               PROVE  History
    BY DEF ReportTruthful, Ended, History
  <2>1. ~Unfailed(5)
    BY DEF Unfailed
  <2>2. QED
    BY <2>1 DEF IInv, RunInv, SummaryInv
<1>2. QED
  BY <1>1, Invariance, PTL

\* A dump left on the disk is reported (the cleanup phase).
THEOREM TempAccountedHolds == Spec => []TempAccounted
<1>1. IInv => TempAccounted
  <2> SUFFICES ASSUME IInv, stage = "exited", temp # "absent"
               PROVE  err # "nil" /\ summary.phases["cleanup"] = "failure"
    BY DEF TempAccounted, Ended
  <2>1. History /\ summary.phases["cleanup"] = "failure"
    BY DEF IInv, RunInv, TempInv
  <2>2. QED
    BY <2>1 DEF History, Phases
<1>2. QED
  BY <1>1, Invariance, PTL

\* What a step makes of the object, and when (Upload, or an upload that lands late).
LEMMA ReplacementShape ==
    ASSUME IInv, Next, object' # object
    PROVE  /\ stage \in {"upload", "cleanup", "notify", "exited", "crashed"}
           /\ stage = "upload" \/ late # "none"
           /\ summary.phases["validate"] = "success"
           /\ object'.run = run /\ object'.content \in {"complete", "short"}
           /\ object' \in Objects
<1>1. \/ stage = "upload" /\ temp # "absent" /\ object' \in Stored(temp)
      \/ late # "none" /\ object' \in Stored(late)
  BY Zenon DEF Next, Worker, Help, Preflight, PreflightFails, CreateTemp, CreateTempFails,
     DumpReturns, DumpFails, Validate, ValidateFails, Upload, UploadFails, HeadMatches,
     HeadFails, Cleanup, Notify, Land, TempVanishes, Cancel, Crash, NextRun
<1>2. /\ stage \in {"upload", "cleanup", "notify", "exited", "crashed"}
      /\ summary.phases["validate"] = "success"
  BY <1>1, ValidatedAtUpload DEF IInv, RunInv, SummaryInv, LateInv
<1>3. QED
  BY <1>1, <1>2, LandsWhole

\* The stored object is replaced only after dump and validation, by this run's whole
\* dump or by what the store makes of it, whether the run waits for the upload or has
\* failed, been told to stop or gone meanwhile (no upload before they succeeded).
THEOREM ReplacedOnlyByValidDumpHolds == Spec => ReplacedOnlyByValidDump
<1>1. IInv /\ [Next]_vars =>
        [object' # object =>
            /\ summary.phases["validate"] = "success"
            /\ object'.run = run /\ object'.content \in {"complete", "short"}]_vars
  BY ReplacementShape DEF vars
<1>2. QED
  BY <1>1, Invariance, PTL DEF Spec, ReplacedOnlyByValidDump

\* The colour is chosen at the end, from what is then known, and stays.
EmbedInv == embed # "none" => stage = "exited" /\ embed = Color /\ err # "help"

LEMMA EmbedInvariance == Spec => []EmbedInv
<1>1. Init => EmbedInv
  BY DEF Init, EmbedInv
<1>2. IInv /\ EmbedInv /\ [Next]_vars => EmbedInv'
  <2> SUFFICES ASSUME IInv, EmbedInv, [Next]_vars PROVE EmbedInv'
    OBVIOUS
  <2>1. CASE Notify
    <3>1. err # "help"
      BY <2>1 DEF Notify, IInv, RunInv, SummaryInv, Unfailed, History, Phases
    <3>2. Color' = Color
      BY <2>1 DEF Notify, Color
    <3>3. QED
      BY <2>1, <3>1, <3>2 DEF Notify, EmbedInv
  <2>2. CASE TempVanishes \/ Land \/ UNCHANGED vars
    <3>1. UNCHANGED <<stage, err, summary, embed>>
      BY <2>2 DEF TempVanishes, Land, vars
    <3>2. Color' = Color
      BY <3>1 DEF Color
    <3>3. QED
      BY <3>1, <3>2 DEF EmbedInv
  <2>3. CASE NextRun
    BY <2>3 DEF NextRun, EmbedInv
  <2>4. CASE Help \/ Preflight \/ PreflightFails \/ CreateTemp \/ CreateTempFails
             \/ DumpReturns \/ DumpFails \/ Validate \/ ValidateFails \/ Upload
             \/ UploadFails \/ HeadMatches \/ HeadFails \/ Cleanup \/ Cancel \/ Crash
    <3>1. stage # "exited" /\ embed' = embed
      BY <2>4 DEF Help, Preflight, PreflightFails, CreateTemp, CreateTempFails, DumpReturns,
         DumpFails, Validate, ValidateFails, Upload, UploadFails, HeadMatches, HeadFails,
         Cleanup, Cancel, Crash, Running
    <3>2. QED
      BY <3>1 DEF EmbedInv
  <2>5. QED
    BY <2>1, <2>2, <2>3, <2>4 DEF Next, Worker
<1>3. QED
  BY <1>1, <1>2, Invariance, PTL DEF Spec

\* Green, amber and red each say what is true of the run and of the stored object
\* (backupColor, with the summary the last phase leaves).
THEOREM ColorHonestHolds == Spec => []ColorHonest
<1>1. IInv /\ EmbedInv => ColorHonest
  <2> SUFFICES ASSUME IInv, EmbedInv, embed # "none"
               PROVE  /\ embed \in {"green", "amber"} => DumpStored
                      /\ embed = "green" => err = "nil"
                      /\ embed \in {"amber", "red"} => err # "nil" /\ summary.failedPhase # ""
    BY DEF ColorHonest
  <2>1. stage = "exited" /\ embed = Color /\ err # "help"
    BY DEF EmbedInv
  <2>2. (Unfailed(5) /\ summary.uploadVerified) \/ History
    BY <2>1 DEF IInv, RunInv, SummaryInv
  <2>3. summary.uploadVerified => DumpStored
    BY DEF IInv, RunInv, ObjectInv
  <2>4. QED
    BY <2>1, <2>2, <2>3 DEF Color, Unfailed, History, Phases
<1>2. QED
  BY <1>1, EmbedInvariance, Invariance, PTL

\* Whose the object is: until the upload it is an earlier run's.
Early == {"preflight", "create temp", "dump", "validate"}

OwnerInv ==
    /\ object.run \in 0..run
    /\ stage \in Early => object.run # run

\* What the summary knows of the target and of the size: both from the upload on.
KnownInv ==
    /\ stage \in {"create temp", "dump", "validate", "upload", "head"} => summary.identityKnown
    /\ stage \in {"upload", "head"} => summary.sizeAvailable
    /\ object.run = run \/ late # "none" => summary.identityKnown /\ summary.sizeAvailable

\* A phase's end keeps what the summary knows of the target and the size.
LEMMA KnownKept ==
    ASSUME NEW s \in Summaries, NEW phase \in Phases,
           Succeeds(s, phase) \/ Fails(s, phase)
    PROVE  /\ summary'.identityKnown = s.identityKnown
           /\ summary'.sizeAvailable = s.sizeAvailable
  BY DEF Succeeds, Succeeded, Fails, Summaries

\* The object stays, or it is this run's because the run uploads or has uploaded.
LEMMA ObjectStep ==
    ASSUME IInv, [Next]_vars
    PROVE  \/ object' = object
           \/ /\ stage = "upload" \/ late # "none"
              /\ stage \notin Early /\ object'.run = run
<1>1. CASE object' # object
  <2>1. Next
    BY <1>1 DEF vars
  <2>2. QED
    BY <1>1, <2>1, ReplacementShape DEF Early
<1>2. QED
  BY <1>1

\* An upload comes under way while the run uploads.
LEMMA LateStep ==
    ASSUME [Next]_vars
    PROVE  late' \in {late, "none"} \/ stage = "upload"
  BY DEF Next, Worker, vars, Help, Preflight, PreflightFails, CreateTemp,
     CreateTempFails, DumpReturns, DumpFails, Validate, ValidateFails, Upload, UploadFails,
     HeadMatches, HeadFails, Cleanup, Notify, Land, TempVanishes, Cancel, Crash, NextRun,
     UnderWay

LEMMA OwnerInvariance == Spec => []OwnerInv
<1>1. Init => OwnerInv
  BY DEF Init, OwnerInv, Early
<1>2. IInv /\ OwnerInv /\ [Next]_vars => OwnerInv'
  <2> SUFFICES ASSUME IInv, OwnerInv, [Next]_vars PROVE OwnerInv'
    OBVIOUS
  <2>0. run \in Nat
    BY BackupAssumption DEF BackupAssumption, IInv, RunInv, TypeOK
  <2>1. CASE NextRun
    <3>1. run' = run + 1 /\ object' = object
      BY <2>1 DEF NextRun
    <3>2. object.run \in Int
      BY <2>0 DEF OwnerInv
    <3>3. QED
      BY <2>0, <3>1, <3>2 DEF OwnerInv
  <2>2. CASE ~NextRun
    <3>1. run' = run /\ (stage' \in Early => stage \in Early)
      BY <2>2 DEF Next, Worker, vars, Early, Help, Preflight, PreflightFails, CreateTemp,
         CreateTempFails, DumpReturns, DumpFails, Validate, ValidateFails, Upload, UploadFails,
         HeadMatches, HeadFails, Cleanup, Notify, Land, TempVanishes, Cancel, Crash
    <3>2. QED
      BY <2>0, <3>1, ObjectStep DEF OwnerInv
  <2>3. QED
    BY <2>1, <2>2
<1>3. QED
  BY <1>1, <1>2, Invariance, PTL DEF Spec

\* A step that changes none of what the summary knows, by the stage it leads to.
LEMMA KnownStep ==
    ASSUME IInv, KnownInv, [Next]_vars, run' = run,
           summary'.identityKnown = summary.identityKnown,
           summary'.sizeAvailable = summary.sizeAvailable,
           \/ stage' \notin {"create temp", "dump", "validate", "upload", "head"}
           \/ stage' = stage
           \/ stage = "create temp" /\ stage' = "dump"
           \/ stage = "dump" /\ stage' = "validate"
           \/ stage = "upload" /\ stage' = "head"
    PROVE  KnownInv'
<1>1. object'.run = run => object.run = run \/ stage = "upload" \/ late # "none"
  BY ObjectStep
<1>2. late' # "none" => late # "none" \/ stage = "upload"
  BY LateStep
<1>3. QED
  BY <1>1, <1>2, Zenon DEF KnownInv

LEMMA KnownInvariance == Spec => []KnownInv
<1>1. Init => KnownInv
  <2> SUFFICES ASSUME Init PROVE stage = "preflight" /\ object.run # run /\ late = "none"
    BY DEF KnownInv
  <2>1. QED
    BY DEF Init
<1>2. IInv /\ OwnerInv /\ KnownInv /\ [Next]_vars => KnownInv'
  <2> SUFFICES ASSUME IInv, OwnerInv, KnownInv, [Next]_vars PROVE KnownInv'
    OBVIOUS
  <2>0. /\ summary \in Summaries /\ run \in Nat
        /\ \A p \in {"preflight", "dump", "validate", "upload", "cleanup"} : p \in Phases
    BY BackupAssumption DEF BackupAssumption, IInv, RunInv, TypeOK, Phases
  <2>1. CASE Preflight
    <3>1. [summary EXCEPT !.identityKnown = TRUE] \in Summaries
      BY <2>0 DEF Summaries
    <3>2. summary'.identityKnown
      BY <2>1, <3>1, <2>0, KnownKept DEF Preflight, Summaries
    <3>3. stage' = "create temp" /\ object'.run # run' /\ late' = "none"
      BY <2>1 DEF Preflight, OwnerInv, Early, IInv, LateInv
    <3>4. QED
      BY <3>2, <3>3 DEF KnownInv
  <2>2. CASE Validate
    <3>1. [summary EXCEPT !.sizeAvailable = TRUE] \in Summaries
      BY <2>0 DEF Summaries
    <3>2. summary'.sizeAvailable /\ summary'.identityKnown = summary.identityKnown
      BY <2>2, <3>1, <2>0, KnownKept DEF Validate, Summaries
    <3>3. summary.identityKnown
      BY <2>2 DEF Validate, KnownInv
    <3>4. QED
      BY <3>2, <3>3 DEF KnownInv
  <2>3. CASE ValidateFails \/ PreflightFails
    <3>1. /\ stage' \in {"cleanup", "notify"} /\ object'.run # run' /\ late' = "none"
      BY <2>3 DEF ValidateFails, PreflightFails, OwnerInv, Early, IInv, LateInv
    <3>2. QED
      BY <3>1 DEF KnownInv
  <2>4. CASE HeadMatches
    <3>1. [summary EXCEPT !.uploadVerified = TRUE] \in Summaries
      BY <2>0 DEF Summaries
    <3>2. /\ summary'.sizeAvailable = summary.sizeAvailable
          /\ summary'.identityKnown = summary.identityKnown
      BY <2>4, <3>1, <2>0, KnownKept DEF HeadMatches, Summaries
    <3>3. QED
      BY <2>4, <3>2, KnownStep DEF HeadMatches
  <2>5. CASE CreateTempFails \/ DumpFails \/ DumpReturns \/ UploadFails \/ HeadFails \/ Cleanup
    <3>1. /\ summary'.sizeAvailable = summary.sizeAvailable
          /\ summary'.identityKnown = summary.identityKnown
      BY <2>5, <2>0, KnownKept
         DEF CreateTempFails, DumpFails, DumpReturns, UploadFails, HeadFails, Cleanup
    <3>2. /\ run' = run
          /\ \/ stage' \in {"cleanup", "notify"}
             \/ stage = "dump" /\ stage' = "validate"
      BY <2>5 DEF CreateTempFails, DumpFails, DumpReturns, UploadFails, HeadFails, Cleanup
    <3>3. QED
      BY <3>1, <3>2, KnownStep
  <2>6. CASE NextRun
    <3>1. stage' = "preflight" /\ object'.run # run' /\ late' = "none"
      BY <2>0, <2>6 DEF NextRun, OwnerInv
    <3>2. QED
      BY <3>1 DEF KnownInv
  <2>7. CASE Help \/ CreateTemp \/ Upload \/ Notify \/ Land \/ TempVanishes \/ Cancel \/ Crash
             \/ UNCHANGED vars
    <3>1. /\ UNCHANGED <<summary, run>>
          /\ \/ stage' \in {"exited", "crashed", stage}
             \/ stage = "create temp" /\ stage' = "dump"
             \/ stage = "upload" /\ stage' = "head"
      BY <2>7 DEF Help, CreateTemp, Upload, Notify, Land, TempVanishes, Cancel, Crash, vars
    <3>2. QED
      BY <3>1, KnownStep
  <2>8. QED
    BY <2>1, <2>2, <2>3, <2>4, <2>5, <2>6, <2>7 DEF Next, Worker
<1>3. QED
  BY <1>1, <1>2, Invariance, OwnerInvariance, PTL DEF Spec

\* An embed that was sent names object and size whenever this run may have replaced the
\* object, shows a removal that failed, and names a failed phase exactly if the run
\* failed (backupEmbed of the summary the last phase leaves).
THEOREM EmbedSufficesHolds == Spec => []EmbedSuffices
<1>1. IInv /\ EmbedInv /\ KnownInv => EmbedSuffices
  <2> SUFFICES ASSUME IInv, EmbedInv, KnownInv, embed # "none"
               PROVE  /\ object.run = run => /\ BackupEmbed.identity = "name"
                                             /\ BackupEmbed.size = "size"
                      /\ temp # "absent" => BackupEmbed.timing["cleanup"] = "time, failed"
                      /\ BackupEmbed.verified => DumpStored
                      /\ BackupEmbed.failedPhase # ""
                             <=> BackupEmbed.description # "succeeded"
    BY DEF EmbedSuffices, Sent
  <2>1. /\ stage = "exited"
        /\ (Unfailed(5) /\ summary.uploadVerified) \/ History
    BY DEF EmbedInv, IInv, RunInv, SummaryInv
  <2>2. object.run = run => BackupEmbed.identity = "name" /\ BackupEmbed.size = "size"
    BY DEF KnownInv, BackupEmbed, IdentityValue, SizeText
  <2>3. ASSUME temp # "absent" PROVE BackupEmbed.timing["cleanup"] = "time, failed"
    <3>1. summary.phases["cleanup"] = "failure"
      BY <2>1, <2>3 DEF IInv, RunInv, TempInv
    <3>2. BackupPhaseText("cleanup") = "time, failed"
      BY <3>1 DEF BackupPhaseText
    <3>3. QED
      BY <3>2 DEF BackupEmbed, Phases
  <2>4. BackupEmbed.verified => DumpStored
    BY DEF IInv, RunInv, ObjectInv, BackupEmbed
  <2>5. summary.failedPhase # "" <=> err # "nil"
    BY <2>1 DEF Unfailed, History, Phases
  <2>6. Description # "succeeded" <=> err # "nil"
    BY DEF Description
  <2>7. QED
    BY <2>2, <2>3, <2>4, <2>5, <2>6 DEF BackupEmbed
<1>2. QED
  BY <1>1, EmbedInvariance, KnownInvariance, Invariance, PTL

-----------------------------------------------------------------------------
(* The download next to the backups.                                       *)

\* What is ever under the key: backups put whole dumps, the store may cut them.
Kept(o) == o \in Objects /\ o.content \in {"none", "short", "complete"}

\* What the download knows at each stage.
ReaderInv ==
    /\ Kept(object) /\ Kept(logged) /\ Kept(response.of)
    /\ reader \in Reader!ReaderStages
    /\ response.tellsLength \in BOOLEAN /\ onDisk \in BOOLEAN /\ removeFailed \in BOOLEAN
    /\ response \in [of : Objects, tellsLength : BOOLEAN]
    /\ written \in 0..Reader!Length(response.of)
    /\ dump \in [etag : 0..MaxRuns, size : 0..Chunks]
    /\ reader \in {"head", "get", "create", "chmod"} => written = 0
    /\ reader \in {"head", "get", "create"} => ~onDisk
    /\ reader \in {"held", "released"} =>
         /\ response.of.content = "complete" /\ written = Chunks
         /\ dump = [etag |-> response.of.run, size |-> written]
    /\ reader \in {"failed", "released"} /\ onDisk => removeFailed

DInv == IInv /\ ReaderInv

-----------------------------------------------------------------------------

LEMMA LengthRange ==
    ASSUME NEW o, Kept(o)
    PROVE  /\ Reader!Length(o) \in 0..Chunks
           /\ o.content = "complete" => Reader!Length(o) = Chunks
           /\ o.content = "none" => Reader!Length(o) = 0
  BY DeliveryAssumption DEF DeliveryAssumption, Kept, Reader!Length

\* The two jobs share the object, and nothing else of BackupRun is read or written.
LEMMA WriterStep ==
    ASSUME DInv, [Next]_vars, UNCHANGED readerVars
    PROVE  DInv'
<1>1. IInv'
  BY NextIInv DEF DInv
<1>2. Kept(object)'
  <2>1. CASE object' = object
    BY <2>1 DEF DInv, ReaderInv, Kept
  <2>2. CASE object' # object
    <3>1. Next
      BY <2>2 DEF vars
    <3>2. object' \in Objects /\ object'.content \in {"complete", "short"}
      BY <2>2, <3>1, ReplacementShape DEF DInv
    <3>3. QED
      BY <3>2 DEF Kept
  <2>3. QED
    BY <2>1, <2>2
<1>3. ReaderInv'
  BY <1>2 DEF DInv, ReaderInv, readerVars, Kept
<1>4. QED
  BY <1>1, <1>3 DEF DInv

\* Steps of the download that leave object, response, file and dump as they are.
LEMMA MoveKeeps ==
    ASSUME DInv, NEW next \in {"copy", "close", "validate"}, Reader!Goto(next),
           reader \notin {"head", "get", "create"}
    PROVE  ReaderInv'
  BY DEF DInv, ReaderInv, Reader!Goto, Reader!ReaderStages, Kept

LEMMA ReaderStep ==
    ASSUME DInv, Reader!ReaderNext, UNCHANGED vars
    PROVE  DInv'
<1> USE DEF DInv
<1>0. IInv'
  BY NextIInv
<1>1. CASE Reader!HeadReturns
  BY <1>0, <1>1 DEF Reader!HeadReturns, ReaderInv, Reader!ReaderStages, Kept
<1>2. CASE Reader!GetReturns
  <2>1. /\ response' \in [of : Objects, tellsLength : BOOLEAN]
        /\ response'.of = object /\ response'.tellsLength \in BOOLEAN
    BY <1>2 DEF Reader!GetReturns, ReaderInv, Kept
  <2>2. Kept(response.of)' /\ Kept(object)' /\ Kept(logged)'
    BY <1>2, <2>1 DEF Reader!GetReturns, ReaderInv, Kept
  <2>3. reader' = "create" /\ written' = 0
        /\ UNCHANGED <<onDisk, removeFailed, dump>> /\ reader = "get"
    BY <1>2 DEF Reader!GetReturns, ReaderInv
  <2>4. 0 \in 0..Reader!Length(response'.of)
    BY <2>2, LengthRange, DeliveryAssumption DEF DeliveryAssumption
  <2>5. written' \in 0..Reader!Length(response.of)'
    BY <2>3, <2>4
  <2>6. QED
    BY <1>0, <2>1, <2>2, <2>3, <2>5 DEF ReaderInv, Reader!ReaderStages
<1>3. CASE Reader!FailsEarly
  BY <1>0, <1>3 DEF Reader!FailsEarly, Reader!Goto, ReaderInv, Reader!ReaderStages, Kept
<1>4. CASE Reader!CreateTemp
  BY <1>0, <1>4 DEF Reader!CreateTemp, ReaderInv, Reader!ReaderStages, Kept
<1>5. CASE Reader!Chmod
  BY <1>0, <1>5, MoveKeeps DEF Reader!Chmod
<1>6. CASE Reader!CopyChunk
  <2>1. Reader!Length(response.of) \in 0..Chunks
    BY LengthRange DEF ReaderInv
  <2>2. written' \in 0..Reader!Length(response.of)
    BY <1>6, <2>1, DeliveryAssumption
       DEF DeliveryAssumption, Reader!CopyChunk, ReaderInv
  <2>3. QED
    BY <1>0, <1>6, <2>2 DEF Reader!CopyChunk, ReaderInv, Reader!ReaderStages, Kept
<1>7. CASE Reader!CopyEnds
  BY <1>0, <1>7, MoveKeeps DEF Reader!CopyEnds
<1>8. CASE Reader!CloseTemp
  BY <1>0, <1>8, MoveKeeps DEF Reader!CloseTemp
<1>9. CASE Reader!FailsWithFile
  BY <1>0, <1>9 DEF Reader!FailsWithFile, ReaderInv, Reader!ReaderStages, Kept
<1>10. CASE Reader!Validate
  \* A cut dump with a good trailer is never under the key.
  <2>1. response.of.content = "complete" /\ written = Reader!Length(response.of)
    BY <1>10 DEF Reader!Validate, Reader!WholeStream, ReaderInv, Kept
  <2>2. Reader!Length(response.of) = Chunks
    BY <2>1, LengthRange DEF ReaderInv
  <2>3. dump' = [etag |-> response.of.run, size |-> written]
    BY <1>10, <2>1 DEF Reader!Validate
  <2>4. dump' \in [etag : 0..MaxRuns, size : 0..Chunks]
    <3>1. response.of.run \in 0..MaxRuns
      BY DEF ReaderInv, Kept, Objects
    <3>2. written \in 0..Chunks
      BY <2>1, <2>2, DeliveryAssumption DEF DeliveryAssumption
    <3>3. QED
      BY <2>3, <3>1, <3>2
  <2>5. /\ reader' = "held"
        /\ UNCHANGED <<object, logged, response, written, onDisk, removeFailed>>
    BY <1>10 DEF Reader!Validate
  <2>6. QED
    BY <1>0, <2>1, <2>2, <2>3, <2>4, <2>5 DEF ReaderInv, Reader!ReaderStages, Kept
<1>11. CASE Reader!Release
  BY <1>0, <1>11 DEF Reader!Release, ReaderInv, Reader!ReaderStages, Kept
<1>12. CASE Reader!FileVanishes
  <2>1. /\ onDisk' = FALSE /\ reader \notin {"failed", "released"}
        /\ UNCHANGED <<object, reader, logged, response, written, removeFailed, dump>>
    BY <1>12 DEF Reader!FileVanishes
  <2>2. ReaderInv
    OBVIOUS
  <2>3. ReaderInv'
    <3>1. /\ Kept(object)' /\ Kept(logged)' /\ Kept(response.of)'
          /\ response' \in [of : Objects, tellsLength : BOOLEAN]
      BY ONLY <2>1, <2>2 DEF ReaderInv, Kept
    <3>2. /\ reader' \in Reader!ReaderStages /\ response'.tellsLength \in BOOLEAN
          /\ onDisk' \in BOOLEAN /\ removeFailed' \in BOOLEAN
          /\ written' \in 0..Reader!Length(response.of)'
          /\ dump' \in [etag : 0..MaxRuns, size : 0..Chunks]
      BY ONLY <2>1, <2>2 DEF ReaderInv
    <3>3. /\ reader' \in {"head", "get", "create", "chmod"} => written' = 0
          /\ reader' \in {"held", "released"} =>
               /\ response'.of.content = "complete" /\ written' = Chunks
               /\ dump' = [etag |-> response'.of.run, size |-> written']
      BY ONLY <2>1, <2>2 DEF ReaderInv
    <3>4. QED
      BY ONLY <2>1, <3>1, <3>2, <3>3 DEF ReaderInv, Reader!ReaderStages
  <2>4. QED
    BY <1>0, <2>3
<1>13. QED
  BY <1>0, <1>1, <1>2, <1>3, <1>4, <1>5, <1>6, <1>7, <1>8, <1>9, <1>10, <1>11, <1>12
     DEF Reader!ReaderNext

LEMMA InitDInv == DeliveryInit => DInv
<1> SUFFICES ASSUME DeliveryInit PROVE DInv
  OBVIOUS
<1>1. IInv
  BY InitIInv DEF DeliveryInit
<1>2. Kept(object)
  BY <1>1 DEF DeliveryInit, Init, Kept, IInv, RunInv, TypeOK
<1>3. Reader!Nothing \in Objects
  BY BackupAssumption DEF BackupAssumption, Reader!Nothing, Objects
<1>4. Kept(logged) /\ Kept(response.of)
  BY <1>3 DEF DeliveryInit, Reader!ReaderInit, Reader!Nothing, Kept
<1>5. 0 \in 0..Reader!Length(response.of)
  BY <1>4, LengthRange, DeliveryAssumption DEF DeliveryAssumption
<1>6. dump \in [etag : 0..MaxRuns, size : 0..Chunks]
  BY BackupAssumption, DeliveryAssumption
     DEF BackupAssumption, DeliveryAssumption, DeliveryInit, Reader!ReaderInit
<1>7. QED
  BY <1>1, <1>2, <1>3, <1>4, <1>5, <1>6
     DEF DInv, ReaderInv, DeliveryInit, Reader!ReaderInit, Reader!ReaderStages

LEMMA DeliveryInvariance == DeliverySpec => []DInv
<1>1. DInv /\ [DeliveryNext]_deliveryVars => DInv'
  <2> SUFFICES ASSUME DInv, [DeliveryNext]_deliveryVars PROVE DInv'
    OBVIOUS
  <2>1. CASE Next /\ UNCHANGED readerVars
    BY <2>1, WriterStep
  <2>2. CASE Reader!ReaderNext /\ UNCHANGED vars
    BY <2>2, ReaderStep
  <2>3. CASE UNCHANGED deliveryVars
    BY <2>3, WriterStep DEF deliveryVars
  <2>4. QED
    BY <2>1, <2>2, <2>3 DEF DeliveryNext
<1>2. QED
  BY <1>1, InitDInv, PTL DEF DeliverySpec

-----------------------------------------------------------------------------
(* What follows.                                                           *)

\* Both jobs stay well typed (io.Copy ends with the response).
THEOREM DeliveryTypeCorrect == DeliverySpec => []DeliveryTypeOK
<1>1. DInv => DeliveryTypeOK
  <2> SUFFICES ASSUME DInv PROVE DeliveryTypeOK
    OBVIOUS
  <2>1. \A o \in Objects : o.content \in {"none", "short", "complete"} => o \in Reader!Stored
    BY DEF Objects, Reader!Stored
  <2>2. logged \in Reader!Stored /\ response.of \in Reader!Stored
    BY <2>1 DEF DInv, ReaderInv, Kept
  <2>3. response \in [of : Reader!Stored, tellsLength : BOOLEAN]
    BY <2>2 DEF DInv, ReaderInv
  <2>4. QED
    BY <2>2, <2>3 DEF DInv, IInv, RunInv, ReaderInv, DeliveryTypeOK
<1>2. QED
  BY <1>1, DeliveryInvariance, PTL

\* A dump handed over for a restore is a whole one, by the guards of both commands
\* together (dump.go of the backup, validateGzipStream of the restore-test).
THEOREM DeliveredIsWholeHolds == DeliverySpec => []DeliveredIsWhole
<1>1. DInv => DeliveredIsWhole
  BY DEF DInv, ReaderInv, DeliveredIsWhole
<1>2. QED
  BY <1>1, DeliveryInvariance, PTL

\* The report's ETag and size are those of the restored file, whatever backups do
\* meanwhile (DownloadAndExtract).
THEOREM ReportMatchesFileHolds == DeliverySpec => []ReportMatchesFile
<1>1. DInv => ReportMatchesFile
  BY DEF DInv, ReaderInv, ReportMatchesFile
<1>2. QED
  BY <1>1, DeliveryInvariance, PTL

\* A file stays behind only when its removal failed (DownloadAndExtract, cleanup).
THEOREM LeftOnlyIfRemoveFailedHolds == DeliverySpec => []LeftOnlyIfRemoveFailed
<1>1. DInv => LeftOnlyIfRemoveFailed
  BY DEF DInv, ReaderInv, LeftOnlyIfRemoveFailed
<1>2. QED
  BY <1>1, DeliveryInvariance, PTL
=============================================================================
