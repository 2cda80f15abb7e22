# A TLA+ development of kinakomate

kinakomate is a Go command with two jobs. `backup` writes a gzip-compressed SQL
dump of a Misskey database to one S3 object. `restore-test` proves that object
usable: it stops a Misskey web workload in Kubernetes, drops and recreates a test
database, restores the dump, analyzes it, starts web, asks it for its timeline,
and stops everything again. Both report in a structured log, an exit code and a
Discord notification.

Neither job computes much. What can be wrong is control: which of twenty-odd
calls to four outside systems happen after one of them failed, what is left
running or lying about, and whether the three reports tell the truth about it.
That is what these modules model. Paths below are relative to `src/`.

## Inventory

| Component | State | Operations | What is hard | What makes it correct |
|---|---|---|---|---|
| restore-test orchestration, `internal/restore/restore.go`, `runner.go` | position in the workflow, the error returned, the staged dump, the signal context | preflight, 21 steps in four groups, recovery, deferred removal, final report | any call fails, and what it asked for comes at once, later or never; a signal or a crash at any point; recovery fails as well; calls without a time limit | exit 0 means restored, analyzed, stopped and removed; web is left up in silence only where the program cannot know |
| bookkeeping, `internal/restore/result.go` | `executionResult` | begin / complete / fail a phase, recovery and cleanup outcomes, report and summary | cleanup is both a phase and the recovery; first error against later ones | report, summary and exit code agree |
| Kubernetes client, `k8sclient.go` | none (the cluster) | version check, read, Scale with conflict retry, WaitForReplicas | controllers write the same objects; an update lands after its caller gave up; status lags | a scale that moves the object stands, nobody else's write is lost, every call that is answered ends |
| database client, `db.go` | none (the server) | connection check, Reset in three statements, Restore, size, Analyze | each statement is a run of psql; Restore has two goroutines, a pipe and a process | nil means the whole dump is committed |
| dump download, `s3.go`, `dump.go` | the staged file | head, download, validate, remove | partial files; a backup replaces the object meanwhile | only a whole dump is handed over, and reported as what it is |
| Misskey checks, `misskey_api.go` | attempts and three timers | readiness, timeline with retries | the answer races with timeouts and the signal | ends in time, and for the right reason |
| backup orchestration, `internal/backup/backup.go`, `result.go`, `validate.go` | the phase, `RunSummary`, the temporary file | preflight, dump, validate, upload and HEAD, cleanup | lost answers, partial failure, a valid gzip of half a dump | the stored object is the whole dump whenever a report says so |
| pg_dump pipeline, `internal/backup/dump.go` | process, pipe, gzip stream | copy, kill, wait, close | three actors; everyone waiting on everyone | nil means everything is on disk; no process left; an end |
| object store of the backup, `internal/backup/s3.go`, `internal/storage/s3.go` | none (the bucket) | upload, HEAD | an upload that fails may have replaced, or may yet replace, the object | compared before it is called verified |
| command line, `cmd/kinakomate/main.go` | none | dispatch, signals, mapping to notifications | the two commands treat help differently | the notification says what the run knows |
| configuration, `internal/config/config.go` | none (the environment) | LoadFromEnv, LoadBackupFromEnv | 64-bit nanoseconds, 32-bit milliseconds; two loaders with different rules | accepted timeouts are as asked; each message names what to repair |
| Discord notification, `internal/notification/discord.go` | none | text, embed, bounded rendering, one request | cutting escaped text; lines merged from two outcomes | says what is left to do; no name breaks the message |
| logging, `internal/log/log.go` | none | constructor | | |

The components meet in calls, made one after the other by one goroutine; the
exceptions are `dump()`, which runs beside a process and a goroutine of `os/exec`,
and the waiting loops of the Misskey client. State is shared only outside: the
cluster's objects, the database, the bucket and the temporary directory.
`PROJECT.json` lists every hazard with its line and the properties aimed at it.

## Modules

| Module | What it is |
|---|---|
| `ExecutionResult` | the record of `result.go` and its methods as functions from record to record |
| `Cluster` | the outside of restore-test: two workloads with spec, pod and reported status, the database, the web process's session |
| `RestoreOutcome` | what `Restore` promises of the new database |
| `RestoreRun` | consecutive runs of restore-test on that cluster; extends the three modules above |
| `RestoreContract` | the abstract specification: verdicts, web, data and alarm of a series of restore tests |
| `RestoreRefinement` | the mapping under which `RestoreRun` implements `RestoreContract` |
| `RestoreMessage` | the text of the restore notification, over `RestoreRun` |
| `PsqlRestore` | one call of `Restore` in detail: feeding goroutine, pipe, psql, transaction, context |
| `K8sClient` | calls of Scale and WaitForReplicas against an API server with optimistic locking |
| `MisskeyApi` | one readiness or timeline check against a clock |
| `DumpOutcome` | what a dump file can be and what `dump()` promises |
| `DumpPipe` | one call of `dump()` in detail: pg_dump, pipe, copy loop, gzip writer, context |
| `BackupRun` | consecutive runs of backup on one S3 object; its dump step is `DumpOutcome` |
| `BackupMessage` | the embed of the backup notification, over `BackupRun` |
| `Download` | one download of restore-test: HEAD, GET, staging, validation, removal |
| `Delivery` | `BackupRun` and `Download` around one object |
| `Config` | both loaders over an environment that an operator edits |
| `DiscordText` | the loop that renders a name within a field's limit |
| `RestoreRunProofs`, `PsqlRestoreProofs`, `MisskeyApiProofs`, `DumpPipeProofs`, `BackupRunProofs`, `K8sClientProofs`, `ConfigProofs`, `DiscordTextProofs` | theorems about the module of that name; those of `RestoreRun` are also about `RestoreRefinement` and `RestoreMessage`, those of `BackupRun` also about `BackupMessage` and `Delivery` |
| `MCRestoreRun`, `MCDelivery` and the other `MC` modules | the instances TLC checks; the first two join the messages to the runs |

Detail and whole are kept apart by promises. `RestoreRun` takes the restore as any
of `RestoreOutcomes` and `BackupRun` the dump as any of `DumpOutcomes`;
`PsqlRestore` and `DumpPipe` show that the calls return one of them. Likewise
`RestoreRun` takes a Misskey check as "nil or an error, in finite time", which
`MisskeyApi` shows, and a `Scale` as in `K8sClient`: nil means one update that has
happened; after an error the update may have happened, may still come, or never comes, and
one that comes late is refused if the object has moved meanwhile. `Delivery` composes the
two jobs.

### State and code

`RestoreRun.stage` and `step` are the program counter of `runWithSummaryLogger` and
`runWithResult`; the step names are in the order of the four group slices of
`runner.go:140-205`. `result` is the `*executionResult`, `err` the error returned (by its
origin, not its text), `tempFile` the file the download staged. A call to an outside
system is one action taken when it returns. One that returns nil has done what it was for.
One that returns an error (`StepFails`), loses its process (`Crash`), or belongs to a
recovery that fails may have sent its request: `GiveUp` puts the request into `late`, and
`Land` is its effect on the cluster or the database, at once, behind any of the steps that
follow, after the run has ended, or never. So a signal that finds a COMMIT or an update on
its way is `Cancel`, then a failing call, then `Land` whenever the other side gets to it.
Once the signal context is done, a call that hands it on does not return nil (`Refused`);
one that answers nil all the same is as if the signal had come after it. A scaling request
carries the resourceVersion its caller read: it is dropped from `late` when the object is
moved by somebody else (`Standing`), and kept when a later write changes nothing. `Reset`
is split into its three psql runs, since a crash and the web process can come between
them.

`Cluster` lets a workload's pod start, become ready or unready, terminate and go,
and lets the status that the API reports follow later, each as a step of its own.
A pod told to stop leaves the ready count while it still runs; the web process may
connect and migrate as long as it does.

`RestoreContract` knows no calls. Data goes from `old` or `none` to `whole` to `good` and
only while web is asked to be down; web is raised only on good data; a run ends well only
with good data and web down; a failure after initialization ends with web down or raises
an alarm. A run that gave up on raising web is in `doubt`: that may still happen, so such
a run cannot end well, and its failure owes no alarm. The mapping reads the verdict off
the exit code, the alarm off the summary, what the data is worth off the database, and the
doubt off the step at which the run failed.

In `PsqlRestore` the dump is a number of statements. `caller` is where `psqlRun`
is in `cmd.Run` (start, wait for the process, join the goroutines), `feeder` the
goroutine that `os/exec` starts for a standard input that is not a file, `tx` the
transaction as the server has it. The end of psql's input is all it learns of the
end of the dump. In `K8sClient` a request in `flight` is processed when the server
gets to it, whether its caller still waits (`pc = "sent"`) or not; `note` stands
for whatever controllers write into the object besides the status, and `rv` for the
resourceVersion, which a write without a change does not move. `MisskeyApi.pc` is
the place in the loop, `ctxErr` the `Err()` of the check's context, which keeps its
first cause; the clock stands while the program can go on, and runs while it waits
for an answer or a timer.

`BackupRun` has one stage per call of `runWithDependencies` that changes something.
`summary` is `RunSummary` without sizes and times, `Fails` / `Succeeds` are
`runPhase`. An object is the pair of the run that put it and its content: `short`
stands for a store that keeps less than it was sent, which is what the HEAD
comparison is there for. An upload that fails, is told to stop or loses its process while
its file is on the way (`UnderWay`) may be `late`, and replaces the object in one step whenever the
store has received it (`Land`). In `DumpPipe` the SQL is a number of blocks; `worker` is
the position in `dump()`, `child` the process, which becomes a zombie on exit and
is gone only when `Wait` has reaped it. `Download.reader` is the position in
`DownloadAndExtract` and afterwards the state of the `Dump`; `response` is the
version of the object GET answered with.

`Config` holds the environment as what a loader can tell of each setting (unset,
blank, plain, padded, malformed, a URL whose path trails off in white space, which
`url.Parse` accepts; a number of seconds by its value). The checks of a
loader are a sequence in the order of the code, each with the setting its message
names, so that "the first failing check" is the error returned. `DiscordText` takes
one rune per step and remembers of each byte in the builder which byte of which
rune it is, so that a cut in the middle of one would show. `RestoreMessage` and
`BackupMessage` have no state of their own: they are the formatting functions,
looked at in every state in which a message is sent.

Operators named for a mistake (`NeverRefused`, `WaitWithoutKill`,
`CleanupOnSuccessOnly` and the like) are not part of the specifications. Each is
the definition that follows it with a plausible bug, and stands there to show that
the property named for it in `PROJECT.json` would notice.

## Runs

| Run | Question | Bounds | Fairness |
|---|---|---|---|
| `restore_faults` | Do exit code, report, summary and the lines of the notification hold good under every failing call, late request, signal and crash, and is the contract implemented? | 2 runs, all disturbances, any resting cluster | none |
| `restore_live` | Where can a run hang if nobody answers and pods flap, and does a signal get it on? | 1 run, faults and signal | the process, but at calls without a time limit |
| `restore_clean` | Does a run succeed on whatever database was left, if nothing goes wrong? | 2 runs, no disturbances | process, with every call answered, and controllers |
| `restore_stop_wait` | Is the stop of web waited for, as the README says? (It is not.) | 1 run, no disturbances | none |
| `psql_restore` | Does Restore return nil only with the whole dump committed, and end on a signal although psql or the server hangs? | 4 statements, pipe of 2 | the caller, the feeder, the context's kill |
| `psql_read_error` | Is no part of a dump ever committed, as the comment on Restore says? (It can be.) | 4 statements, pipe of 2 | none |
| `k8s_calls` | Does a scale that moved the object stand although updates land late, does a conflict need five changes by others, is nothing of anybody else's overwritten, does every call that is answered end? | 2 calls, 5 foreign writes | the client, the server, the wait's deadline |
| `misskey_check` | Does a check end in time with a true verdict, one request per interval, at once on a signal, and at all if nobody answers? | request 3, pause 2, check 11 | program and clock |
| `backup_faults` | Is the stored object what exit code, report and embed say, is the last good one safe though an upload lands late, and is what restore-test is handed meanwhile a whole dump, reported as such? | 3 backup runs with all disturbances, 1 download, 2 chunks | none |
| `dump_pipe` | Does `dump()` return nil only with the whole SQL, leave no process, and end although pg_dump hangs? | 4 blocks, pipe of 2 | worker and context kill |
| `config_load` | Are accepted timeouts as asked, and does each message lead on? | 2 settings off; 6-bit and 12 ms limits | none |
| `discord_text` | Does a field show as much of a name as fits, whole, and nothing that breaks the field? | 5 runes of 7 kinds, limit 9 | none |

Bounds. Every run of a command starts from a state that depends on earlier runs only
through the cluster, the database and the object, and `Init` of `RestoreRun` covers every
resting cluster already; a second run adds the clusters in motion that a crashed run
leaves. Three backup runs give an object that is older than the previous one. A pipe
shorter than the dump is needed to block pg_dump, and the feeder of psql; two of four is
the smallest case that both blocks and drains in several steps. For Kubernetes two calls
are the least with a late update of the first that meets the second, and five foreign
writes are what it takes to use up the five attempts, with none to spare. In
`misskey_check` the check's timeout is no multiple of the others and holds several rounds,
so that its deadline falls into a request, into a pause, and between them. `Config` has
its own small clock (2 ns to the ms, 2 ms to the s) and small integers; `MCNumbers` has
the values at both ends of both widths and those that wrap around to a plausible positive
number. Two settings off at once are what it takes for one check to hide another. With a
limit of 9 units, five runes overflow it with and without escapes and end it in every kind
of rune; escapes are up to six bytes. `restore_faults`, `backup_faults`, `k8s_calls` and
`restore_live` are the largest runs, of 350 000 to 1.25 million states.

Deadlock is not checked where a process that has exited or a bound that is reached stops
the system, which is everywhere but in `config_load`, whose operator can always edit on.

Fairness. In `RestoreRun`, `FairSpec` assumes nothing of the other side: Kubernetes,
PostgreSQL, S3 and Misskey may never answer, and the cluster may stand still. What is fair
is `Runner` where the program itself brings a call to its end: in its own work, at a call
with a time limit (the three waits, the size query, ANALYZE, readiness and timeline:
`TimeLimited`), and after a signal at every call that hands the signal context on. The
others are `Unbounded`: the reads and writes of workloads, the S3 HEAD and GET, psql's
connection check, resets and restore before a signal; the version query of
`CheckConnection`, which takes no context, and recovery, which is shielded from the signal
and has no deadline, even after it. So `HangsOnlyAtUnbounded` and `SignalIsHeard` say how
far the code's claim to an end goes, and not that every run ends: it need not.
`CleanRunSucceeds` asks what happens if nothing goes wrong, and its `AnsweredSpec` assumes
the answers: `Runner` is fair as a whole, and controllers and kubelets one action at a
time; flapping, connecting and migrating are not fair.
In `DumpPipe` the copy loop and the killing goroutine are fair; pg_dump is not (it
may hang for ever) and neither are failures, so an end is never owed to a lucky error.
The same holds of `PsqlRestore`: the caller, the feeder and the context's kill are
goroutines of this process; psql and the server may hang, and `EndsOnSignal` is owed to
nothing but the kill. In `K8sClient` the client goes on, the server answers, and the
deadline of a wait passes (a `context.WithTimeout`); for Scale no deadline is assumed,
there is none in the code. In `MisskeyApi` time passes and the program goes on; that an
answer comes is not assumed.

### What the runs found

`WebStoppedBeforeReset` states what the repository's README says of step 2, that
the stop of web is waited for. `WaitForReplicas` waits for `readyReplicas = 0`
(`k8sclient.go:152`), which a terminating pod satisfies while it still runs. TLC
shows a `DROP` with the pod terminating. The consequences are bounded, as
`VerifiedData` shows: a reconnecting web process makes `DROP` or the restore fail,
it cannot make a run succeed on wrong data.

`NeverPartlyRestored` states the comment on `Restore` (`db.go:124-127`), that a
transaction is aborted on the first error and never partly restored. That is so of
errors psql sees. An error of the gzip reader, which is the goroutine's, closes psql's
input, and psql commits what it has. The consequences are bounded as well:
`ReturnsRestoreOutcome` shows that the call fails, `VerifiedData` that such data is
never taken for restored, and the next run drops it. It takes a disk that fails
between validation and restore.

One case of a late request is open in the code, and shows as an exception in four
properties. A scale to the count that the object already has moves no resourceVersion, so
an update that an earlier call gave up on can still land after it; `ScaleSticks` therefore
speaks of scales that move the object. In a restore-test this is a scale-up of web whose
caller gave up, followed by a recovery that reads 0 and "sets" 0 (`runner.go:266`): the
update lands behind it, web is up, and the recovery is reported as successful.
`WebDownOrReported`, `RecoveryStatusHonest`, `LeftoversHaveALine` and the contract's
`doubt` let this one case pass (`WebUpGivenUp`: the run failed at the step that raises
web) and no other; even then a recovery was attempted and the verify phase is shown
failed. It is no `violation` run, because the repository's README only says that recovery
tries to bring web down.

Some leftovers are told nowhere. A crash sends no report at all. A partial file whose
removal by the download failed (`orphan`) and a db workload left at 1 after a failure have
no line in report, summary or notification: the download drops the error of the
removal (`s3.go:126`), and recovery is about web alone. `StagedFileAccounted` and
`LeftoversHaveALine` speak of the staged file and of web, not of these.

Everything else the modules state of the code holds. Two results worth naming: with the one
exception above, no failing call, late request or signal lets a restore-test that ends after
initialization leave web up without both reports saying so; and a backup whose pg_dump dies
half-way produces a file that validation accepts, so the exit status checked in
`dump.go:77` is the one guard between it and the last good backup. `Delivery` shows the
counterpart: an object that the store has cut after the upload is kept from a restore
only by the validation of the download.

## Proofs

`RestoreRunProofs` proves for every set of disturbances and every number of runs
type correctness, the inductive invariant, and from it `VerifiedData`,
`WebDownOrReported`, `ReportTruthful`, `RecoveryStatusHonest` and `NoDestroyWithoutDump`.
Two more, `StagedFileAccounted` and `WebUpOnlyAfterAnalyze`, are proved and not run:
`LeftoversHaveALine` says the first of the message itself, and the contract contains the
second. It uses `DisturbancesAssumption` and
`MaxRunsAssumption` and nothing else.

None of these is inductive alone: at the end of a run they speak of a record that
was filled step by step. The invariant `IInv` says for each stage what the run has
established by then, in four parts. `RecordInv` gives the record exactly as a
function of stage, step and failed phase. `DumpInv` says where the staged file is
and when the record knows of it. `WorldInv` says what the database and the specs of
the workloads must be, given the step reached (`WorldAt`), and what recovery has
left of them. The web process's interference enters here: it can only turn `empty`
into `dirty`, and no step past the restore is reachable from `dirty`. `LateInv`
says what requests under way may find when they land: only a run that failed at a step or
crashed has any, they are that step's or recovery's, one that changes data finds web told to
stop and a dump recorded, and the one that raises web finds analyzed data. The proof has one
step per action, and `LandKinds` splits `Land` by what lands.

It also proves `ContractKept`, that `RestoreRun` implements `RestoreContract`: initial
states map to initial states, and each action is shown to be one named action of the
contract or none (`Unnoticed`). `IInv` supplies what the guards of the contract ask for:
that data is good when web is raised, that web is asked to be down when data changes
hands, and that a run that ends with web up raises the alarm or has given up on raising
it. Its last part proves `LeftoversHaveALine` and `LinesAgree`, for which `IInv` says too
little of the facts that a message takes from the record beside the phases. `MessageInv`
adds them: a size of the database is held only of data that this run has restored
(`SizeInv`), and at the end an object is recorded exactly if its dump is still staged or
its removal is recorded as done (`RemovalInv`). `StepKeepsFacts` is the one step per
action; `SuccessLines` and `FailureLines` then read the lines off the record, phase by
phase.

`PsqlRestoreProofs` proves for every length of the dump and every capacity of the pipe
that `Restore` returns one of `RestoreOutcomes`. `ControlInv` ties caller, feeder and
process to each other; `CommitInv` says that a commit under way has all that was fed,
which is the whole dump unless the feeder has an error to report, and that a process
which ended well and was not killed has committed.

`DumpPipeProofs` proves for every length of the SQL and every capacity of the pipe
that `dump()` returns one of `DumpOutcomes` and leaves no process. The invariant is
conservation, produced = in the pipe + accepted by gzip, with what each end knows: a
copy that ended without error has drained the pipe, a process that exited with 0 has
produced everything.

`MisskeyApiProofs` proves for all values of the three timers type correctness,
`NeverLate`, `VerdictTruthful` and `RequestsPaced`. `EndsInTime` says that the clock has
not passed the deadline, `CauseInv` that what ended a context has happened; `PaceInv`
keeps the product in `RequestsPaced` by adding one interval when a pause begins.

`BackupRunProofs` proves for every set of disturbances and every number of runs type
correctness, `VerifiedIsStored`, `SuccessMeansStored`, `ReportTruthful`, `TempAccounted`
(which is not run: `EmbedSuffices` says it of the embed), `ColorHonest`, `EmbedSuffices`,
and `ReplacedOnlyByValidDump`, from `BackupAssumption`. Its invariant says at each stage
that either the first n phases have succeeded and no other has begun (`Unfailed(n)`), or
one has failed and the record shows exactly that history (`History`); where the temporary
file may still be (`TempInv`); and that the summary says verified only from the moment
HEAD matched, with the object untouched since (`ObjectInv`). `LateInv` says that an upload
under way sends a validated dump and that no run with one says verified. `FailsShape`,
`SucceedsShape` and `FirstFailure` carry the two ways a phase ends, so that each action's
step is short. `ColorHonest` adds that the colour is chosen at the end and stays
(`EmbedInv`). `EmbedSuffices` adds that an object this run may have put is there only from
the upload on (`OwnerInv`), by when the summary knows its name and size (`KnownInv`).

With `Delivery` the same module proves type correctness, `DeliveredIsWhole`,
`ReportMatchesFile` and `LeftOnlyIfRemoveFailed` for any number of backup runs and any
length of the object; the last, that a partial file is left behind only when removing it
failed, is not run. The invariant is the backup's `IInv`, unchanged, and `ReaderInv`: what
the download knows at each stage of the version it was answered with. The two meet in one
fact, that no `truncated` object is ever stored, which is the backup's to show.

`ConfigProofs` proves `TimeoutsAsGiven` for every clock, every width of integers and
every number of seconds: what is not refused lies within `MaxInt64 \div Second`, so its
product does not wrap, and a timeout of at least a second is at least a millisecond.
`MessageLeadsOn` is about edits, and rests on three facts of the lists of checks: each
check is about one setting and depends on it alone (`ChecksFollow`), a setting that is
right fails none (`RightSettingsPass`), and the first failing check is the least index of
one (`FirstFailingIs`, from the well-foundedness of the naturals). So the repair of a
setting takes its failing check away and brings back none before it (`RepairLeadsOn`).

`K8sClientProofs` proves for any number of calls and any number of writes by controllers
type correctness, `ScaleSticks`, `ForeignWritesKept`, `ActsOnTarget` and
`GivesUpOnlyUnderContention`. The argument is the order of versions. A request on its
way carries a version that was current once, and where that is still the current one,
the object is still what was read (`ReadInv`); at most one request is the present call's,
and only while it is unanswered (`RequestInv`). So an update that moves the object leaves
every other request behind (`AllStale`), which is what `SettledInv` keeps for as long as
a count is said to hold. `AttemptInv` counts the versions: each attempt has found a later
one than the attempt before, which somebody else must have written.

`DiscordTextProofs` proves `ShowsTheMost` for every limit and for names of any length. The
property compares the loop with sums over the runes of the name, which are recursive
functions. That they exist and follow their recursion is shown first (`RecursionWorks`,
`RunningValues`), by induction written out over sets of numbers (`UpTo`) from the
well-foundedness of the naturals. The invariant `LoopInv` then says at each rune that the
builder holds the rendering of the runes before it and that the cut to fall back on is the
largest number of them that leaves room for an ellipsis. `UnitsGrow`, that a longer part
of a name never takes less room, makes that cut the best one for the name as a whole.

### What is proved of liveness

A behaviour ends if its steps cannot go on for ever and it cannot stop early. For the
three calls that wait beside other actors both halves are proved as properties of states
and steps, with no fairness. `ProgressHolds` of `DumpPipeProofs`, `PsqlRestoreProofs` and
`MisskeyApiProofs`: `StepsLeft` is a natural number and every step lowers it, so every
behaviour takes finitely many steps, for every dump length, capacity and timer; a check of
Misskey makes one attempt at most between two moments, whatever is answered.
`NeverStuckHolds`: from a failed copy or a signal on (for `dump()`), from a signal on (for
`Restore`), or at any time (for a check) the guard of one of the fair actions holds until
the call has returned. For this the two pipes' invariants say who is still able to move: a
process that was killed has exited, a writer whose reader is gone is not blocked. What is
left to TLC is the step from there to `EndsDespiteHang`, `EndsOnSignal` and `Ends` under
fairness, since it needs ENABLED. The guards are stated in the proofs modules
(`WorkerReady`, `KillReady` and the like) as those of the actions.

Only model-checked: the seven liveness properties (`HangsOnlyAtUnbounded`,
`SignalIsHeard`, `CleanRunSucceeds`, `EndsDespiteHang`, `EndsOnSignal`, `CallsEnd`,
`Ends`), which are beyond the prover, as is ENABLED. Every other property of a passing run
is stated by a theorem. Type invariants are checked for the two series of runs (`TypeOK`
of `RestoreRun`, `DeliveryTypeOK`) and proved for every module that has theorems; for
`Config` that is the lemma about `Typed`, for `DiscordText` a part of `LoopInv`.

## Not modelled

- The HTTP request of a notification (`discord.go:94-137`): a request that changes nothing
  here, sent or lost as one outcome. The cut of a text at 1800 runes: no result is as long.
- Wording, durations, log attributes (`Loggable` among them),
  usage texts; sizes but for whether they are known.
- Arguments, quoting and environment of psql and pg_dump: data without control.
- The fields of a note in a timeline's body: an answer is one of four kinds.
- The parts of a multipart upload: the SDK's, and the repository leaves the
  collection of unfinished ones to the bucket.
- Two writers of one S3 key: the repository's README rules them out, and `BackupRun`
  has one run at a time. HEAD compares sizes only, so nothing in the code would notice.
- A request of one run that is still under way when the next run begins: `NextRun` assumes
  that none is, of restore-test and of backup.
- What white space around a value means to the two loaders: one trims it, the other keeps it
  as set (`config.go:118`, `278`), so a padded `S3_KEY` names two objects. `Config` has both
  readings, but no property is about it: the code makes no promise that the commands agree.
- `internal/log`, a constructor without state.

## What could come next

The core of the code is modelled, and what the runs check of safety is proved. What
remains is of less weight: `K8sClient` inside `RestoreRun` in place of the update that
comes now, later or never, which multiplies the two largest state spaces; that every call
of `K8sClient` is one of the outcomes which `RestoreRun` takes of it, as a refinement; and
two jobs of a kind at once, which the repository's README (`concurrencyPolicy: Forbid`)
rules out.
