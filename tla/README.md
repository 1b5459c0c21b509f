# ml-autoresearch: TLA+ models, model checking and proofs

This directory holds the formal models of the ml-autoresearch harness
(`src/src/ml_autoresearch`), the TLC configurations that check them on small
instances, and TLAPS proofs of the properties that matter most. Paths below are
relative to `src/src/ml_autoresearch` unless they start with `docs/`.

## 1. Inventory

The harness takes Candidate Experiments that an autonomous agent writes, and
runs, evaluates and records them. All durable state is files; processes
coordinate through `flock`, atomic renames and an append-only JSONL ledger.

| component | code | state it keeps | operations |
|---|---|---|---|
| Managed Run execution | `managed_execution.py`, `cli.py` (`continue-run`, `run-candidate`), `runs.py` | `run_metadata.json` (status, failure classification), `execution.json` (supervisor pid, container identities), `.execution.lock`, `.finalization.lock`, containers | launch, smoke, train, retry, forced timeout, terminalise, reconcile, fail, clean up |
| Terminal ledger events | `runs.py`, `research_ledger.py` | `research-ledger.jsonl`, its `.terminal.lock` | compare-before-append of `run_completed` / `run_failed` |
| Next actions | `autonomy_step.py`, `research_loop_operations.py` | the ledger, `autonomy-step-result.json` | `autonomy-step`, `execute-next-action`, `execute-open-actions` |
| Handoff ingestion | `agent_handoffs.py`, `submissions.py` | `agent-work/*`, canonical copies, `ingested.json` markers, index, ledger | collect, validate, copy, record, mark |
| Candidate submission | `runs.py`, `candidates.py` | run directory, proposal and repair events | validate, repair limit, prepare, submit |
| Experiment Batches | `batches.py` | batch directory, batch metadata, ledger | validate, run in a thread pool, tag Runs, complete |
| Post-Run Evaluation | `evaluation_requests.py`, `evaluations.py` | evaluation directory, ledger | validate, run, record |
| Autonomous iteration, campaign controls | `autonomous_iteration.py`, `campaign_controls.py` | limits, pause/resume events | repeat steps until a stop reason |
| Execution policy | `candidate_execution_config.py`, `budget_requests.py`, `research_loop_operations.py` | `ml-autoresearch.toml` | decide budget, timeout, backend |
| Runtime images, setup | `runtime_images.py`, `setup.py` | images under their tags, build metadata, validation stamp | build, validate, enforce |
| Resource Failure retries | `runs.py`, `execution.py` | batch size of the resolved manifest, attempts | halve and retry, wall-clock budget, classify, validate outputs |
| Training loop, container operations | `training.py`, `smoke.py`, `operations.py`, `container_runner.py`, `artifacts.py` | metrics, checkpoint, reports, timeout sentinel | train, validate, checkpoint, stop early, report |
| Agent boundary | `agent_boundary.py`, `agent_cli.py`, `capability_requests.py`, `research_notes.py` | agent workspace files | prepare directories, prompts |
| Research Problem packages | `research_problems.py`, `problem_support/` | provider specs, datasets | load, score |

**How they interact.** The agent leaves a handoff in its workspace; ingestion
validates and copies it and appends `agent_handoff_ingested`. A next-action
command finds ingested handoffs with no downstream event and executes the
oldest. For a Candidate it prepares a Run, smokes it, appends
`candidate_submitted` and starts a *detached* supervisor that outlives the
command. The supervisor trains in a Docker container and writes terminal
metadata and a terminal ledger event. Anybody may call `reconcile-run` at any
moment, and all of these processes can be killed at any instruction.

**What is hard.** Several processes write one metadata file and only some of
them take the lock; the liveness of another process is inferred from a file that
names its pid; ledger writes and metadata writes are two steps; retries must
recognise what an earlier, killed attempt did. `PROJECT.json` lists these as
hazards at the line where each bites.

**What makes the components correct.** A Run ends exactly once, metadata and
ledger agree on how, outputs were validated before it completed, it is trained
by one supervisor, it does end whoever dies, and nothing is leaked or removed too early
(RunLifecycle). The outcome of a Run is announced at most once (TerminalLedger).
Recovery continues what exists instead of submitting it again, and everything
ingested is executed in the end (OpenActions). What is recorded as ingested is
complete, and recorded once (HandoffIngestion). The loop stops where a person
must look, honours a pause, and does not take an earlier step's leftovers for
its own handoff (AutonomousIteration). Training stops early only when the policy
says so, retries shrink, the files of a completed Run tell of one attempt, and a
budget ends a Run that hangs (TrainingLoop, TrainingAttempts). A Run trains within
the policy and budget it was approved for, whatever is edited meanwhile, and the
gate admits only the image it stands for (WorkspaceRuns). A batch ends, and reports
what the ledger says of its Runs (ExperimentBatch).

## 2. Modules

| module | models | composes with |
|---|---|---|
| `RunLifecycle` | one Run: launcher, supervisors, Docker daemon, reconcilers, the synchronous submitter, kills | its ledger append is one step, justified by `TerminalLedger` |
| `TerminalLedger` | the terminal events of all Runs, writer processes, the terminal lock, torn lines | implements `TerminalOnce` |
| `TerminalOnce` | the promise: an outcome is announced once and never changes | implemented by `TerminalLedger`, `RunLifecycle` and `ExperimentBatch` |
| `RunStatus` | the promise to everyone who polls a Run: its status advances and never goes back | implemented by `RunLifecycle` |
| `OpenActions` | ingested handoffs, the three commands, result file, ledger query, kills | a started Run is one `SupervisedRunEnds` step, justified by `EventuallyTerminal` of `RunLifecycle` |
| `HandoffIngestion` | artifacts of the Agent Workspace, canonical copies, index, ingestion events, markers; ingesting processes and kills | |
| `AutonomousIteration` | the autonomous loop, the single Autonomy Step, `ingest-agent-handoff`, pause and resume | EXTENDS `HandoffIngestion`; a next action ends in one step, `OpenActions` has the detail |
| `TrainingLoop` | one attempt of the training loop and the files it leaves | |
| `TrainingAttempts` | the host around it: retries, wall-clock budget, classification, output validation | EXTENDS `TrainingLoop` |
| `ExecutionPolicy` | configuration limits, budget decisions, training contract and policy, choice of a backend: functions only | |
| `RuntimeImages` | build, validate and require the runner image; edits and upgrades | |
| `WorkspaceRuns` | Runs whose processes each read the configuration anew | EXTENDS `ExecutionPolicy` and `RuntimeImages` |
| `CandidateSubmission` | submission and training in the foreground, and a reconcile-run beside it | |
| `ExperimentBatch` | the batch executor and its threads | EXTENDS `CandidateSubmission` |
| `MC*` | model values, instances and symmetry for TLC | |
| `*Proofs` | theorems about the module they extend | |

### RunLifecycle

Four durable objects are variables: `metadata`, `record` (`execution.json`),
`events` with `submitted` (the ledger) and `container`. Every write of one of
them is a separate action, so a kill or another process may come between any
two; two reads are one action only where the code makes no write in between and
the second cannot change the first.

* `launcher` is the process inside `start_run_supervisor`. The check, the
  `Popen` and the registration are three actions under `.execution.lock`: there
  is one launcher variable because the lock admits one.
* `pc[s]` is the program counter of supervisor process `s`; the actions follow
  `continue-run` line by line: await registration, read status, mark smoke, smoke,
  announce, mark training, write TRAINING, one container per attempt, terminal
  metadata, terminal event, cleanup, reconcile, finalised.
* `finalizer` is the holder of `.finalization.lock` with the status it read and
  the plan it made: `reconcile_run` (by reconcilers, and by the supervisor after
  training) and `fail_run_as_harness_failure`. `_train_accepted_run` writes the
  same metadata *without* it, and so does the model.
* `OperationRaises` is the failure of an operation that the code expects;
  `SupervisorErrs` is any other exception, at any place: it goes to the handler of
  `continue-run`, and a second one, in the handler or after it, ends the process.
  The latter is enabled by `"error" \in CrashKinds` and counted with the kills.
* `ObservedActive` is `read_execution_record`: the registered pid answers signal
  0, or the daemon reports the active container running.

Abstractions: failure reasons and timestamps are dropped; `artifactsValid` is the
verdict of `_validate_training_outputs`, fixed when the container exits;
`unknown` is not a classification any modelled path writes; updates of
`execution.json` are atomic.

### TerminalLedger

`terminal[r]` are the readable terminal events of Run `r`, in order; `torn` says
that the last line lacks its newline, so that the next line is glued to it and both
are unreadable (`_append_jsonl` ignores how much `os.write` wrote). Writers enter
through `_ensure_terminal_event_once` (a read without the lock) or directly
through `_record_run_completed` / `_record_run_failed`.

### OpenActions

`ingested`, `submitted`, `terminal`, `evaluated`, `batchesDone` are the ledger;
`run`, `evaluationDir`, `batchSource` the artifacts on disk; `result` the result
file; `command[s]` the foreground command of session `s`. `OpenAction(h)` is
`find_open_executable_actions`, `ArtifactExists` is
`_executed_next_action_artifact_exists`. The docker backend is modelled for
Candidates. The caller of a started Run returns when it is terminal, or while it is
still accepted: because its supervisor died (`SupervisorDies`) or, where another
command's supervisor is observed, has not begun the training. An action that raises
makes `execute-next-action` write back the result it read at its start (`seen`),
whatever another command wrote meanwhile. An evaluation whose foreground command is killed is taken to die with
it, as it does with the native backend.

### HandoffIngestion

`workspace[a]`, `canonical[a]`, `indexed`, `handoffEvents[a]` and
`artifactEvents[a]` are the five places an ingestion writes to, in that order and
the marker last; each write is an action, so a kill or another process comes
between any two. `Check` is the second look of the `ingest_*` functions, which
refuse a canonical copy that exists; an error of the Workspace Configuration, which it
loads for a submission, passes through every caller ("raised"). `Copy` is the moment `copytree` creates the
directory, or fails because somebody else did. Candidates and batches are
directories (`Submissions`), the other handoffs are files, which `copy2`
overwrites. Whether an artifact is valid is a nondeterministic choice.

### AutonomousIteration

`loop[s]` holds the local variables of `run_autonomous_iteration` (or of the single
step, or of `ingest-agent-handoff`) in session `s`; `controls` is the order of the
pause and resume events; `resultFile` the notification status. `EndStep` looks for
a reason to stop in the order of the code: the step's outcome, a pause, the step
limit, the time limit. Four history variables carry what the properties compare:
what the current step's agent wrote (`fresh`), how steps ended (`trail`), which
commands overlapped (`shared`), invocations under a pause (`pausedRuns`).

### TrainingLoop and TrainingAttempts

`pc` is the place of the training process in `_train_manifest_epochs_run`; `records`,
`best`, `anchor`, `stale` and `timeout` are its local variables, `metrics`, `model`,
`report` and `final` the files, which a retry finds as the last attempt left them. A
file carries the batch size of its writer, which is what tells attempts apart
(`RetriesHalve` says why that works). An epoch's outcome is one value of the
selection metric. `FaultsAt` says where which exception may end the process: memory,
a number that is not finite, the Candidate's code, or a file that cannot be written.
`CheckOutputs` may fail on what is not modelled (log, postprocessing reports, contents),
as the Candidate's fault or, for a report with a number that is not finite, the Harness's.

`host` is the place of `_train_accepted_run`, `_run_with_resource_retries` and
`_run_operation_with_graceful_timeout` in the host; `error` is what the operation
told it. The container takes its steps beside the host and may hang. `Signalled` is
what `_signal_container_timeout` achieves, which is nothing (run `TrainTimeout`).

### ExecutionPolicy, RuntimeImages and WorkspaceRuns

`config` is `ml-autoresearch.toml`, read anew by every process. `images` is what the
Docker daemon holds under a tag; `runnerMetadata`, `agentMetadata` and `stamp` are
the files of `runtime_images.py`. Builder and validator take several steps, because
commands and files are touched one after the other while edits go on. An edit of a
development source may keep the identity (`ChangeHarness`): outside git its path alone
is fingerprinted, and what the gate compares are identities. `run[r]` holds
what `run_metadata.json` and the copied manifest say of Run `r`, and the arguments
of the process that works on it; `trained` is a record of what the Run trains under.
The functions of `ExecutionPolicy` follow the code's order of tests: a value 0 stands
for "not configured". One supervisor per Run: races are the subject of `RunLifecycle`.

### CandidateSubmission and ExperimentBatch

`worker[c]` is the process or thread of Candidate `c`, with the status its function
returns and the metadata it read before it rewrites them. Each write of
`run_metadata.json` and each ledger event is an action, so that `reconcile-run`, which
sees no supervisor and judges by the outputs, comes between any two. `batch`,
`records` and `linked` are the coordinator and its `run_records`.

## 3. Runs

Every `.cfg` names its specification, constants and properties.

| run | instance | properties | what it shows |
|---|---|---|---|
| `RunSingle` | 1 supervisor, 1 reconciler, 2 containers (one retry), the launcher may be killed or the supervisor meet an exception | `TypeOK`, `CompletedIsValidated`, `TerminalStateAgrees`, `TerminalIsFinal`, `EventFollowsMetadata`, `EventuallyClean` | one supervisor with a reconciler beside it leaves metadata, ledger, outputs and containers in agreement |
| `RunRecovery` | 2 supervisors, 1 reconciler, 1 container; launcher or caller smokes; late registration, early reconcilers; 1 kill of supervisor, caller or reconciler, or 1 exception | `SingleTrainer`, `TrainedRunIsSubmitted`, `ContainerKeptUntilTerminal`, `EventuallyTerminal`, `TerminalIsRecorded` | recovery neither trains twice nor loses a Run |
| `Ledger` | 2 writers, 2 Runs, kills, 1 torn append | `TypeOK`, `AtMostOneTerminalEvent`, `ReturnMeansRecorded`, `RefusalIsJustified`, `CallsReturn`, `ImplementsTerminalOnce` | compare-before-append is one critical section, and the ledger implements `TerminalOnce` |
| `OpenConcurrent` | 2 operators with all three commands, a Candidate, an evaluation, a batch, errors, 1 kill of a command or supervisor | `TypeOK`, `EvaluatedOnce` | the evaluation directory is a lock |
| `OpenLive` | 1 operator, 2 Candidates, 2 kills of commands or supervisors | `TrainedRunIsAnnounced`, `SubmittedOnce`, `CandidatesEnd` | recovery continues the announced Run, and repeated recovery ends every accepted Candidate |
| `Iteration` | a loop or step beside `ingest-agent-handoff`, 3 artifacts of different types, 2 steps, 1 kill, 2 controls, 2 command starts | `TypeOK`, `PauseHonoured`, `StopsForHuman`, `HandoffIsFresh`, `SubmissionIngestedOnce`, `RecordedIsComplete` | the loop stops when it must, and an ingestion is complete before it is recorded |
| `Training` | 3 epochs of 1 batch, 3 metric values, 2 early-stopping policies (one of each mode), memory and Harness faults, up to 2 retries from batch size 2 or 8, each backend | `TypeOK`, `EarlyStopIsJustified`, `RetriesHalve`, `CompletedOutputsAgree`, `BudgetEndsTraining` | early stopping, retries and outputs are what the contract promises; a budget ends a hanging Run |
| `Policy` | 2 Runs, 4 configurations, 2 Harness identities, 1 edit or upgrade, 1 build | `TypeOK`, `LateRunsAreBounded`, `TrainedWithinPolicy`, `AdmittedImageIsCurrent` | edits between the steps of a Run cannot take it out of its policy, budget or image |
| `Batch` | a batch of 2 in 2 threads, 1 single submission, 1 reconcile-run, 1 kill | `TypeOK`, `OutcomesAreRecorded`, `BatchEnds` | batch record and ledger agree, and the batch ends |

Three runs expect a violation; each shows a disagreement between the code and what
the repository says of it (`findings` quotes the line).

| run | property | what happens |
|---|---|---|
| `RunDoubleTraining` | `SingleTrainer` | the launcher of an already accepted Run dies between `Popen` and the registration of the pid; a second launch finds no supervisor and starts another |
| `OpenBatch` | `CompletedBatchIsClosed` | the completion event carries a generated id, the open-action query compares the handoff's: a completed batch stays open |
| `TrainTimeout` | `TimeoutIsSignalled` | the one-line program that should create the timeout sentinel has a line break inside a string literal: it does not compile, and a budgeted Run is always killed |

Three more disagreements were met, and are the reason for conditions below. The first
and the last reappear when a configuration is changed as said there:

* `execute-next-action` after a killed one trusts a stale result file and submits the
  Candidate again once its Run is terminal (`autonomy_step.py:467`): `SubmittedOnce`
  in `OpenLive` with `"next"` among `CommandsUsed`. The result may be stale because the
  command was killed, because it raised and wrote back what it had read, or because it
  returned while the Run was still accepted.
* A kill after the evaluation directory was created makes every retry raise
  (`evaluation_requests.py:195`): the request stays open for ever, which is proved
  (`AbandonedEvaluationsStayOpen`).
* `submit_candidate` smokes without an execution record; a reconciler takes it for
  dead, and metadata and ledger end with different outcomes (`TerminalStateAgrees` in
  `RunRecovery` with `SmokedBy = {"caller"}`, without any kill). `ExperimentBatch` has the same situation: the
  ledger and what the batch reports agree there, the metadata need not.

**Bounds.** Two of a kind suffice wherever the hazard is one actor against
another: two supervisors for double training, two writers for the compare, two
sessions for ingestion and evaluation. Two containers are one retry, the least
with which a container may be left behind; two Candidates are the least with
which the order of open actions matters; two steps the least with which a step
finds what an earlier one left. One kill suffices for every hazard listed (each is
one write that is missing); `OpenLive` has two, so that recovery itself is killed.
`MaxTorn` = 1 tears one append and glues the next one to it. Three epochs are the
least with which patience 2 is used up after an improvement; three values the least
with which an improvement can be smaller than `min_delta`; batch size 2 ends at a
size that cannot be halved, 8 at the retry limit. Two Runs are one and its evidence.
One edit suffices for `Policy`, because a property compares one reading of the
configuration with one later. The counters that bound the runs (`MaxCrashes`,
`MaxKills`, `MaxTorn`, `MaxSteps`, `MaxWritten`, `MaxControls`, `MaxStarts`,
`MaxEdits`, `MaxBuilds`, `MaxReconciles`) are guards of the actions they bound and
arbitrary naturals in the theorems.

**What the passing runs are conditional on.** These conditions are those under
which the property holds; each was found by a counterexample.

* `TerminalStateAgrees`, `CompletedIsValidated` and `EventuallyClean` are properties
  of a supervisor that is not killed. One exception that nothing expects does not
  break them, because the handler makes it durable; a second one in the handler ends
  the process like a kill (`RunSingle` with `MaxCrashes = 2`). After a kill the
  orphaned container goes on and may write outputs later, and a reconciler may
  classify the Run otherwise than the supervisor did; with an early reconciler, or
  with two supervisors, metadata and ledger may disagree as under a smoking caller.
  Section 4 says which of these the other properties of `RunRecovery` need.
* `SingleTrainer` needs launchers that survive until they have registered the
  supervisor they spawned (theorem `OneTrainer`). A launcher killed in the first
  launch of a Run it smokes is harmless, because the supervisor registers itself
  (`MarkSmoke`) before the Run can be accepted and launched again. A launcher killed
  while it launches an accepted Run leaves a supervisor that nobody sees: after a
  caller smoked the Run (`RunDoubleTraining`), or when the first supervisor failed
  before training and recovery launched a second (the same run with
  `SmokedBy = {"launcher"}` and three supervisors).
* `ReturnMeansRecorded` speaks of ledgers without a short write: the result of
  `os.write` is ignored, so a torn event is reported as recorded.
* `CandidatesEnd` is checked with accepted Candidates and no evaluation: a Candidate
  that is rejected on every attempt, or an evaluation whose directory exists, stays
  the oldest open action and starves the younger ones. One `execute-open-actions` ends
  all the same (theorem `RoundsAreCounted`), and whatever is killed, an announced
  Candidate has a Run that recovery can continue (`AnnouncedRunsCanFinish`).
* `SubmittedOnce` is about one operator who recovers with `execute-open-actions`.
* `HandoffIsFresh` is about commands that did not overlap another command.
* `SubmissionIngestedOnce` and `RecordedIsComplete` are about directories: two
  processes that ingest the same file overwrite it and record it twice, but no
  process records it twice (theorem `OneEventPerProcess`).
* An ingestion that is killed, or that finds no `EXPERIMENT_INDEX.md`, after the
  copy was made cannot be retried: the canonical copy exists. That is what makes
  `SubmissionIngestedOnce` hold; the operator has to resolve it by hand (`Discard`).
  Theorem `LostIngestionsStayLost` says so for every instance.

* `CompletedOutputsAgree` leaves out retries under a budget: an attempt killed after
  its last write, whose stderr speaks of memory, is retried, and its final metrics
  outlive it when the Candidate's code then ends the retry with status 0.
* `BudgetEndsTraining` speaks of a host that lives: only the live supervisor has the
  timer, an orphaned container trains without a limit.
* `TrainedWithinPolicy` speaks of the configuration the Run trains under. A native
  workspace trains an ingested Candidate with the one it was submitted under
  (`TrainHere`).
* `AdmittedImageIsCurrent` needs a build that ran its commands to the end and a
  validation with no edit in between (`sound`, `stamped`): a stamp does not hold the
  content of an image, a failed second build leaves a new image with old metadata,
  and `validate-runtime-images` hashes the configuration after it has checked it. The
  Harness is the one its identity tells: an edit outside git goes unnoticed. It
  says nothing of `--skip-runtime-image-validation`, `--docker-image`, batches and
  next actions, which do not pass the gate.
* `OutcomesAreRecorded` is about the ledger: a tag of a batch may be lost, and a
  terminal status overwritten, in `run_metadata.json` (`TagReads`, `TagWrites`).
* A supervisor that fails because the configuration is invalid fails again in its
  handler, and the Run keeps its status (`SupervisorRaises`).

**Deadlock** is checked in `RunRecovery` and `Ledger`. The other runs have executions
that really stop: a launcher killed before anything started, an operator who issues no
further command, a Run that is done, limits on starts, edits and kills.

**Fairness.** Weak fairness for a process that is alive and can take its next
step: the kernel schedules it (`SupervisorStep`, `CallerStep`, `FinalizerStep`,
`CommandStep`, `WriterStep`, `HostStep` with its two timers, `Coordinator` and
`Thread`); for a container, which exits in the end (`Docker` of
`RunLifecycle`; in `TrainingAttempts` a container may hang for ever);
for the operator who starts a prepared Run or recovers (`Launch`,
`ExecuteOpenActions`: the documented recovery procedure). Strong fairness only for
entering a `flock` that others may hold in between (`Acquire`, `BeginFail`,
`BeginReconcile`): the kernel queues the waiters, and the reconcilers are run
again by the documented procedure. Kills, torn writes, pauses, other events and
new calls have no fairness. Safety runs use specifications without fairness where
they check no liveness property.

## 4. Proofs

tlapm checks every step; there are no unproved assumptions beyond the named
`ASSUME`s of the modules (bounds are naturals, model values for "nobody" are not
members of the sets they are added to, files are not submissions), which TLC evaluates
in every run, and the hypotheses a theorem states. The theorems hold for any number of
processes, Runs, containers, handoffs, kills, torn writes, epochs, metric values,
configurations and edits.

| module | theorems | argument |
|---|---|---|
| `RunLifecycleProofs` | `TypeCorrect`, `ContainersKept`, `TrainedIsSubmitted`, `AllContainersRecorded`, `AttemptsHaveOwnContainers`, `TrainingRunsAreRegistered`, `ReconcilersAnswer`, `RunImplementsTerminalOnce`; `OneTrainer` if no launcher dies; `MetadataFirst`, `EndedStaysEnded`, `RunImplementsRunStatus` for a Run launched once; `MetadataAgrees`, `CompletedMeansValid`, `ContainersEndWithTheRun` if its supervisor is not killed either | `Progress`: what each place in a supervisor's or finalizer's program has already established (a container chosen, an outcome that is terminal, an event in the ledger). The types are not inductive without it, since the ledger receives an outcome carried from an earlier step. `Announcement`: before candidate_submitted one process can smoke the Run. `Trainers`: a supervisor that may still train is about to be registered or is found by `AlreadyRunning` for as long as the launcher may launch; this is where a launcher that dies before it registers breaks the argument (`"launcher" \notin CrashKinds`, and the run `RunDoubleTraining`). `Named`: a container of the daemon is in the record, and a name about to be used is unused. `Registering`: a registration is replaced, never taken back. `Life`: the metadata, the one event, the lock holder's plan and the outputs at each place of the one supervisor's program. `PlanFollows`: a reconciler that takes a Run for trained is right. |
| `TerminalLedgerProofs` | `TypeCorrect`, `LockProtectsCompare`, `NoDuplicateTerminalEvent`, `ReturnIsRecorded`, `RefusalsAreJustified`, `LedgerImplementsTerminalOnce`, `LockIsNeverLeftBehind`, `CallsAlwaysAdvance` | a writer about to append holds the lock under which it saw no event of its Run; the bound on the events alone is not inductive. `Recorded`: what a writer returns or refuses with was readable when it decided, and `EventsAreFinal`: what is readable stays first. Refinement: only a whole append changes what `TerminalOnce` sees. `HolderIsAtWork`: who holds the lock is at a place from which it frees it, and `StepsLeft` falls with every step of a call. |
| `OpenActionsProofs` | `TypeCorrect`, `EvaluationsRecordedOnce`, `OneRunPerCandidate`, `OnlyAnnouncedRunsTrain`, `AnnouncedRunsCanFinish`, `EventsHaveDiagnostics`, `AbandonedEvaluationsStayOpen`, `CompletedBatchesStayOpen`, `RoundsAreCounted` | `Dispatch` (a command's action fits its handoff), `DirectoryIsLock` (a session at work on an evaluation is alone and the request unrecorded), `Announced` (under `OneOperator`, what a command carries agrees with what the ledger announced). `RunsFit`, for any number of operators: ledger and Runs agree on what has ended, a Run announced or about to be is its Candidate's and past its smoke test, and one command smoke-tests it. `RecordingAfterDiagnostics`, `BatchIdsAreMade`: what was on disk before the event was appended. |
| `HandoffIngestionProofs` | `IngestionTypeCorrect`, `OneIngestion`, `CompleteIngestion`, `MarkerIsLast`, `OneEventPerProcess`, `LostIngestionsStayLost` | `OneCopier`: at most one process is between creating a submission's directory and recording it, and then the submission is unrecorded. `Progress`: who is past an event has appended it. `Untouched` and `Rationed`, for files too: without a copy nothing is recorded, and with one nobody else passes the check, so that events and processes that passed it are together no more than there are processes. |
| `AutonomousIterationProofs` | `LoopImplementsIngestion`, `OneIngestionOfTheLoop`, `IngestionsOfTheLoop`, `TypeCorrect`, `StepLimit`, `Pauses`, `HumanDecides`, `FreshHandoff` | every command step is a step of ingestion or leaves its variables alone, so the theorems of `HandoffIngestionProofs` hold of the loop; `Counted`: within a step, invocations are one ahead of completed steps, and a limited loop that begins a step is below its limit. `PausedOf`: who has seen no pause began before one. `OngoingOf`: a loop goes on only after steps that ended well. `Quiet`, `Alone`, `FreshOf`: with no other command beside it, what lies in the workspace was there when the step began and was refused then, or is what its agent wrote. |
| `ExperimentBatchProofs` | `TypeCorrect`, `BatchReportsLedger`, `SubmissionsImplementTerminalOnce`, `CompletedMeansOutputs`, `BatchStatusIsRecorded`, `GatheringBatchHasWork`, `RepairLimitOvershoot` | `Returned`: a worker that returned a status has appended its event; `Answered`: a record of the batch is a status its worker returned. `Validated`: who is about to announce a completed Run has seen its outputs; `Reported`: what the coordinator linked and called the batch. A thread that waits in the pool is preceded by one that does not wait, or is the next to start. `Limited`: repairs that have passed the count and not yet recorded their event are submissions in progress, of which there are at most `Submitters`. |
| `TrainingAttemptsProofs` | `TypeCorrect`, `EarlyStopping`, `Retries`, `Outputs`, `HostIsDecided` | `Progress`: what is established at each place of the loop; `BestKept`, `AnchorKept`: the local accounts are what the definition says of the records so far; `SizesKept`: batch sizes of attempts halve, so a size names an attempt; `FilesKept`: which files the present attempt has written (for a retry under a budget nothing is claimed). `HostSteps`: a retry costs an attempt, and an attempt is worth more than the way to the next. |
| `WorkspaceRunsProofs` | `TypeCorrect`, `LateBudgets`, `PolicyAtTraining`, `GateIsCurrent`, `BackendsAgree`, `DockerOptionsHold` | `ImagesInv`: what an undisturbed build has left so far and what an undisturbed validation has seen. `RunInv`: what a Run carries from one reading of the configuration to the next (a budget with its manifest, the configuration its process holds), independent of what the file says by now. `Coherent`: options merged from a valid configuration and any command line are never such that docker is refused, so later edits cannot make them so. |

`Configs \subseteq ConfigType` and the other parts of `RunsAssumption` say of the
configurations only that they have the fields and number kinds of the code's dataclass,
not that they are valid.

**What `RunLifecycle` theorems assume.** `LaunchedOnce`: there is one supervisor, which
meets no exception but the expected ones (`"error" \notin CrashKinds`; `RunSingle` checks
one), and nobody reconciles the Run before its record exists. `Mortal`: supervisors may be killed.
`Undisturbed` is `LaunchedOnce` without `Mortal`. Launchers, callers and reconcilers may
die and a caller may smoke the Run under all of them, and the supervisor may be slower
than its registration. Each hypothesis is needed, as TLC shows when the instance of
`RunRecovery` is changed accordingly: with two supervisors or an early reconciler `TerminalIsFinal` and
`EventFollowsMetadata` fail, because a second terminaliser decides from a reading older
than the first one's end; with a supervisor that is killed while a reconciler is
between its reading of the metadata and its observation of the container
`TerminalStateAgrees` and `CompletedIsValidated` fail, because the orphaned container
is then judged by outputs that are not final. `RunStatus` has the difference as a
constant: an ended Run may be given the other outcome if `Mortal`, and not otherwise.

**Three implementations of one promise.** `TerminalOnce` is implemented by the ledger's
own protocol (`LedgerImplementsTerminalOnce`), by one Run with all who may end it
(`RunImplementsTerminalOnce`), and by submissions, batch threads and `reconcile-run`
(`SubmissionsImplementTerminalOnce`). The last two take compare-before-append as one
step, which the first justifies.

**Findings and limits, for every instance.** Some theorems say what the code does *not*
provide: an abandoned evaluation, a completed batch and a lost ingestion are never made
up for, and the repair limit is exceeded by up to one for each further submission that
overlaps, but by no more.

**Only model-checked** is liveness: its proof needs ENABLED and induction over fair
behaviours. What the liveness properties rest on is proved for every instance, so that
the runs are left with the scheduling alone:

| liveness property | what is proved of it |
|---|---|
| `EventuallyClean` | `ContainersEndWithTheRun`, `AllContainersRecorded` |
| `EventuallyTerminal` | `TrainingRunsAreRegistered`, `ReconcilersAnswer` |
| `TerminalIsRecorded` | `MetadataFirst` (the converse order), `RunImplementsTerminalOnce` |
| `CallsReturn` | `LockIsNeverLeftBehind`, `CallsAlwaysAdvance` |
| `CandidatesEnd` | `AnnouncedRunsCanFinish`, `RoundsAreCounted` |
| `BudgetEndsTraining` | `HostIsDecided` |
| `BatchEnds` | `GatheringBatchHasWork` |

## 5. Not modelled

* The native (non-Docker) backend in `RunLifecycle` and `OpenActions` (it is in
  `TrainingAttempts` and `WorkspaceRuns`); pid reuse (a pid names one process for
  ever); lost updates of `execution.json` (its read-modify-write is one step).
* An evaluation that survives its killed foreground command, as with the docker
  backend; evaluation slugs, eligibility and `evaluate-run`. What a model of
  `evaluate-run` has to look at, read in the code and not checked: the docker path
  records the last of the sorted `eval_*` directories of the Run (`cli.py:1304`),
  while a request-gated evaluation is named after its request, often later in that
  order than a time stamp, and two commands at once may both record the same one.
* The contents of artifacts, their validation and all numerical work; learning
  rates, prediction samples, prompts, mail, rendering, summaries.
* The Agent Runtime Image beyond its metadata, setup, the agent boundary's files,
  Research Problem packages: I/O without a protocol, or data out of the checker's
  reach.

## 6. Plan

Built so far, in this order: `RunLifecycle`, `TerminalLedger` with `TerminalOnce`,
`OpenActions`, `HandoffIngestion` with `AutonomousIteration`, `TrainingLoop` with
`TrainingAttempts`, `ExecutionPolicy` with `RuntimeImages` and `WorkspaceRuns`,
`CandidateSubmission` with `ExperimentBatch`, and the proofs.

Next, most important first:

1. `PostRunEvaluation`: evaluation ids, eligibility, `evaluate-run`, the docker
   backend outliving its command.
2. The read-modify-write of `execution.json` as two steps.
3. What these add to be proved: that an evaluation id is used once, and which fields of
   `execution.json` survive concurrent updates.
