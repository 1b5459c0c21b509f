--------------------------- MODULE WorkspaceRuns ---------------------------
(***************************************************************************)
(* Runs of a workspace whose configuration is edited while they are under  *)
(* way.  A Run is admitted, prepared, smoke-tested and trained by          *)
(* different processes, possibly days apart, and each of them reads        *)
(* ml-autoresearch.toml anew (research_loop_operations.py, cli.py).  What  *)
(* must outlive the edits is in run_metadata.json and the resolved         *)
(* manifest.  One supervisor per Run here: races of supervisors are in     *)
(* RunLifecycle, failing attempts in TrainingAttempts.                     *)
(***************************************************************************)
EXTENDS ExecutionPolicy, RuntimeImages

CONSTANTS
  RunIds,
  CommandOptions,  \* command lines of run-candidate
  Manifests,       \* source manifests of Candidates
  Requests         \* budget requests, whose parents are Runs

ASSUME RunsAssumption ==
  /\ Configs \subseteq ConfigType
  /\ \A o \in CommandOptions : o.backend \in {"native", "docker"} /\ o.samples \in Nat
  /\ \A m \in Manifests : m.epochs \in Nat /\ m.batch \in Nat
  /\ \A q \in Requests : q.epochs \in Nat /\ q.parents \subseteq RunIds

VARIABLES
  run  \* run_metadata.json, the copied manifest and the supervisor of each Run

vars == <<imageVars, run>>

NoBudget == [status |-> "none", class |-> "none", epochs |-> 0, timeout |-> 0]
AnyConfig == CHOOSE c \in Configs : TRUE
NotTrained == [epochs |-> 0, samples |-> 0, backend |-> Refused, config |-> AnyConfig]
NoRun == [status |-> "none", pc |-> "none", options |-> Refused, samples |-> 0,
          sampling |-> "default", manifest |-> CHOOSE m \in Manifests : TRUE,
          parents |-> {}, budget |-> NoBudget, held |-> AnyConfig, trained |-> NotTrained]

Terminal == {"rejected", "smoke_failed", "completed", "failed"}

Init ==
  /\ ImagesInit
  /\ run = [r \in RunIds |-> NoRun]

Completed == {r \in RunIds : run[r].status = "completed"}
At(r, pc) == run[r].pc = pc
Update(r, record) ==
  /\ run' = [run EXCEPT ![r] = record]
  /\ UNCHANGED imageVars
-----------------------------------------------------------------------------
\* run-candidate up to its call of prepare_candidate_run_from_workspace: the
\* options are merged and a docker Run passes the gate or is told to skip it.
RunCandidate(r, o) ==
  LET options == MergedBackend(config, o)
  IN /\ run[r] = NoRun
     /\ ValidConfig(config) /\ ~SamplingRefused(config, o.sampling)
     /\ options.backend = "docker" => o.skip \/ StampIsFresh
     /\ Update(r, [NoRun EXCEPT !.pc = "preparing", !.options = options,
                                !.samples = SampleBound(config, o.samples),
                                !.sampling = config.sampling])

\* The Run prepare_candidate_submission leaves: rejected, or about to be smoke-tested.
Prepared(record, options, manifest, request, step) ==
  LET decision == Decide(config, request, Completed)
  IN IF ~CandidateAllowed(config, manifest) THEN [NoRun EXCEPT !.status = "rejected"]
     ELSE [record EXCEPT !.status = "smoke_testing", !.pc = step, !.options = options,
                         !.manifest = manifest, !.parents = request.parents,
                         !.budget = ForManifest(decision, manifest)]

\* prepare_candidate_run_from_workspace reads the configuration again; so does
\* the supervisor, which smoke-tests next.
Prepare(r, manifest, request) ==
  /\ At(r, "preparing") /\ ValidConfig(config)
  /\ BackendForDecision(config, run[r].options, Decide(config, request, Completed)) # Refused
  /\ Update(r, Prepared(run[r], run[r].options, manifest, request, "smoke"))

\* The command ends with an error and without a Run.
PrepareRaises(r, request) ==
  /\ At(r, "preparing")
  /\ \/ ~ValidConfig(config)
     \/ BackendForDecision(config, run[r].options, Decide(config, request, Completed)) = Refused
  /\ Update(r, NoRun)

\* An ingested Candidate: execute_next_action uses the configured backend and
\* keeps the configuration it has read until the smoke test is over.
Submit(r, manifest, request) ==
  /\ run[r] = NoRun /\ ValidConfig(config)
  /\ BackendForDecision(config, ConfiguredBackend(config), Decide(config, request, Completed)) # Refused
  /\ Update(r, Prepared([NoRun EXCEPT !.held = config], ConfiguredBackend(config),
                        manifest, request, "submitted"))

\* _apply_budget_metadata: later writes of the metadata keep the budget.  The
\* arguments of a process end with it, and of a terminal Run nothing but its status
\* is read again.
Written(record, status, step) ==
  IF status \in Terminal THEN [NoRun EXCEPT !.status = status]
  ELSE IF step = "none"
  THEN [record EXCEPT !.status = status, !.pc = step, !.options = Refused, !.samples = 0,
                      !.sampling = "default", !.held = AnyConfig]
  ELSE [record EXCEPT !.status = status, !.pc = step]

\* The smoke test of submit_candidate; a native Run then trains in the same process.
SubmissionSmokeTests(r, passed) ==
  /\ At(r, "submitted")
  /\ Update(r, IF passed
                THEN Written(run[r], "accepted",
                             IF run[r].options.backend = "native" THEN "train_here" ELSE "none")
                ELSE Written(run[r], "smoke_failed", "none"))

\* smoke_prepared_run_from_workspace, in the supervisor.
SmokeTests(r, passed) ==
  /\ At(r, "smoke") /\ ValidConfig(config)
  /\ SelectBackend(run[r].options, config.timeout) # Refused
  /\ Update(r, IF passed THEN Written(run[r], "accepted", "train")
                         ELSE Written(run[r], "smoke_failed", "none"))

\* continue-run raises: the Run fails durably, unless the configuration, which
\* the handler reads again, is invalid by now.
SupervisorRaises(r) ==
  Update(r, Written(run[r], IF ValidConfig(config) THEN "failed" ELSE run[r].status, "none"))

SmokeRaises(r) ==
  /\ At(r, "smoke")
  /\ ~ValidConfig(config) \/ SelectBackend(run[r].options, config.timeout) = Refused
  /\ SupervisorRaises(r)

\* The process is killed; the Run keeps its status.
ProcessDies(r) ==
  /\ run[r].pc \in {"submitted", "smoke", "train", "train_here"}
  /\ Update(r, Written(run[r], run[r].status, "none"))

\* A mutant: the source is validated again without the training policy.
PreparedWithinContract(c, manifest) == ContractHolds(manifest)

\* _validate_prepared_candidate_policy, of the source copied into the Run.
PreparedWithinPolicy(c, manifest) == CandidateAllowed(c, manifest)

\* start_prepared_run_from_workspace for an accepted Run nobody supervises.
Relaunch(r) ==
  /\ At(r, "none") /\ run[r].status = "accepted"
  /\ ValidConfig(config) /\ config.backend = "docker"
  /\ PreparedWithinPolicy(config, run[r].manifest)
  /\ Update(r, [run[r] EXCEPT !.pc = "train", !.options = ConfiguredBackend(config),
                              !.samples = config.maxSamples, !.sampling = config.sampling])

Trains(r, epochs, samples, backend, c) ==
  Update(r, [Written(run[r], "training", "none") EXCEPT
               !.trained = [epochs |-> epochs, samples |-> samples,
                            backend |-> backend, config |-> c]])

\* A mutant: an options error of the backend is not raised.
CanTrainAnyway(r) ==
  /\ ValidConfig(config)
  /\ PreparedWithinPolicy(config, run[r].manifest)
  /\ ~SamplingRefused(config, run[r].sampling)

\* What train_prepared_run_from_workspace checks, in its order.
CanTrain(r) ==
  /\ ValidConfig(config)
  /\ BackendForPrepared(config, run[r].options, run[r].budget.timeout) # Refused
  /\ PreparedWithinPolicy(config, run[r].manifest)
  /\ ~SamplingRefused(config, run[r].sampling)

Train(r) ==
  /\ At(r, "train") /\ CanTrain(r)
  /\ Trains(r, run[r].budget.epochs, SampleBound(config, run[r].samples),
            BackendForPrepared(config, run[r].options, run[r].budget.timeout), config)

TrainRaises(r) ==
  /\ At(r, "train") /\ ~CanTrain(r)
  /\ SupervisorRaises(r)

\* A native workspace trains an ingested Candidate in the process that submitted
\* it, or resumes an accepted Run with the configuration of now.
TrainHere(r) ==
  /\ At(r, "train_here")
  /\ Trains(r, run[r].budget.epochs, run[r].held.maxSamples,
            BackendFromConfig(run[r].held), run[r].held)

ResumeHere(r) ==
  /\ At(r, "none") /\ run[r].status = "accepted"
  /\ ValidConfig(config) /\ config.backend = "native"
  /\ PreparedWithinPolicy(config, run[r].manifest)
  /\ LET backend == BackendForPrepared(config, ConfiguredBackend(config), run[r].budget.timeout)
     IN /\ backend # Refused
        /\ Trains(r, run[r].budget.epochs, config.maxSamples, backend, config)

TrainingEnds(r, status) ==
  /\ run[r].status = "training"
  /\ Update(r, Written(run[r], status, "none"))

RunStep(r) ==
  \/ \E o \in CommandOptions : RunCandidate(r, o)
  \/ \E m \in Manifests, q \in Requests : Prepare(r, m, q) \/ Submit(r, m, q)
  \/ \E q \in Requests : PrepareRaises(r, q)
  \/ \E passed \in BOOLEAN : SmokeTests(r, passed) \/ SubmissionSmokeTests(r, passed)
  \/ SmokeRaises(r) \/ ProcessDies(r) \/ Relaunch(r) \/ Train(r) \/ TrainRaises(r)
  \/ TrainHere(r) \/ ResumeHere(r)
  \/ \E status \in {"completed", "failed"} : TrainingEnds(r, status)

Next ==
  \/ ImagesStep /\ UNCHANGED run
  \/ \E r \in RunIds : RunStep(r)

Spec == Init /\ [][Next]_vars
-----------------------------------------------------------------------------
\* Types.  Only a backend that can be constructed ever trains, and no budget
\* exceeds the ceiling of candidate_execution_config.py.
TypeOK ==
  /\ \E c \in Configs : config = [c EXCEPT !.image = config.image]
  /\ config.image \in Tags \cup {c.image : c \in Configs} /\ identity \in Identities
  /\ edits \in 0..MaxEdits /\ builds \in 0..MaxBuilds
  /\ \A r \in RunIds :
       /\ run[r].status \in {"none", "smoke_testing", "accepted", "training"} \cup Terminal
       /\ run[r].pc \in {"none", "preparing", "submitted", "smoke", "train", "train_here"}
       /\ run[r].budget.epochs \in 0..EpochCeiling
       /\ IF run[r].status = "training"
          THEN run[r].trained.backend.backend \in {"native", "docker"}
          ELSE run[r].trained = NotTrained

\* A Run that trains under a late-improving budget trains in a container, for the
\* approved epochs and under the wall-clock budget approved with them, whatever the
\* configuration has become since, and its evidence is completed Runs
\* (budget_requests.py, _select_backend_for_prepared_run).
LateRunsAreBounded ==
  \A r \in RunIds :
    LET t == run[r].trained
        b == run[r].budget
    IN run[r].status = "training" /\ b.class = "late_improving" =>
         /\ t.backend.backend = "docker"
         /\ t.backend.timeout = b.timeout /\ b.timeout # 0
         /\ t.epochs = b.epochs
         /\ run[r].parents \subseteq Completed

\* A Candidate trains only if its source satisfies the policy of the configuration
\* it trains under, not merely the one it was prepared under, and an exploratory
\* Run stays within that configuration's epochs and samples
\* (_validate_prepared_candidate_policy, effective_execution_options).
TrainedWithinPolicy ==
  \A r \in RunIds :
    LET t == run[r].trained
    IN run[r].status = "training" =>
         /\ ValidConfig(t.config) /\ PolicyAllows(t.config, run[r].manifest)
         /\ run[r].budget.class = "exploratory" => t.epochs <= t.config.maxEpochs
         /\ t.config.maxSamples # 0 => t.samples \in 1..t.config.maxSamples

\* When the last build ran to its end and was validated with nothing changing
\* meanwhile, a Run that passes the gate with the configured image tag runs an
\* image of the present Harness identity and the requirements configured now, however
\* often the workspace was edited, upgraded or rebuilt before
\* (validate_runtime_images, require_runtime_image_validation).
AdmittedImageIsCurrent ==
  [][\A r \in RunIds, o \in CommandOptions :
       /\ RunCandidate(r, o) /\ run'[r].options.backend = "docker"
       /\ sound /\ stamped /\ ~o.skip /\ o.image = 0 /\ config.image # 0
       => images[run'[r].options.image] = [identity |-> identity,
                                           requirements |-> config.requirements]]_vars
=============================================================================
