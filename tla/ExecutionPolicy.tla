-------------------------- MODULE ExecutionPolicy --------------------------
(***************************************************************************)
(* What the Workspace Configuration allows and decides: validity of the    *)
(* [candidate_execution] table (candidate_execution_config.py), the budget *)
(* of a Candidate (budget_requests.py), and the backend and the options a  *)
(* Run gets (research_loop_operations.py).  Pure operators.  0 stands for  *)
(* None in optional numbers; images, devices and users are numbers too.    *)
(***************************************************************************)
EXTENDS Integers

EpochCeiling == 100
BatchCeiling == 32
ParallelCeiling == 4
SchedulerNames == {"constant_lr", "cosine_decay", "reduce_on_plateau"}

\* CandidateExecutionConfig as it stands in the file, valid or not, with the
\* requirements and the runner image that runtime_images.py reads beside it.
ConfigType ==
  [backend : STRING, image : Nat, gpu : BOOLEAN, device : Nat, user : Nat, rootless : BOOLEAN,
   maxEpochs : Int, maxBatch : Int, schedulers : SUBSET STRING, stopping : STRING,
   maxParallel : Int, lateEpochs : Nat, lateTimeout : Nat, timeout : Nat, maxSamples : Nat,
   sampling : STRING, requirements : Nat, runnerImage : Nat]

\* DEFAULT_DOCKER_IMAGE, "ml-autoresearch-runner:local".
LocalImage == 99

\* load_candidate_execution_config raises unless all of this holds.
ValidConfig(c) ==
  /\ c.backend \in {"native", "docker"}
  /\ c.maxEpochs \in 1..EpochCeiling
  /\ c.maxBatch \in 1..BatchCeiling
  /\ c.schedulers \subseteq SchedulerNames /\ c.schedulers # {}
  /\ c.stopping \in {"disabled", "optional", "required"}
  /\ c.maxParallel \in 1..ParallelCeiling
  /\ c.lateEpochs # 0 => c.lateEpochs \in c.maxEpochs..EpochCeiling
  /\ (c.lateEpochs = 0) = (c.lateTimeout = 0)
  /\ c.timeout # 0 /\ c.lateTimeout # 0 => c.lateTimeout >= c.timeout
  /\ c.backend = "native" =>
       /\ ~c.gpu /\ c.device = 0 /\ c.user = 0 /\ ~c.rootless
       /\ c.timeout = 0 /\ c.lateTimeout = 0
  /\ c.device # 0 => c.gpu
  /\ c.user = 0 \/ ~c.rootless

ImageOf(c) == IF c.image = 0 THEN LocalImage ELSE c.image

\* The backend options of the configuration itself.
ConfiguredBackend(c) ==
  [backend |-> c.backend, image |-> ImageOf(c), gpu |-> c.gpu, device |-> c.device,
   user |-> c.user, rootless |-> c.rootless]

\* A flag of the command line is "on", "off" or left to the configuration.
Flag(given, default) == IF given = "default" THEN default ELSE given = "on"

\* effective_candidate_execution_backend_options: o holds the command line.
MergedBackend(c, o) ==
  IF o.backend # "docker"
  THEN [backend |-> o.backend, image |-> IF o.image = 0 THEN LocalImage ELSE o.image,
        gpu |-> Flag(o.gpu, FALSE), device |-> o.device, user |-> o.user,
        rootless |-> Flag(o.rootless, FALSE)]
  ELSE LET gpu == Flag(o.gpu, c.gpu)
           device == IF o.device = 0 THEN c.device ELSE o.device
       IN [backend |-> "docker", image |-> IF o.image = 0 THEN ImageOf(c) ELSE o.image,
           gpu |-> gpu, device |-> IF gpu THEN device ELSE 0,
           user |-> IF o.user # 0 THEN o.user
                    ELSE IF o.rootless = "on" THEN 0 ELSE c.user,
           rootless |-> o.user = 0 /\ Flag(o.rootless, c.rootless)]

\* select_execution_backend constructs a backend or raises; "timeout" is the
\* wall-clock budget the backend enforces.
Refused == [backend |-> "refused", image |-> 0, gpu |-> FALSE, device |-> 0,
            user |-> 0, rootless |-> FALSE, timeout |-> 0]
WithTimeout(b, seconds) ==
  [backend |-> b.backend, image |-> b.image, gpu |-> b.gpu, device |-> b.device,
   user |-> b.user, rootless |-> b.rootless, timeout |-> seconds]

SelectBackend(b, seconds) ==
  IF \/ b.backend = "native" /\ (b.gpu \/ b.device # 0 \/ b.user # 0 \/ b.rootless \/ seconds # 0)
     \/ b.backend = "docker" /\ ((b.device # 0 /\ ~b.gpu) \/ (b.user # 0 /\ b.rootless))
  THEN Refused
  ELSE WithTimeout(b, seconds)

\* execution_backend_from_config
BackendFromConfig(c) == WithTimeout(ConfiguredBackend(c), c.timeout)

\* _select_backend_for_budget_decision
BackendForDecision(c, b, decision) ==
  IF b = ConfiguredBackend(c) /\ (b.backend = "native" \/ decision.timeout = c.timeout)
  THEN BackendFromConfig(c)
  ELSE SelectBackend(b, decision.timeout)

\* _prepared_run_training_timeout: what the metadata records, or else the
\* exploratory budget of the current configuration.
PreparedTimeout(c, recorded) == IF recorded = 0 THEN c.timeout ELSE recorded

\* A mutant: the configured backend is reused whatever budget the Run has.
BackendForPreparedByOptions(c, b, recorded) ==
  IF b = ConfiguredBackend(c)
  THEN BackendFromConfig(c)
  ELSE SelectBackend(b, PreparedTimeout(c, recorded))

\* _select_backend_for_prepared_run
BackendForPrepared(c, b, recorded) ==
  IF b = ConfiguredBackend(c) /\ PreparedTimeout(c, recorded) = c.timeout
  THEN BackendFromConfig(c)
  ELSE SelectBackend(b, PreparedTimeout(c, recorded))
-----------------------------------------------------------------------------
\* A budget request is absent ("none"), unreadable ("malformed") or asks for more
\* epochs ("late") with some parent Runs as evidence.
Exploratory(c, status) ==
  [status |-> status, class |-> "exploratory", epochs |-> c.maxEpochs, timeout |-> c.timeout]

\* decide_candidate_budget, where "completed" holds of parents with completed
\* metadata and no failure classification.
Decide(c, request, completed) ==
  IF request.kind = "none" THEN Exploratory(c, "not_requested")
  ELSE IF /\ request.kind = "late"
          /\ c.lateEpochs # 0
          /\ request.epochs \in (c.maxEpochs + 1)..c.lateEpochs
          /\ request.parents \subseteq completed
       THEN [status |-> "approved", class |-> "late_improving",
             epochs |-> request.epochs, timeout |-> c.lateTimeout]
       ELSE Exploratory(c, "denied")

\* with_source_manifest_max_epochs
ForManifest(decision, manifest) ==
  IF decision.status = "approved" THEN decision
  ELSE [decision EXCEPT !.epochs = manifest.epochs]

\* The source contract of a manifest that no configuration changes; "contract"
\* sums up files, sections, allowlists and formats.
ContractHolds(m) ==
  /\ m.contract
  /\ m.epochs \in 1..EpochCeiling /\ m.batch \in 1..BatchCeiling
  /\ m.stops => m.patience < m.epochs

\* _validate_candidate_training_policy
PolicyAllows(c, m) ==
  /\ m.epochs <= c.maxEpochs
  /\ m.batch <= c.maxBatch
  /\ m.scheduler \in c.schedulers
  /\ c.stopping = "disabled" => ~m.stops
  /\ c.stopping = "required" => m.stops

\* validate_candidate_directory
CandidateAllowed(c, m) == ContractHolds(m) /\ PolicyAllows(c, m)

\* effective_execution_options: the bound on samples, and whether the command's
\* prediction sample policy is refused.
Smaller(a, b) == IF a < b THEN a ELSE b
SampleBound(c, given) ==
  IF given = 0 THEN c.maxSamples
  ELSE IF c.maxSamples = 0 THEN given ELSE Smaller(c.maxSamples, given)
SamplingRefused(c, given) == given # "default" /\ given # c.sampling
=============================================================================
