------------------------- MODULE WorkspaceRunsProofs -------------------------
(***************************************************************************)
(* Proofs about WorkspaceRuns, for any configurations, command lines,      *)
(* manifests, budget requests and Runs, and any number of edits and        *)
(* builds.  ImagesInv ties the images a finished build left to its         *)
(* metadata, and the stamp to both; RunInv says what a process between two *)
(* readings of the configuration may rely on.                              *)
(***************************************************************************)
EXTENDS WorkspaceRuns, TLAPS

-----------------------------------------------------------------------------
(* Runtime images *)

BuilderPcs == {"idle", "runner", "agent", "metadata", "agent_metadata"}

\* The records the build and the validation keep.
ImagesShape ==
  /\ DOMAIN images = Tags /\ identity \in Identities
  /\ builder = [pc |-> builder.pc, identity |-> builder.identity,
                requirements |-> builder.requirements]
  /\ builder.pc \in BuilderPcs
  /\ builder.pc = "idle" => builder = Idle
  /\ builder.pc # "idle" => builder.identity \in Identities
  /\ validator = [pc |-> validator.pc, identity |-> validator.identity,
                  tag |-> validator.tag, alone |-> validator.alone]

\* What a build that nothing disturbs has left so far.
Built ==
  sound =>
    /\ builder.pc = "runner" => builder.identity = identity
    /\ builder.pc \in {"agent", "metadata", "agent_metadata"} =>
         images[DefaultTag(builder.identity)] =
           [identity |-> builder.identity, requirements |-> builder.requirements]
    /\ builder.pc = "agent_metadata" =>
         runnerMetadata = [identity |-> builder.identity, tag |-> DefaultTag(builder.identity),
                           requirements |-> builder.requirements]
    /\ builder.pc = "idle" =>
         images[runnerMetadata.tag] =
           [identity |-> runnerMetadata.identity, requirements |-> runnerMetadata.requirements]

\* What a validation that nothing disturbs has seen.
Validated ==
  /\ validator.alone =>
       /\ builder.pc = "idle"
       /\ validator.pc = "stamp"
       /\ validator.identity = runnerMetadata.identity
       /\ validator.tag = runnerMetadata.tag
       /\ config.requirements = runnerMetadata.requirements
  /\ stamped =>
       /\ builder.pc = "idle"
       /\ stamp.identity = runnerMetadata.identity
       /\ stamp.tag = runnerMetadata.tag
       /\ stamp.config.requirements = runnerMetadata.requirements

ImagesInv == ImagesShape /\ Built /\ Validated

\* There is no build, no validation and no stamp at the start.
LEMMA ImagesAtFirst == ImagesInit => ImagesInv
<1> SUFFICES ASSUME ImagesInit PROVE ImagesInv
  OBVIOUS
<1>1. identity \in Identities
  BY ImagesAssumption DEF ImagesInit
<1>2. ImagesShape
  BY <1>1 DEF ImagesInit, ImagesShape, BuilderPcs, Idle, NotValidating
<1>3. Built
  BY DEF ImagesInit, Built
<1>4. Validated
  BY DEF ImagesInit, Validated, NotValidating
<1> QED BY <1>2, <1>3, <1>4 DEF ImagesInv

\* A disturbance of the images' records that an edit or an upgrade is.
LEMMA ChangesKeep ==
  ASSUME ImagesInv, Changes, identity' \in Identities
  PROVE  ImagesInv'
<1>1. /\ UNCHANGED <<images, runnerMetadata, agentMetadata, stamp, builder, stamped>>
      /\ validator' = [pc |-> validator.pc, identity |-> validator.identity,
                       tag |-> validator.tag, alone |-> FALSE]
  BY DEF Changes, diskVars, ImagesInv, ImagesShape
<1>2. sound' => sound /\ builder.pc = "idle"
  <2>1. builder = Idle => builder.pc = "idle"
    BY DEF Idle
  <2>2. sound' = (sound /\ builder = Idle)
    BY DEF Changes
  <2> QED BY <2>1, <2>2, Zenon
<1>3. ImagesShape'
  BY <1>1 DEF ImagesInv, ImagesShape
<1>4. Built'
  BY <1>1, <1>2 DEF ImagesInv, Built
<1>5. Validated'
  BY <1>1 DEF ImagesInv, Validated
<1> QED BY <1>3, <1>4, <1>5 DEF ImagesInv

\* Every step of the images keeps it.
LEMMA ImagesKept ==
  ASSUME ImagesInv, ImagesStep
  PROVE  ImagesInv'
<1>0. /\ ImagesShape /\ Built /\ Validated
      /\ \A i \in Identities : DefaultTag(i) \in Tags
  BY DEF ImagesInv, Tags
<1>1. ASSUME NEW mode \in BuildModes, BuildStarts(mode) PROVE ImagesInv'
  <2>1. /\ builder' = [pc |-> IF mode = "execute" THEN "runner" ELSE "metadata",
                       identity |-> identity, requirements |-> config.requirements]
        /\ validator' = [pc |-> validator.pc, identity |-> validator.identity,
                         tag |-> validator.tag, alone |-> FALSE]
        /\ UNCHANGED <<config, identity, images, runnerMetadata, stamp>>
    BY <1>0, <1>1 DEF BuildStarts, diskVars, ImagesShape
  <2>2. stamped' = FALSE /\ (sound' => mode = "execute")
    BY <1>1 DEF BuildStarts
  <2>3. ImagesShape'
    BY <1>0, <2>1 DEF ImagesShape, BuilderPcs
  <2>4. Built'
    BY <2>1, <2>2 DEF Built
  <2>5. Validated'
    BY <2>1, <2>2 DEF Validated
  <2> QED BY <2>3, <2>4, <2>5 DEF ImagesInv
<1>2. ASSUME NEW pc \in BuilderPcs \ {"idle"}, BuilderGoesTo(pc), builder.pc # "idle"
      PROVE  /\ builder' = [pc |-> pc, identity |-> builder.identity,
                            requirements |-> builder.requirements]
             /\ UNCHANGED <<config, identity, stamp, validator, sound, stamped>>
             /\ ~validator.alone /\ ~stamped /\ Validated'
  <2>1. /\ builder' = [pc |-> pc, identity |-> builder.identity,
                       requirements |-> builder.requirements]
        /\ UNCHANGED <<config, identity, stamp, validator, sound, stamped>>
    BY <1>0, <1>2 DEF BuilderGoesTo, ImagesShape
  <2>2. ~validator.alone /\ ~stamped
    BY <1>0, <1>2 DEF Validated
  <2> QED BY <2>1, <2>2 DEF Validated
<1>3. ASSUME BuildRunner PROVE ImagesInv'
  <2>1. /\ builder.pc = "runner" /\ BuilderGoesTo("agent") /\ UNCHANGED runnerMetadata
        /\ images' = [images EXCEPT ![DefaultTag(builder.identity)] =
                        [identity |-> identity, requirements |-> builder.requirements]]
    BY <1>3 DEF BuildRunner
  <2>2. /\ builder' = [pc |-> "agent", identity |-> builder.identity,
                       requirements |-> builder.requirements]
        /\ UNCHANGED <<identity, validator, sound>> /\ Validated'
    BY <1>2, <2>1 DEF BuilderPcs
  <2>3. images'[DefaultTag(builder.identity)] =
          [identity |-> identity, requirements |-> builder.requirements]
    BY <1>0, <2>1 DEF ImagesShape
  <2>4. ImagesShape'
    BY <1>0, <2>1, <2>2 DEF ImagesShape, BuilderPcs
  <2>5. Built'
    BY <1>0, <2>1, <2>2, <2>3 DEF Built
  <2> QED BY <2>2, <2>4, <2>5 DEF ImagesInv
<1>4. ASSUME BuildAgent PROVE ImagesInv'
  <2>1. builder.pc = "agent" /\ BuilderGoesTo("metadata") /\ UNCHANGED <<images, runnerMetadata>>
    BY <1>4 DEF BuildAgent
  <2>2. /\ builder' = [pc |-> "metadata", identity |-> builder.identity,
                       requirements |-> builder.requirements]
        /\ UNCHANGED <<identity, validator, sound>> /\ Validated'
    BY <1>2, <2>1 DEF BuilderPcs
  <2>3. ImagesShape'
    BY <1>0, <2>1, <2>2 DEF ImagesShape, BuilderPcs
  <2>4. Built'
    BY <1>0, <2>1, <2>2 DEF Built
  <2> QED BY <2>2, <2>3, <2>4 DEF ImagesInv
<1>5. ASSUME CommandFails PROVE ImagesInv'
  <2>1. /\ builder' = Idle /\ sound' = FALSE
        /\ UNCHANGED <<config, identity, images, runnerMetadata, stamp, validator, stamped>>
    BY <1>5 DEF CommandFails, diskVars
  <2>2. ImagesShape'
    BY <1>0, <2>1 DEF ImagesShape, BuilderPcs, Idle
  <2>3. Validated'
    BY <1>0, <2>1 DEF Validated, Idle
  <2> QED BY <2>1, <2>2, <2>3 DEF ImagesInv, Built
<1>6. ASSUME WriteRunnerMetadata PROVE ImagesInv'
  <2>1. /\ builder.pc = "metadata" /\ BuilderGoesTo("agent_metadata") /\ UNCHANGED images
        /\ runnerMetadata' = [identity |-> builder.identity, tag |-> DefaultTag(builder.identity),
                              requirements |-> builder.requirements]
    BY <1>6 DEF WriteRunnerMetadata
  <2>2. /\ builder' = [pc |-> "agent_metadata", identity |-> builder.identity,
                       requirements |-> builder.requirements]
        /\ UNCHANGED <<identity, validator, sound>> /\ Validated'
    BY <1>2, <2>1 DEF BuilderPcs
  <2>3. ImagesShape'
    BY <1>0, <2>1, <2>2 DEF ImagesShape, BuilderPcs
  <2>4. Built'
    BY <1>0, <2>1, <2>2 DEF Built
  <2> QED BY <2>2, <2>3, <2>4 DEF ImagesInv
<1>7. ASSUME NEW update \in BOOLEAN, FinishBuild(update) PROVE ImagesInv'
  <2>1. /\ builder.pc = "agent_metadata" /\ builder' = Idle
        /\ UNCHANGED <<identity, images, runnerMetadata, stamp, validator, sound, stamped>>
    BY <1>7 DEF FinishBuild
  <2>2. ~validator.alone /\ ~stamped
    BY <1>0, <2>1 DEF Validated
  <2>3. ImagesShape'
    BY <1>0, <2>1 DEF ImagesShape, BuilderPcs, Idle
  <2>4. Built'
    BY <1>0, <2>1 DEF Built, Idle
  <2>5. Validated'
    BY <2>1, <2>2 DEF Validated
  <2> QED BY <2>3, <2>4, <2>5 DEF ImagesInv
<1>8. ASSUME ValidateImages PROVE ImagesInv'
  <2>1. /\ validator' = [pc |-> "stamp", identity |-> identity, tag |-> RunnerTag,
                         alone |-> builder = Idle]
        /\ UNCHANGED <<config, identity, images, runnerMetadata, stamp, builder, sound, stamped>>
        /\ MetadataMatches
    BY <1>8 DEF ValidateImages, diskVars
  <2>2. ImagesShape'
    BY <1>0, <2>1 DEF ImagesShape
  <2>3. Built'
    BY <1>0, <2>1 DEF Built
  <2>4. builder = Idle => builder.pc = "idle"
    BY DEF Idle
  <2>5. Validated'
    BY <1>0, <2>1, <2>4 DEF Validated, MetadataMatches
  <2> QED BY <2>2, <2>3, <2>5 DEF ImagesInv
<1>9. ASSUME WriteStamp PROVE ImagesInv'
  <2>1. /\ stamp' = [identity |-> validator.identity, tag |-> validator.tag, config |-> config]
        /\ stamped' = validator.alone /\ validator' = NotValidating
        /\ UNCHANGED <<config, identity, images, runnerMetadata, builder, sound>>
    BY <1>9 DEF WriteStamp
  <2>2. ImagesShape'
    BY <1>0, <2>1 DEF ImagesShape, NotValidating
  <2>3. Built'
    BY <1>0, <2>1 DEF Built
  <2>4. Validated'
    BY <1>0, <2>1 DEF Validated, NotValidating
  <2> QED BY <2>2, <2>3, <2>4 DEF ImagesInv
<1>10. ASSUME NEW c \in Configs, EditConfig(c) PROVE ImagesInv'
  BY <1>0, <1>10, ChangesKeep DEF EditConfig, ImagesShape
<1>11. ASSUME NEW i \in Identities, ChangeHarness(i) PROVE ImagesInv'
  BY <1>0, <1>11, ChangesKeep DEF ChangeHarness
<1> QED
  BY <1>1, <1>3, <1>4, <1>5, <1>6, <1>7, <1>8, <1>9, <1>10, <1>11 DEF ImagesStep

\* A Run's step writes its record.
LEMMA RunStepWrites ==
  ASSUME NEW r \in RunIds, RunStep(r)
  PROVE  \E record : Update(r, record)
BY DEF RunStep, RunCandidate, Prepare, PrepareRaises, Submit, SmokeTests, SubmissionSmokeTests,
   SmokeRaises, SupervisorRaises, ProcessDies, Relaunch, Train, Trains, TrainRaises, TrainHere,
   ResumeHere, TrainingEnds

\* Runs do not touch the images.
LEMMA ImagesStepOrNot ==
  ASSUME ImagesInv, [Next]_vars
  PROVE  ImagesInv'
<1>1. ASSUME UNCHANGED imageVars PROVE ImagesInv'
  BY <1>1 DEF imageVars, diskVars, ImagesInv, ImagesShape, Built, Validated
<1>2. ASSUME NEW r \in RunIds, RunStep(r) PROVE UNCHANGED imageVars
  BY <1>2, RunStepWrites DEF Update
<1> QED BY <1>1, <1>2, ImagesKept DEF Next, vars

\* A Run that passes the gate after an undisturbed build and validation gets
\* the image of the present Harness and requirements.
LEMMA GateAdmitsTheImage ==
  ASSUME ImagesInv, NEW r \in RunIds, NEW o \in CommandOptions, RunCandidate(r, o),
         run'[r].options.backend = "docker", DOMAIN run = RunIds,
         sound, stamped, ~o.skip, o.image = 0, config.image # 0
  PROVE  images[run'[r].options.image] =
           [identity |-> identity, requirements |-> config.requirements]
<1> DEFINE options == MergedBackend(config, o)
<1>1. run'[r].options = options
  BY DEF RunCandidate, Update, NoRun
<1>2. o.backend = "docker" /\ options.backend = "docker"
  BY <1>1 DEF MergedBackend
<1>3. options.image = config.image
  BY <1>2 DEF MergedBackend, ImageOf
<1>4. StampIsFresh
  BY <1>2 DEF RunCandidate
<1>5. /\ runnerMetadata.identity = identity /\ runnerMetadata.tag = config.image
      /\ runnerMetadata.requirements = config.requirements
  BY <1>4 DEF StampIsFresh, RunnerTag, ImagesInv, Validated
<1>6. images[runnerMetadata.tag] =
        [identity |-> runnerMetadata.identity, requirements |-> runnerMetadata.requirements]
  BY DEF ImagesInv, Built, Validated
<1> QED BY <1>1, <1>3, <1>5, <1>6

\* run is a function on the Runs.
LEMMA RunsStayRuns ==
  ASSUME DOMAIN run = RunIds, [Next]_vars
  PROVE  DOMAIN run' = RunIds
<1>1. ASSUME NEW r \in RunIds, NEW record, Update(r, record) PROVE DOMAIN run' = RunIds
  BY <1>1 DEF Update
<1> QED BY <1>1, RunStepWrites DEF Next, vars

\* require_runtime_image_validation admits current images only: when the last
\* build and its validation were undisturbed, an admitted Run has the image of
\* the present Harness and of the requirements configured now.
THEOREM GateIsCurrent == Spec => AdmittedImageIsCurrent
<1> DEFINE Inv == ImagesInv /\ DOMAIN run = RunIds
<1>1. Init => Inv
  BY ImagesAtFirst DEF Init
<1>2. Inv /\ [Next]_vars => Inv'
  BY ImagesStepOrNot, RunsStayRuns
<1>3. Inv /\ [Next]_vars =>
        [\A r \in RunIds, o \in CommandOptions :
           /\ RunCandidate(r, o) /\ run'[r].options.backend = "docker"
           /\ sound /\ stamped /\ ~o.skip /\ o.image = 0 /\ config.image # 0
           => images[run'[r].options.image] = [identity |-> identity,
                                               requirements |-> config.requirements]]_vars
  BY GateAdmitsTheImage
<1> QED BY <1>1, <1>2, <1>3, PTL DEF Spec, AdmittedImageIsCurrent

-----------------------------------------------------------------------------
(* What the policy's operators return *)

\* A budget is within the ceiling; a late-improving one was approved under a
\* wall-clock budget and on completed evidence, an exploratory one is the manifest's.
LEMMA BudgetOfManifest ==
  ASSUME NEW c \in ConfigType, NEW request, NEW completed, NEW manifest, ValidConfig(c),
         CandidateAllowed(c, manifest), manifest.epochs \in Nat, request.epochs \in Nat
  PROVE  LET b == ForManifest(Decide(c, request, completed), manifest)
         IN /\ b.epochs \in 0..EpochCeiling
            /\ b.class = "exploratory" => b.epochs = manifest.epochs
            /\ b.class = "late_improving" =>
                 b.timeout # 0 /\ c.lateEpochs # 0 /\ request.parents \subseteq completed
<1> DEFINE decision == Decide(c, request, completed)
           b == ForManifest(decision, manifest)
<1>1. CASE decision = Exploratory(c, "not_requested") \/ decision = Exploratory(c, "denied")
  <2>1. b.epochs = manifest.epochs /\ b.class = "exploratory"
    BY <1>1 DEF ForManifest, Exploratory
  <2>2. manifest.epochs \in 0..EpochCeiling
    BY DEF CandidateAllowed, ContractHolds, EpochCeiling
  <2> QED BY <2>1, <2>2
<1>2. CASE /\ decision = [status |-> "approved", class |-> "late_improving",
                          epochs |-> request.epochs, timeout |-> c.lateTimeout]
           /\ c.lateEpochs # 0 /\ request.epochs \in (c.maxEpochs + 1)..c.lateEpochs
           /\ request.parents \subseteq completed
  <2>1. b = decision
    BY <1>2 DEF ForManifest
  <2>2. c.lateTimeout # 0 /\ c.lateEpochs \in c.maxEpochs..EpochCeiling
    BY <1>2 DEF ValidConfig
  <2>3. request.epochs \in 0..EpochCeiling
    BY <1>2, <2>2 DEF EpochCeiling, ConfigType
  <2> QED BY <1>2, <2>1, <2>2, <2>3
<1>3. \/ decision = Exploratory(c, "not_requested") \/ decision = Exploratory(c, "denied")
      \/ /\ decision = [status |-> "approved", class |-> "late_improving",
                        epochs |-> request.epochs, timeout |-> c.lateTimeout]
         /\ c.lateEpochs # 0 /\ request.epochs \in (c.maxEpochs + 1)..c.lateEpochs
         /\ request.parents \subseteq completed
  BY DEF Decide
<1> QED BY <1>1, <1>2, <1>3

\* A prepared Run gets a backend that enforces the recorded wall-clock budget,
\* and only a container enforces one.
LEMMA BackendOfPrepared ==
  ASSUME NEW c, NEW b, NEW recorded, ValidConfig(c), b.backend \in {"native", "docker"},
         BackendForPrepared(c, b, recorded) # Refused
  PROVE  /\ BackendForPrepared(c, b, recorded).backend \in {"native", "docker"}
         /\ recorded # 0 => /\ BackendForPrepared(c, b, recorded).backend = "docker"
                            /\ BackendForPrepared(c, b, recorded).timeout = recorded
<1>1. CASE b = ConfiguredBackend(c) /\ PreparedTimeout(c, recorded) = c.timeout
  <2>1. BackendForPrepared(c, b, recorded) = WithTimeout(ConfiguredBackend(c), c.timeout)
    BY <1>1 DEF BackendForPrepared, BackendFromConfig
  <2>2. /\ BackendForPrepared(c, b, recorded).backend = c.backend
        /\ BackendForPrepared(c, b, recorded).timeout = c.timeout
    BY <2>1 DEF WithTimeout, ConfiguredBackend
  <2>3. c.backend \in {"native", "docker"} /\ (c.backend = "native" => c.timeout = 0)
    BY DEF ValidConfig
  <2>4. recorded # 0 => recorded = c.timeout
    BY <1>1 DEF PreparedTimeout
  <2> QED BY <2>2, <2>3, <2>4
<1>2. CASE ~(b = ConfiguredBackend(c) /\ PreparedTimeout(c, recorded) = c.timeout)
  <2> DEFINE seconds == PreparedTimeout(c, recorded)
  <2>1. BackendForPrepared(c, b, recorded) = SelectBackend(b, seconds)
    BY <1>2 DEF BackendForPrepared
  <2>2. /\ SelectBackend(b, seconds) = WithTimeout(b, seconds)
        /\ b.backend = "native" => seconds = 0
    BY <2>1 DEF SelectBackend
  <2>3. /\ BackendForPrepared(c, b, recorded).backend = b.backend
        /\ BackendForPrepared(c, b, recorded).timeout = seconds
    BY <2>1, <2>2 DEF WithTimeout
  <2>4. recorded # 0 => seconds = recorded
    BY DEF PreparedTimeout
  <2> QED BY <2>2, <2>3, <2>4
<1> QED BY <1>1, <1>2

\* The bound on samples never exceeds the configured one.
LEMMA SamplesBounded ==
  ASSUME NEW c, NEW given \in Nat, c.maxSamples \in Nat
  PROVE  /\ SampleBound(c, given) \in Nat
         /\ c.maxSamples # 0 => SampleBound(c, given) \in 1..c.maxSamples
  BY DEF SampleBound, Smaller

-----------------------------------------------------------------------------
(* What a Run may rely on *)

Places == {"none", "preparing", "submitted", "smoke", "train", "train_here"}
Backends == {"native", "docker"}

\* The metadata has its fields.
Shaped(x) ==
  x = [status |-> x.status, pc |-> x.pc, options |-> x.options, samples |-> x.samples,
       sampling |-> x.sampling, manifest |-> x.manifest, parents |-> x.parents,
       budget |-> x.budget, held |-> x.held, trained |-> x.trained]

\* The budget in the metadata.
BudgetOK(x) ==
  /\ x.budget.epochs \in 0..EpochCeiling
  /\ x.budget.class = "exploratory" => x.budget.epochs = x.manifest.epochs
  /\ x.budget.class = "late_improving" => x.budget.timeout # 0

\* The configuration a submitting process keeps from its decision to its training.
HeldOK(x) ==
  /\ ValidConfig(x.held) /\ x.held.maxSamples \in Nat /\ CandidateAllowed(x.held, x.manifest)
  /\ x.options = ConfiguredBackend(x.held)
  /\ x.budget.class = "late_improving" => x.held.lateEpochs # 0

\* Training t under the budget of the metadata.
TrainedOK(x, t) ==
  /\ t.backend.backend \in Backends
  /\ x.budget.class = "late_improving" =>
       t.backend.backend = "docker" /\ t.backend.timeout = x.budget.timeout
  /\ t.epochs = x.budget.epochs
  /\ ValidConfig(t.config) /\ PolicyAllows(t.config, x.manifest)
  /\ t.config.maxSamples # 0 => t.samples \in 1..t.config.maxSamples

RunOK(x) ==
  /\ Shaped(x)
  /\ x.status \in {"none", "smoke_testing", "accepted", "training"} \cup Terminal
  /\ x.pc \in Places /\ x.samples \in Nat /\ BudgetOK(x)
  /\ x.pc # "none" =>
       x.status \in {"none", "smoke_testing", "accepted"} /\ x.options.backend \in Backends
  /\ x.pc \in {"submitted", "train_here"} => HeldOK(x)
  /\ x.pc = "train_here" => x.options.backend = "native"
  /\ IF x.status = "training" THEN TrainedOK(x, x.trained) ELSE x.trained = NotTrained

\* A Run that is not there, or that is over.
LEMMA FreshRunOK ==
  /\ RunOK(NoRun)
  /\ \A status \in Terminal : RunOK([NoRun EXCEPT !.status = status])
<1>1. BudgetOK(NoRun)
  BY DEF BudgetOK, NoRun, NoBudget, EpochCeiling
<1>2. ASSUME NEW status \in Terminal, NEW x, x = [NoRun EXCEPT !.status = status]
      PROVE  RunOK(x)
  <2>1. /\ x.status = status /\ x.pc = "none" /\ x.samples = 0 /\ x.trained = NotTrained
        /\ x.budget = NoBudget /\ Shaped(x)
    BY <1>2 DEF NoRun, Shaped
  <2>2. BudgetOK(x)
    BY <2>1 DEF BudgetOK, NoBudget, EpochCeiling
  <2>3. status # "training"
    BY <1>2 DEF Terminal
  <2> QED BY <2>1, <2>2, <2>3 DEF RunOK, Places
<1>3. RunOK(NoRun)
  <2>1. /\ NoRun.status = "none" /\ NoRun.pc = "none" /\ NoRun.samples = 0
        /\ NoRun.trained = NotTrained /\ Shaped(NoRun)
    BY DEF NoRun, Shaped
  <2> QED BY <1>1, <2>1 DEF RunOK, Places
<1> QED BY <1>2, <1>3

\* The fields of a Run whose process begins, or that keeps its configuration.
Started(x, pc, options, samples, sampling) ==
  [x EXCEPT !.pc = pc, !.options = options, !.samples = samples, !.sampling = sampling]

LEMMA StartedFields ==
  ASSUME NEW x, Shaped(x), NEW pc, NEW options, NEW samples, NEW sampling, NEW y,
         y = Started(x, pc, options, samples, sampling)
  PROVE  /\ y.status = x.status /\ y.pc = pc /\ y.options = options
         /\ y.samples = samples /\ y.trained = x.trained /\ y.budget = x.budget
         /\ y.manifest = x.manifest /\ y.parents = x.parents /\ Shaped(y)
<1>1. y = [status |-> x.status, pc |-> pc, options |-> options, samples |-> samples,
           sampling |-> sampling, manifest |-> x.manifest, parents |-> x.parents,
           budget |-> x.budget, held |-> x.held, trained |-> x.trained]
  BY DEF Shaped, Started
<1> QED BY <1>1 DEF Shaped

LEMMA HeldFields ==
  ASSUME NEW x, Shaped(x), NEW c, NEW z, z = [x EXCEPT !.held = c]
  PROVE  /\ z.held = c /\ z.status = x.status /\ z.pc = x.pc /\ z.samples = x.samples
         /\ z.trained = x.trained /\ z.budget = x.budget /\ Shaped(z)
<1>1. z = [status |-> x.status, pc |-> x.pc, options |-> x.options, samples |-> x.samples,
           sampling |-> x.sampling, manifest |-> x.manifest, parents |-> x.parents,
           budget |-> x.budget, held |-> c, trained |-> x.trained]
  BY DEF Shaped
<1> QED BY <1>1 DEF Shaped

LEMMA NoRunFields ==
  /\ NoRun.status = "none" /\ NoRun.pc = "none" /\ NoRun.samples = 0
  /\ NoRun.trained = NotTrained /\ NoRun.budget = NoBudget /\ Shaped(NoRun)
BY DEF NoRun, Shaped

\* A process writes the status, and goes on or ends.
LEMMA WrittenOK ==
  ASSUME NEW x, RunOK(x), x.status # "training", NEW step \in {"none", "train", "train_here"},
         NEW status \in {"none", "smoke_testing", "accepted"} \cup Terminal,
         step # "none" => /\ status = "accepted" /\ x.options.backend \in Backends
                          /\ (step = "train_here" => HeldOK(x) /\ x.options.backend = "native")
  PROVE  RunOK(Written(x, status, step))
<1>1. CASE status \in Terminal
  BY <1>1, FreshRunOK DEF Written
<1>2. ASSUME status \notin Terminal, step = "none", NEW y,
             y = [x EXCEPT !.status = status, !.pc = step, !.options = Refused, !.samples = 0,
                           !.sampling = "default", !.held = AnyConfig]
      PROVE  RunOK(y)
  <2>1. y = [status |-> status, pc |-> step, options |-> Refused, samples |-> 0,
             sampling |-> "default", manifest |-> x.manifest, parents |-> x.parents,
             budget |-> x.budget, held |-> AnyConfig, trained |-> x.trained]
    BY <1>2 DEF RunOK, Shaped
  <2>2. /\ y.status = status /\ y.pc = "none" /\ y.samples = 0 /\ y.trained = x.trained
        /\ y.budget = x.budget /\ y.manifest = x.manifest /\ Shaped(y)
    BY <1>2, <2>1 DEF Shaped
  <2>3. BudgetOK(y) /\ status # "training" /\ x.trained = NotTrained
    BY <1>2, <2>2 DEF RunOK, BudgetOK
  <2> QED BY <1>2, <2>2, <2>3 DEF RunOK, Places
<1>3. ASSUME step # "none", NEW y, y = [x EXCEPT !.status = status, !.pc = step]
      PROVE  RunOK(y)
  <2>1. y = [status |-> status, pc |-> step, options |-> x.options, samples |-> x.samples,
             sampling |-> x.sampling, manifest |-> x.manifest, parents |-> x.parents,
             budget |-> x.budget, held |-> x.held, trained |-> x.trained]
    BY <1>3 DEF RunOK, Shaped
  <2>2. /\ y.status = "accepted" /\ y.pc = step /\ y.samples = x.samples /\ y.trained = x.trained
        /\ y.budget = x.budget /\ y.manifest = x.manifest /\ y.options = x.options
        /\ y.held = x.held /\ Shaped(y)
    BY <1>3, <2>1 DEF Shaped
  <2>3. BudgetOK(y) /\ x.trained = NotTrained
    BY <2>2 DEF RunOK, BudgetOK
  <2>4. HeldOK(x) => HeldOK(y)
    BY <2>2 DEF HeldOK
  <2> QED BY <1>3, <2>2, <2>3, <2>4 DEF RunOK, Places
<1>4. status = "accepted" => status \notin Terminal
  BY DEF Terminal
<1> QED BY <1>1, <1>2, <1>3, <1>4 DEF Written

\* Training begins.
Training(x, t) == [Written(x, "training", "none") EXCEPT !.trained = t]

LEMMA TrainsOK ==
  ASSUME NEW x, RunOK(x), NEW epochs, NEW samples, NEW backend, NEW c, NEW y,
         TrainedOK(x, [epochs |-> epochs, samples |-> samples, backend |-> backend, config |-> c]),
         y = Training(x, [epochs |-> epochs, samples |-> samples, backend |-> backend,
                          config |-> c])
  PROVE  RunOK(y) /\ y.budget = x.budget /\ y.parents = x.parents /\ y.status = "training"
<1>1. Written(x, "training", "none") =
        [x EXCEPT !.status = "training", !.pc = "none", !.options = Refused, !.samples = 0,
                  !.sampling = "default", !.held = AnyConfig]
  BY DEF Written, Terminal
<1>2. Written(x, "training", "none") =
        [status |-> "training", pc |-> "none", options |-> Refused, samples |-> 0,
         sampling |-> "default", manifest |-> x.manifest, parents |-> x.parents,
         budget |-> x.budget, held |-> AnyConfig, trained |-> x.trained]
  BY <1>1 DEF RunOK, Shaped
<1> DEFINE t == [epochs |-> epochs, samples |-> samples, backend |-> backend, config |-> c]
<1> HIDE DEF t
<1>3. y = [status |-> "training", pc |-> "none", options |-> Refused, samples |-> 0,
           sampling |-> "default", manifest |-> x.manifest, parents |-> x.parents,
           budget |-> x.budget, held |-> AnyConfig, trained |-> t]
  BY <1>2 DEF t, Training
<1>4. /\ y.status = "training" /\ y.pc = "none" /\ y.samples = 0 /\ y.trained = t
      /\ y.budget = x.budget /\ y.manifest = x.manifest /\ y.parents = x.parents /\ Shaped(y)
  BY <1>3 DEF Shaped
<1>5. TrainedOK(y, y.trained)
  BY <1>4 DEF TrainedOK, t
<1>6. BudgetOK(y)
  BY <1>4 DEF RunOK, BudgetOK
<1> QED BY <1>4, <1>5, <1>6 DEF RunOK, Places

\* A Run is prepared: rejected, or with a budget decided on completed evidence.
LEMMA PreparedOK ==
  ASSUME config \in ConfigType, ValidConfig(config), NEW x, RunOK(x), x.trained = NotTrained,
         NEW options, options.backend \in Backends, NEW manifest \in Manifests,
         NEW request \in Requests, NEW step \in {"smoke", "submitted"},
         step = "submitted" => x.held = config /\ options = ConfiguredBackend(config)
  PROVE  LET y == Prepared(x, options, manifest, request, step)
         IN RunOK(y) /\ (y.budget.class = "late_improving" => y.parents \subseteq Completed)
<1>1. CASE ~CandidateAllowed(config, manifest)
  <2>1. Prepared(x, options, manifest, request, step) = [NoRun EXCEPT !.status = "rejected"]
    BY <1>1 DEF Prepared
  <2>2. "rejected" \in Terminal /\ [NoRun EXCEPT !.status = "rejected"].budget.class = "none"
    BY DEF Terminal, NoRun, NoBudget
  <2> QED BY <2>1, <2>2, FreshRunOK
<1>2. CASE CandidateAllowed(config, manifest)
  <2> DEFINE b == ForManifest(Decide(config, request, Completed), manifest)
             y == Prepared(x, options, manifest, request, step)
  <2> HIDE DEF b
  <2>1. y = [x EXCEPT !.status = "smoke_testing", !.pc = step, !.options = options,
                      !.manifest = manifest, !.parents = request.parents, !.budget = b]
    BY <1>2 DEF Prepared, b
  <2>2. y = [status |-> "smoke_testing", pc |-> step, options |-> options, samples |-> x.samples,
             sampling |-> x.sampling, manifest |-> manifest, parents |-> request.parents,
             budget |-> b, held |-> x.held, trained |-> x.trained]
    BY <2>1 DEF RunOK, Shaped
  <2> HIDE DEF y
  <2>3. /\ y.status = "smoke_testing" /\ y.pc = step /\ y.options = options
        /\ y.samples = x.samples /\ y.manifest = manifest /\ y.parents = request.parents
        /\ y.budget = b /\ y.held = x.held /\ y.trained = NotTrained /\ Shaped(y)
    BY <2>2 DEF Shaped
  <2>4. /\ b.epochs \in 0..EpochCeiling
        /\ b.class = "exploratory" => b.epochs = manifest.epochs
        /\ b.class = "late_improving" =>
             b.timeout # 0 /\ config.lateEpochs # 0 /\ request.parents \subseteq Completed
    BY <1>2, BudgetOfManifest, RunsAssumption DEF b
  <2>5. BudgetOK(y)
    BY <2>3, <2>4 DEF BudgetOK
  <2>6. step = "submitted" => HeldOK(y)
    BY <1>2, <2>3, <2>4 DEF HeldOK, ConfigType
  <2>7. RunOK(y)
    BY <2>3, <2>5, <2>6 DEF RunOK, Places
  <2> QED BY <2>3, <2>4, <2>7 DEF y
<1> QED BY <1>1, <1>2

\* The evidence of a late-improving budget is completed Runs.
Evidence(x) == x.budget.class = "late_improving" => x.parents \subseteq Completed

\* What every Run may rely on, whatever the configuration says by now.
RunInv ==
  /\ DOMAIN run = RunIds /\ config \in ConfigType
  /\ \A r \in RunIds : RunOK(run[r]) /\ Evidence(run[r])

\* One Run is written at a time, and a completed one stays completed.
LEMMA UpdateKeeps ==
  ASSUME RunInv, NEW r \in RunIds, NEW y, Update(r, y), RunOK(y),
         y.budget.class = "late_improving" => y.parents \subseteq Completed,
         run[r].status # "completed"
  PROVE  RunInv'
<1>1. /\ run' = [run EXCEPT ![r] = y] /\ DOMAIN run' = RunIds /\ UNCHANGED config
  BY DEF Update, imageVars, RunInv
<1>2. run'[r] = y /\ \A q \in RunIds : q # r => run'[q] = run[q]
  BY <1>1 DEF RunInv
<1>3. Completed \subseteq Completed'
  BY <1>2 DEF Completed
<1>4. ASSUME NEW q \in RunIds PROVE RunOK(run'[q]) /\ Evidence(run[q])'
  <2>1. CASE q = r
    BY <1>2, <1>3, <2>1 DEF Evidence
  <2>2. CASE q # r
    BY <1>2, <1>3, <2>2 DEF Evidence, RunInv
  <2> QED BY <2>1, <2>2
<1> QED BY <1>1, <1>4 DEF RunInv

\* The edits and the builds leave a configuration with its fields.
LEMMA ConfigKept ==
  ASSUME RunInv, ImagesInv, ImagesStep
  PROVE  config' \in ConfigType
<1>1. CASE config' = config
  BY <1>1 DEF RunInv
<1>2. CASE config' \in Configs
  BY <1>2, RunsAssumption
<1>3. CASE \E update \in BOOLEAN : FinishBuild(update)
  <2>1. builder.identity \in Identities
    BY <1>3 DEF FinishBuild, ImagesInv, ImagesShape
  <2>2. DefaultTag(builder.identity) \in Nat
    <3>1. builder.identity \in 1..98
      BY <2>1, ImagesAssumption
    <3>2. builder.identity \in Nat
      BY <3>1
    <3> QED BY <3>2 DEF DefaultTag
  <2>3. ASSUME NEW tag \in Nat PROVE [config EXCEPT !.image = tag] \in ConfigType
    BY DEF RunInv, ConfigType
  <2>4. config' = config \/ config' = [config EXCEPT !.image = DefaultTag(builder.identity)]
    BY <1>3 DEF FinishBuild, WithRunnerTag
  <2> QED BY <1>1, <2>2, <2>3, <2>4
<1>4. config' = config \/ config' \in Configs \/ \E update \in BOOLEAN : FinishBuild(update)
  BY DEF ImagesStep, BuildStarts, BuildRunner, BuildAgent, BuilderGoesTo, CommandFails,
     WriteRunnerMetadata, ValidateImages, WriteStamp, EditConfig, ChangeHarness
<1> QED BY <1>1, <1>2, <1>3, <1>4

\* Writing the metadata keeps the budget.
LEMMA WrittenBudget ==
  ASSUME NEW x, RunOK(x), NEW status, NEW step
  PROVE  LET y == Written(x, status, step)
         IN y.budget.class = "late_improving" => y.budget = x.budget /\ y.parents = x.parents
<1> DEFINE y == Written(x, status, step)
<1>1. CASE status \in Terminal
  <2>1. y = [NoRun EXCEPT !.status = status]
    BY <1>1 DEF Written
  <2>2. y.budget.class = "none"
    BY <2>1 DEF NoRun, NoBudget
  <2> QED BY <2>2
<1>2. ASSUME status \notin Terminal, NEW z,
             \/ z = [x EXCEPT !.status = status, !.pc = step, !.options = Refused, !.samples = 0,
                              !.sampling = "default", !.held = AnyConfig]
             \/ z = [x EXCEPT !.status = status, !.pc = step]
      PROVE  z.budget = x.budget /\ z.parents = x.parents
  <2>1. \E options, samples, sampling, held :
          z = [status |-> status, pc |-> step, options |-> options, samples |-> samples,
               sampling |-> sampling, manifest |-> x.manifest, parents |-> x.parents,
               budget |-> x.budget, held |-> held, trained |-> x.trained]
    BY <1>2 DEF RunOK, Shaped
  <2> QED BY <2>1
<1> QED BY <1>1, <1>2 DEF Written

\* Every step of a Run keeps what it may rely on.
LEMMA RunStepKeeps ==
  ASSUME RunInv, NEW r \in RunIds, RunStep(r)
  PROVE  RunInv'
<1> DEFINE x == run[r]
<1>0. /\ RunOK(x) /\ Evidence(x) /\ config \in ConfigType
      /\ config.maxSamples \in Nat
      /\ x.pc # "none" => x.status \in {"none", "smoke_testing", "accepted"}
      /\ x.status # "training" => x.trained = NotTrained
  BY DEF RunInv, RunOK, ConfigType
<1>a. ASSUME NEW y, Update(r, y), RunOK(y), x.status # "completed",
             y.budget.class = "late_improving" => y.budget = x.budget /\ y.parents = x.parents
      PROVE  RunInv'
  <2>1. y.budget.class = "late_improving" => y.parents \subseteq Completed
    BY <1>0, <1>a DEF Evidence
  <2> QED BY <1>a, <2>1, UpdateKeeps
<1>b. ASSUME NEW step \in {"none", "train", "train_here"},
             NEW status \in {"none", "smoke_testing", "accepted"} \cup Terminal,
             Update(r, Written(x, status, step)), x.status \notin {"training", "completed"},
             step # "none" => /\ status = "accepted" /\ x.options.backend \in Backends
                              /\ (step = "train_here" => HeldOK(x) /\ x.options.backend = "native")
      PROVE  RunInv'
  BY <1>0, <1>a, <1>b, WrittenOK, WrittenBudget
<1>c. ValidConfig(config) => ConfiguredBackend(config).backend \in Backends
  BY DEF ValidConfig, ConfiguredBackend, Backends
<1>1. ASSUME NEW o \in CommandOptions, RunCandidate(r, o) PROVE RunInv'
  <2> DEFINE options == MergedBackend(config, o)
             y == Started(NoRun, "preparing", options, SampleBound(config, o.samples),
                          config.sampling)
  <2>1. x = NoRun /\ Update(r, y)
    BY <1>1 DEF RunCandidate, Started
  <2>2. options.backend \in Backends
    BY RunsAssumption DEF MergedBackend, Backends
  <2>3. SampleBound(config, o.samples) \in Nat
    BY <1>0, SamplesBounded, RunsAssumption
  <2>4. /\ y.status = "none" /\ y.pc = "preparing" /\ y.options = options
        /\ y.samples = SampleBound(config, o.samples) /\ y.trained = NotTrained
        /\ y.budget = NoBudget /\ Shaped(y)
    BY NoRunFields, StartedFields
  <2>5. BudgetOK(y) /\ y.budget.class = "none"
    BY <2>4 DEF BudgetOK, NoBudget, EpochCeiling
  <2>6. RunOK(y)
    BY <2>2, <2>3, <2>4, <2>5 DEF RunOK, Places
  <2>7. x.status = "none"
    BY <2>1 DEF NoRun
  <2> QED BY <1>a, <2>1, <2>5, <2>6, <2>7
<1>2. ASSUME NEW m \in Manifests, NEW q \in Requests, Prepare(r, m, q) PROVE RunInv'
  <2>1. /\ x.pc = "preparing" /\ ValidConfig(config)
        /\ Update(r, Prepared(x, x.options, m, q, "smoke"))
    BY <1>2 DEF Prepare, At
  <2>2. x.options.backend \in Backends /\ x.status \notin {"training", "completed"}
    BY <1>0, <2>1 DEF RunOK
  <2> QED BY <1>0, <2>1, <2>2, PreparedOK, UpdateKeeps
<1>3. ASSUME NEW m \in Manifests, NEW q \in Requests, Submit(r, m, q) PROVE RunInv'
  <2> DEFINE z == [NoRun EXCEPT !.held = config]
  <2>1. /\ x = NoRun /\ ValidConfig(config)
        /\ Update(r, Prepared(z, ConfiguredBackend(config), m, q, "submitted"))
    BY <1>3 DEF Submit
  <2>2. /\ z.held = config /\ z.status = "none" /\ z.pc = "none" /\ z.samples = 0
        /\ z.trained = NotTrained /\ z.budget = NoBudget /\ Shaped(z)
    BY NoRunFields, HeldFields
  <2>3. BudgetOK(z)
    BY <2>2 DEF BudgetOK, NoBudget, EpochCeiling
  <2>4. RunOK(z)
    BY <2>2, <2>3 DEF RunOK, Places
  <2>5. x.status = "none"
    BY <2>1 DEF NoRun
  <2> QED BY <1>0, <1>c, <2>1, <2>2, <2>4, <2>5, PreparedOK, UpdateKeeps
<1>4. ASSUME NEW q \in Requests, PrepareRaises(r, q) PROVE RunInv'
  <2>1. Update(r, NoRun) /\ x.status # "completed"
    BY <1>0, <1>4 DEF PrepareRaises, At
  <2>2. NoRun.budget.class = "none"
    BY DEF NoRun, NoBudget
  <2> QED BY <1>a, <2>1, <2>2, FreshRunOK
<1>5. ASSUME NEW passed \in BOOLEAN, SubmissionSmokeTests(r, passed) PROVE RunInv'
  <2>1. /\ x.pc = "submitted" /\ x.status \notin {"training", "completed"}
        /\ HeldOK(x) /\ x.options.backend \in Backends
    BY <1>0, <1>5 DEF SubmissionSmokeTests, At, RunOK
  <2>2. \/ Update(r, Written(x, "accepted", "none"))
        \/ Update(r, Written(x, "accepted", "train_here")) /\ x.options.backend = "native"
        \/ Update(r, Written(x, "smoke_failed", "none"))
    BY <1>5 DEF SubmissionSmokeTests
  <2> QED BY <1>b, <2>1, <2>2 DEF Terminal
<1>6. ASSUME NEW passed \in BOOLEAN, SmokeTests(r, passed) PROVE RunInv'
  <2>1. x.status \notin {"training", "completed"} /\ x.options.backend \in Backends
    BY <1>0, <1>6 DEF SmokeTests, At, RunOK
  <2>2. \/ Update(r, Written(x, "accepted", "train"))
        \/ Update(r, Written(x, "smoke_failed", "none"))
    BY <1>6 DEF SmokeTests
  <2> QED BY <1>b, <2>1, <2>2 DEF Terminal
<1>7. ASSUME x.pc # "none", SupervisorRaises(r) PROVE RunInv'
  <2>1. x.status \in {"none", "smoke_testing", "accepted"}
    BY <1>0, <1>7
  <2>2. Update(r, Written(x, "failed", "none")) \/ Update(r, Written(x, x.status, "none"))
    BY <1>7 DEF SupervisorRaises
  <2> QED BY <1>b, <2>1, <2>2 DEF Terminal
<1>8. ASSUME ProcessDies(r) PROVE RunInv'
  <2>1. x.pc # "none" /\ Update(r, Written(x, x.status, "none"))
    BY <1>8 DEF ProcessDies
  <2> QED BY <1>0, <1>b, <2>1
<1>9. ASSUME Relaunch(r) PROVE RunInv'
  <2> DEFINE y == Started(x, "train", ConfiguredBackend(config), config.maxSamples,
                          config.sampling)
  <2>1. x.status = "accepted" /\ ValidConfig(config) /\ Update(r, y)
    BY <1>9 DEF Relaunch, Started
  <2>2. Shaped(x)
    BY <1>0 DEF RunOK
  <2>3. /\ y.status = "accepted" /\ y.pc = "train" /\ y.options = ConfiguredBackend(config)
        /\ y.samples = config.maxSamples /\ y.trained = NotTrained /\ y.budget = x.budget
        /\ y.manifest = x.manifest /\ y.parents = x.parents /\ Shaped(y)
    BY <1>0, <2>1, <2>2, StartedFields
  <2> HIDE DEF y
  <2>4. BudgetOK(y)
    BY <1>0, <2>3 DEF RunOK, BudgetOK
  <2>5. RunOK(y)
    BY <1>0, <1>c, <2>1, <2>3, <2>4 DEF RunOK, Places
  <2> QED BY <1>a, <2>1, <2>3, <2>5
<1>d. ASSUME NEW samples, NEW backend, NEW c, x.status # "completed",
             TrainedOK(x, [epochs |-> x.budget.epochs, samples |-> samples, backend |-> backend,
                           config |-> c]),
             Trains(r, x.budget.epochs, samples, backend, c)
      PROVE  RunInv'
  <2> DEFINE trained == [epochs |-> x.budget.epochs, samples |-> samples,
                         backend |-> backend, config |-> c]
             y == Training(x, trained)
  <2>1. Update(r, y)
    BY <1>d DEF Trains, Training
  <2>2. RunOK(y) /\ y.budget = x.budget /\ y.parents = x.parents
    BY <1>0, <1>d, TrainsOK
  <2> QED BY <1>a, <1>d, <2>1, <2>2
<1>e. ASSUME NEW b, NEW given \in Nat, b.backend \in Backends, ValidConfig(config),
             BackendForPrepared(config, b, x.budget.timeout) # Refused,
             PreparedWithinPolicy(config, x.manifest)
      PROVE  TrainedOK(x, [epochs |-> x.budget.epochs, samples |-> SampleBound(config, given),
                           backend |-> BackendForPrepared(config, b, x.budget.timeout),
                           config |-> config])
  <2> DEFINE backend == BackendForPrepared(config, b, x.budget.timeout)
  <2>1. /\ backend.backend \in Backends
        /\ x.budget.timeout # 0 => backend.backend = "docker" /\ backend.timeout = x.budget.timeout
    BY <1>e, BackendOfPrepared DEF Backends
  <2>2. x.budget.class = "late_improving" => x.budget.timeout # 0
    BY <1>0 DEF RunOK, BudgetOK
  <2>3. config.maxSamples # 0 => SampleBound(config, given) \in 1..config.maxSamples
    BY <1>0, SamplesBounded
  <2>4. PolicyAllows(config, x.manifest)
    BY <1>e DEF PreparedWithinPolicy, CandidateAllowed
  <2> HIDE DEF backend
  <2>5. TrainedOK(x, [epochs |-> x.budget.epochs, samples |-> SampleBound(config, given),
                      backend |-> backend, config |-> config])
    BY <1>e, <2>1, <2>2, <2>3, <2>4 DEF TrainedOK
  <2> QED BY <2>5 DEF backend
<1>10. ASSUME Train(r) PROVE RunInv'
  <2>1. /\ x.pc = "train" /\ CanTrain(r)
        /\ Trains(r, x.budget.epochs, SampleBound(config, x.samples),
                  BackendForPrepared(config, x.options, x.budget.timeout), config)
    BY <1>10 DEF Train, At
  <2>2. /\ x.options.backend \in Backends /\ x.samples \in Nat /\ x.status # "completed"
    BY <1>0, <2>1 DEF RunOK
  <2> QED BY <1>d, <1>e, <2>1, <2>2 DEF CanTrain
<1>11. ASSUME TrainRaises(r) \/ SmokeRaises(r) PROVE RunInv'
  BY <1>7, <1>11 DEF TrainRaises, SmokeRaises, At
<1>12. ASSUME TrainHere(r) PROVE RunInv'
  <2> DEFINE backend == BackendFromConfig(x.held)
  <2>1. /\ x.pc = "train_here"
        /\ Trains(r, x.budget.epochs, x.held.maxSamples, backend, x.held)
    BY <1>12 DEF TrainHere, At
  <2>2. HeldOK(x) /\ x.options.backend = "native" /\ x.status # "completed"
    BY <1>0, <2>1 DEF RunOK
  <2>3. backend.backend = x.held.backend /\ x.options.backend = x.held.backend
    BY <2>2 DEF BackendFromConfig, WithTimeout, ConfiguredBackend, HeldOK
  <2>4. x.held.lateTimeout = 0 /\ (x.held.lateEpochs = 0) = (x.held.lateTimeout = 0)
    BY <2>2, <2>3 DEF HeldOK, ValidConfig
  <2>5. x.budget.class # "late_improving"
    BY <2>2, <2>4 DEF HeldOK
  <2>6. PolicyAllows(x.held, x.manifest) /\ ValidConfig(x.held) /\ x.held.maxSamples \in Nat
    BY <2>2 DEF HeldOK, CandidateAllowed
  <2> HIDE DEF backend
  <2>7. TrainedOK(x, [epochs |-> x.budget.epochs, samples |-> x.held.maxSamples,
                      backend |-> backend, config |-> x.held])
    BY <2>2, <2>3, <2>5, <2>6 DEF TrainedOK, Backends
  <2> QED BY <1>d, <2>1, <2>2, <2>7
<1>13. ASSUME ResumeHere(r) PROVE RunInv'
  <2> DEFINE backend == BackendForPrepared(config, ConfiguredBackend(config), x.budget.timeout)
  <2>1. /\ x.status = "accepted" /\ ValidConfig(config)
        /\ PreparedWithinPolicy(config, x.manifest) /\ backend # Refused
        /\ Trains(r, x.budget.epochs, config.maxSamples, backend, config)
    BY <1>13 DEF ResumeHere
  <2>2. SampleBound(config, 0) = config.maxSamples
    BY DEF SampleBound
  <2>3. TrainedOK(x, [epochs |-> x.budget.epochs, samples |-> config.maxSamples,
                      backend |-> backend, config |-> config])
    BY <1>c, <1>e, <2>1, <2>2
  <2> HIDE DEF backend
  <2> QED BY <1>d, <2>1, <2>3
<1>14. ASSUME NEW status \in {"completed", "failed"}, TrainingEnds(r, status) PROVE RunInv'
  <2>1. x.status = "training" /\ Update(r, Written(x, status, "none")) /\ status \in Terminal
    BY <1>14 DEF TrainingEnds, Terminal
  <2>2. Written(x, status, "none") = [NoRun EXCEPT !.status = status]
    BY <2>1 DEF Written
  <2>3. RunOK(Written(x, status, "none"))
    BY <2>1, <2>2, FreshRunOK
  <2> QED BY <1>0, <1>a, <2>1, <2>3, WrittenBudget
<1> QED
  BY <1>1, <1>2, <1>3, <1>4, <1>5, <1>6, <1>8, <1>9, <1>10, <1>11, <1>12, <1>13, <1>14
  DEF RunStep

\* The edits and the builds do not touch the Runs.
LEMMA ImagesStepKeeps ==
  ASSUME RunInv, ImagesInv, ImagesStep, UNCHANGED run
  PROVE  RunInv'
<1>1. config' \in ConfigType
  BY ConfigKept
<1>2. Completed' = Completed
  BY DEF Completed
<1> QED BY <1>1, <1>2 DEF RunInv, Evidence

LEMMA RunsAtFirst == Init => RunInv
<1> SUFFICES ASSUME Init PROVE RunInv
  OBVIOUS
<1>1. config \in ConfigType /\ run = [r \in RunIds |-> NoRun]
  BY RunsAssumption DEF Init, ImagesInit
<1>2. ~(NoRun.budget.class = "late_improving")
  BY NoRunFields DEF NoBudget
<1> QED BY <1>1, <1>2, FreshRunOK DEF RunInv, Evidence

\* What a Run relies on holds in every behaviour.
THEOREM Reliance == Spec => []RunInv
<1> DEFINE Inv == ImagesInv /\ RunInv
<1>1. Init => Inv
  BY ImagesAtFirst, RunsAtFirst DEF Init
<1>2. Inv /\ [Next]_vars => Inv'
  <2> SUFFICES ASSUME Inv, [Next]_vars PROVE RunInv'
    BY ImagesStepOrNot
  <2>1. CASE ImagesStep /\ UNCHANGED run
    BY <2>1, ImagesStepKeeps
  <2>2. ASSUME NEW r \in RunIds, RunStep(r) PROVE RunInv'
    BY <2>2, RunStepKeeps
  <2>3. CASE UNCHANGED vars
    <3>1. run' = run /\ config' = config
      BY <2>3 DEF vars, imageVars
    <3> QED BY <3>1 DEF RunInv, Evidence, Completed
  <2> QED BY <2>1, <2>2, <2>3 DEF Next
<1> QED BY <1>1, <1>2, PTL DEF Spec

\* A late-improving budget is honoured however the configuration is edited
\* between the decision and the training.
THEOREM LateBudgets == Spec => []LateRunsAreBounded
<1>1. RunInv => LateRunsAreBounded
  <2> SUFFICES ASSUME RunInv, NEW r \in RunIds, run[r].status = "training",
                      run[r].budget.class = "late_improving"
               PROVE  /\ run[r].trained.backend.backend = "docker"
                      /\ run[r].trained.backend.timeout = run[r].budget.timeout
                      /\ run[r].budget.timeout # 0
                      /\ run[r].trained.epochs = run[r].budget.epochs
                      /\ run[r].parents \subseteq Completed
    BY DEF LateRunsAreBounded
  <2>1. RunOK(run[r]) /\ Evidence(run[r])
    BY DEF RunInv
  <2> QED BY <2>1 DEF RunOK, TrainedOK, BudgetOK, Evidence
<1> QED BY <1>1, Reliance, PTL

\* A Candidate trains only within the policy of the configuration it trains
\* under, also when it was prepared under another one.
THEOREM PolicyAtTraining == Spec => []TrainedWithinPolicy
<1>1. RunInv => TrainedWithinPolicy
  <2> SUFFICES ASSUME RunInv, NEW r \in RunIds, run[r].status = "training"
               PROVE  LET t == run[r].trained
                      IN /\ ValidConfig(t.config) /\ PolicyAllows(t.config, run[r].manifest)
                         /\ run[r].budget.class = "exploratory" => t.epochs <= t.config.maxEpochs
                         /\ t.config.maxSamples # 0 => t.samples \in 1..t.config.maxSamples
    BY DEF TrainedWithinPolicy
  <2>1. RunOK(run[r])
    BY DEF RunInv
  <2> QED BY <2>1 DEF RunOK, TrainedOK, BudgetOK, PolicyAllows
<1> QED BY <1>1, Reliance, PTL

-----------------------------------------------------------------------------
(* Types *)

\* The configuration is one an operator wrote, up to the tag of a build.
ConfigWritten ==
  /\ \E c \in Configs : config = [c EXCEPT !.image = config.image]
  /\ config.image \in Tags \cup {c.image : c \in Configs}
  /\ edits \in 0..MaxEdits /\ builds \in 0..MaxBuilds

LEMMA WrittenAtFirst == Init => ConfigWritten
<1> SUFFICES ASSUME Init PROVE ConfigWritten
  OBVIOUS
<1>1. config \in Configs /\ config \in ConfigType /\ edits = 0 /\ builds = 0
  BY RunsAssumption DEF Init, ImagesInit
<1>2. config = [config EXCEPT !.image = config.image]
  BY <1>1 DEF ConfigType
<1> QED BY <1>1, <1>2, ImagesAssumption DEF ConfigWritten

LEMMA WrittenKept ==
  ASSUME ConfigWritten, ImagesShape, ImagesStep
  PROVE  ConfigWritten'
<1>0. /\ edits \in 0..MaxEdits /\ builds \in 0..MaxBuilds /\ MaxEdits \in Nat /\ MaxBuilds \in Nat
  BY ImagesAssumption DEF ConfigWritten
<1>1. CASE UNCHANGED <<config, edits, builds>>
  BY <1>1 DEF ConfigWritten
<1>2. ASSUME NEW mode \in BuildModes, BuildStarts(mode) PROVE ConfigWritten'
  <2>1. UNCHANGED <<config, edits>> /\ builds' \in 0..MaxBuilds
    BY <1>0, <1>2 DEF BuildStarts
  <2> QED BY <2>1 DEF ConfigWritten
<1>3. ASSUME NEW update \in BOOLEAN, FinishBuild(update) PROVE ConfigWritten'
  <2>1. UNCHANGED <<edits, builds>>
    BY <1>3 DEF FinishBuild
  <2>2. CASE config' = config
    BY <2>1, <2>2 DEF ConfigWritten
  <2>3. CASE config' = WithRunnerTag(config, DefaultTag(builder.identity))
    <3>1. DefaultTag(builder.identity) \in Tags
      BY <1>3 DEF FinishBuild, ImagesShape, Tags
    <3>2. PICK c \in Configs : config = [c EXCEPT !.image = config.image]
      BY DEF ConfigWritten
    <3>3. ASSUME NEW tag, NEW image, NEW d, d = [c EXCEPT !.image = image]
          PROVE  /\ [d EXCEPT !.image = tag] = [c EXCEPT !.image = tag]
                 /\ [d EXCEPT !.image = tag].image = tag
      BY <3>3, RunsAssumption DEF ConfigType
    <3>4. /\ config' = [c EXCEPT !.image = DefaultTag(builder.identity)]
          /\ config'.image = DefaultTag(builder.identity)
      BY <2>3, <3>2, <3>3 DEF WithRunnerTag
    <3> QED BY <2>1, <3>1, <3>4 DEF ConfigWritten
  <2> QED BY <1>3, <2>2, <2>3 DEF FinishBuild
<1>4. ASSUME NEW c \in Configs, EditConfig(c) PROVE ConfigWritten'
  <2>1. config' = c /\ builds' = builds /\ edits' \in 0..MaxEdits
    BY <1>0, <1>4 DEF EditConfig, Changes
  <2>2. c = [c EXCEPT !.image = c.image]
    BY RunsAssumption DEF ConfigType
  <2> QED BY <2>1, <2>2 DEF ConfigWritten
<1>5. ASSUME NEW i \in Identities, ChangeHarness(i) PROVE ConfigWritten'
  <2>1. config' = config /\ builds' = builds /\ edits' \in 0..MaxEdits
    BY <1>0, <1>5 DEF ChangeHarness, Changes
  <2> QED BY <2>1 DEF ConfigWritten
<1>6. ASSUME \/ BuildRunner \/ BuildAgent \/ CommandFails \/ WriteRunnerMetadata
             \/ ValidateImages \/ WriteStamp
      PROVE  UNCHANGED <<config, edits, builds>>
  BY <1>6 DEF BuildRunner, BuildAgent, BuilderGoesTo, CommandFails, WriteRunnerMetadata,
     ValidateImages, WriteStamp
<1> QED BY <1>1, <1>2, <1>3, <1>4, <1>5, <1>6 DEF ImagesStep

\* Only a backend that can be constructed trains, and no budget exceeds the ceiling.
THEOREM TypeCorrect == Spec => []TypeOK
<1> DEFINE Inv == ImagesInv /\ ConfigWritten
<1>1. Init => Inv
  BY ImagesAtFirst, WrittenAtFirst DEF Init
<1>2. Inv /\ [Next]_vars => Inv'
  <2> SUFFICES ASSUME Inv, [Next]_vars PROVE ConfigWritten'
    BY ImagesStepOrNot
  <2>1. CASE ImagesStep
    BY <2>1, WrittenKept DEF ImagesInv
  <2>2. CASE UNCHANGED imageVars
    BY <2>2 DEF imageVars, ConfigWritten
  <2>3. ASSUME NEW r \in RunIds, RunStep(r) PROVE UNCHANGED imageVars
    BY <2>3, RunStepWrites DEF Update
  <2> QED BY <2>1, <2>2, <2>3 DEF Next, vars
<1>3. Inv /\ RunInv => TypeOK
  <2> SUFFICES ASSUME Inv, RunInv PROVE TypeOK
    OBVIOUS
  <2>1. ASSUME NEW r \in RunIds
        PROVE  /\ run[r].status \in {"none", "smoke_testing", "accepted", "training"} \cup Terminal
               /\ run[r].pc \in Places
               /\ run[r].budget.epochs \in 0..EpochCeiling
               /\ IF run[r].status = "training"
                  THEN run[r].trained.backend.backend \in Backends
                  ELSE run[r].trained = NotTrained
    BY DEF RunInv, RunOK, BudgetOK, TrainedOK
  <2> QED BY <2>1 DEF TypeOK, ImagesInv, ImagesShape, ConfigWritten, Places, Backends
<1> QED BY <1>1, <1>2, <1>3, Reliance, PTL DEF Spec


-----------------------------------------------------------------------------
(* The backend of a Run *)

\* What SelectBackend refuses in a docker configuration.
Coherent(b) ==
  b.backend = "docker" => (b.device # 0 => b.gpu) /\ (b.user = 0 \/ ~b.rootless)

\* A valid configuration selects its own backend for the budget it states, and
\* every option it merges with a command line can be constructed.
LEMMA OptionsAreCoherent ==
  ASSUME NEW c \in ConfigType, ValidConfig(c)
  PROVE  /\ Coherent(ConfiguredBackend(c))
         /\ \A o : Coherent(MergedBackend(c, o))
         /\ SelectBackend(ConfiguredBackend(c), c.timeout) = BackendFromConfig(c)
<1> DEFINE b == ConfiguredBackend(c)
<1>0. /\ c.device # 0 => c.gpu
      /\ c.user = 0 \/ ~c.rootless
      /\ c.backend \in {"native", "docker"}
      /\ c.backend = "native" => /\ ~c.gpu /\ c.device = 0 /\ c.user = 0 /\ ~c.rootless
                                 /\ c.timeout = 0
  BY DEF ValidConfig
<1>1. /\ b.backend = c.backend /\ b.gpu = c.gpu /\ b.device = c.device /\ b.user = c.user
      /\ b.rootless = c.rootless
  BY DEF ConfiguredBackend
<1> HIDE DEF b
<1>2. Coherent(b)
  BY <1>0, <1>1 DEF Coherent
<1>3. SelectBackend(b, c.timeout) = WithTimeout(b, c.timeout)
  BY <1>0, <1>1 DEF SelectBackend
<1>4. ASSUME NEW o PROVE Coherent(MergedBackend(c, o))
  <2>1. CASE o.backend # "docker"
    <3>1. MergedBackend(c, o).backend # "docker"
      BY <2>1 DEF MergedBackend
    <3> QED BY <3>1 DEF Coherent
  <2>2. CASE o.backend = "docker"
    <3> DEFINE m == MergedBackend(c, o)
               gpu == Flag(o.gpu, c.gpu)
               device == IF o.device = 0 THEN c.device ELSE o.device
               user == IF o.user # 0 THEN o.user ELSE IF o.rootless = "on" THEN 0 ELSE c.user
               rootless == o.user = 0 /\ Flag(o.rootless, c.rootless)
    <3>1. /\ m.gpu = gpu /\ m.device = IF gpu THEN device ELSE 0
          /\ m.user = user /\ m.rootless = rootless
      BY <2>2 DEF MergedBackend
    <3> HIDE DEF m
    <3>2. m.device # 0 => m.gpu
      BY <3>1
    <3>3. rootless => user = 0
      BY <1>0 DEF Flag
    <3> QED BY <3>1, <3>2, <3>3 DEF Coherent, m
  <2> QED BY <2>1, <2>2
<1> QED BY <1>2, <1>3, <1>4 DEF b, BackendFromConfig

\* Both functions that choose the backend of a Run have a branch of their own for
\* the configured options, which hands out the backend of the configuration
\* (_select_backend_for_budget_decision, _select_backend_for_prepared_run).  Under
\* a valid configuration that branch selects what construction from the options
\* and the recorded or decided wall-clock budget would have selected: no Run gets
\* a backend with another budget because its options are the configured ones.
THEOREM BackendsAgree ==
  ASSUME NEW c \in ConfigType, ValidConfig(c), NEW b, NEW recorded, NEW request, NEW completed
  PROVE  /\ BackendForPrepared(c, b, recorded) = SelectBackend(b, PreparedTimeout(c, recorded))
         /\ LET decision == Decide(c, request, completed)
            IN BackendForDecision(c, b, decision) = SelectBackend(b, decision.timeout)
<1> DEFINE decision == Decide(c, request, completed)
<1>1. BackendForPrepared(c, b, recorded) = SelectBackend(b, PreparedTimeout(c, recorded))
  BY OptionsAreCoherent DEF BackendForPrepared
<1>2. BackendForDecision(c, b, decision) = SelectBackend(b, decision.timeout)
  <2>1. decision.timeout \in {c.timeout, c.lateTimeout}
    BY DEF Decide, Exploratory
  <2>2. CASE b = ConfiguredBackend(c) /\ b.backend = "native"
    <3>1. c.timeout = 0 /\ c.lateTimeout = 0
      BY <2>2 DEF ValidConfig, ConfiguredBackend
    <3>2. decision.timeout = c.timeout
      BY <2>1, <3>1
    <3> HIDE DEF decision
    <3> QED BY <2>2, <3>2, OptionsAreCoherent DEF BackendForDecision
  <2>3. CASE b = ConfiguredBackend(c) /\ decision.timeout = c.timeout
    <3> HIDE DEF decision
    <3> QED BY <2>3, OptionsAreCoherent DEF BackendForDecision
  <2>4. CASE ~(b = ConfiguredBackend(c) /\ (b.backend = "native" \/ decision.timeout = c.timeout))
    <3> HIDE DEF decision
    <3> QED BY <2>4 DEF BackendForDecision
  <2> QED BY <2>2, <2>3, <2>4
<1> QED BY <1>1, <1>2

\* A docker Run whose process is under way gets a backend whatever valid
\* configuration it meets: what its command merged stays constructible.
DockerIsNeverRefused ==
  \A r \in RunIds :
    run[r].options.backend = "docker" /\ ValidConfig(config) =>
      /\ SelectBackend(run[r].options, config.timeout) # Refused
      /\ BackendForPrepared(config, run[r].options, run[r].budget.timeout) # Refused

\* The invariant behind it: no options of a Run are such that docker is refused.
OptionsInv == \A r \in RunIds : Coherent(run[r].options)

\* What a step leaves in the options of a Run.
LEMMA WrittenOptions ==
  ASSUME NEW x, Shaped(x), NEW status, NEW step, Coherent(x.options)
  PROVE  Coherent(Written(x, status, step).options)
<1>1. Coherent(Refused)
  BY DEF Coherent, Refused
<1>2. CASE status \in Terminal
  <2>1. Written(x, status, step) = [NoRun EXCEPT !.status = status]
    BY <1>2 DEF Written
  <2>2. Written(x, status, step).options = Refused
    BY <2>1 DEF NoRun
  <2> QED BY <1>1, <2>2
<1>3. CASE status \notin Terminal /\ step = "none"
  <2>1. Written(x, status, step) =
          [x EXCEPT !.status = status, !.pc = step, !.options = Refused, !.samples = 0,
                    !.sampling = "default", !.held = AnyConfig]
    BY <1>3 DEF Written
  <2>2. Written(x, status, step).options = Refused
    BY <2>1 DEF Shaped
  <2> QED BY <1>1, <2>2
<1>4. CASE status \notin Terminal /\ step # "none"
  <2>1. Written(x, status, step) = [x EXCEPT !.status = status, !.pc = step]
    BY <1>4 DEF Written
  <2>2. Written(x, status, step).options = x.options
    BY <2>1 DEF Shaped
  <2> QED BY <2>2
<1> QED BY <1>2, <1>3, <1>4

\* A prepared Run has the options its caller passes, a rejected one none.
LEMMA PreparedOptions ==
  ASSUME NEW x, Shaped(x), NEW options, Coherent(options), NEW manifest, NEW request, NEW step
  PROVE  Coherent(Prepared(x, options, manifest, request, step).options)
<1> DEFINE y == Prepared(x, options, manifest, request, step)
<1>1. CASE ~CandidateAllowed(config, manifest)
  <2>1. y = [NoRun EXCEPT !.status = "rejected"]
    BY <1>1 DEF Prepared
  <2>2. y.options = Refused
    BY <2>1 DEF NoRun
  <2> QED BY <2>2 DEF Coherent, Refused
<1>2. CASE CandidateAllowed(config, manifest)
  <2> DEFINE b == ForManifest(Decide(config, request, Completed), manifest)
  <2> HIDE DEF b
  <2>1. y = [x EXCEPT !.status = "smoke_testing", !.pc = step, !.options = options,
                      !.manifest = manifest, !.parents = request.parents, !.budget = b]
    BY <1>2 DEF Prepared, b
  <2>2. y.options = options
    BY <2>1 DEF Shaped
  <2> QED BY <2>2
<1> QED BY <1>1, <1>2

\* Every step of a Run leaves it options that can be constructed.
LEMMA RunStepKeepsOptions ==
  ASSUME RunInv, OptionsInv, NEW r \in RunIds, RunStep(r)
  PROVE  OptionsInv'
<1> DEFINE x == run[r]
<1>0. /\ Shaped(x) /\ Coherent(x.options) /\ config \in ConfigType
  BY DEF RunInv, RunOK, OptionsInv
<1>a. ASSUME NEW y, Update(r, y), Coherent(y.options) PROVE OptionsInv'
  <2>1. run'[r] = y /\ \A q \in RunIds : q # r => run'[q] = run[q]
    BY <1>a DEF Update, RunInv
  <2> QED BY <1>a, <2>1 DEF OptionsInv
<1>b. ASSUME NEW status, NEW step, Update(r, Written(x, status, step)) PROVE OptionsInv'
  BY <1>0, <1>a, <1>b, WrittenOptions
<1>c. ValidConfig(config) => Coherent(ConfiguredBackend(config))
  BY <1>0, OptionsAreCoherent
<1>d. Shaped(NoRun) /\ Coherent(NoRun.options)
  BY NoRunFields DEF NoRun, Coherent, Refused
<1>1. ASSUME NEW o \in CommandOptions, RunCandidate(r, o) PROVE OptionsInv'
  <2> DEFINE options == MergedBackend(config, o)
             y == Started(NoRun, "preparing", options, SampleBound(config, o.samples),
                          config.sampling)
  <2>1. ValidConfig(config) /\ Update(r, y)
    BY <1>1 DEF RunCandidate, Started
  <2>2. y.options = options
    BY <1>d, StartedFields
  <2>3. Coherent(options)
    BY <1>0, <2>1, OptionsAreCoherent
  <2> QED BY <1>a, <2>1, <2>2, <2>3
<1>2. ASSUME NEW m \in Manifests, NEW q \in Requests, Prepare(r, m, q) PROVE OptionsInv'
  <2>1. Update(r, Prepared(x, x.options, m, q, "smoke"))
    BY <1>2 DEF Prepare
  <2> QED BY <1>0, <1>a, <2>1, PreparedOptions
<1>3. ASSUME NEW m \in Manifests, NEW q \in Requests, Submit(r, m, q) PROVE OptionsInv'
  <2> DEFINE z == [NoRun EXCEPT !.held = config]
  <2>1. ValidConfig(config) /\ Update(r, Prepared(z, ConfiguredBackend(config), m, q, "submitted"))
    BY <1>3 DEF Submit
  <2>2. Shaped(z)
    BY <1>d, HeldFields
  <2> HIDE DEF z
  <2> QED BY <1>a, <1>c, <2>1, <2>2, PreparedOptions
<1>4. ASSUME NEW q \in Requests, PrepareRaises(r, q) PROVE OptionsInv'
  <2>1. Update(r, NoRun)
    BY <1>4 DEF PrepareRaises
  <2> QED BY <1>a, <1>d, <2>1
<1>5. ASSUME NEW passed \in BOOLEAN, SubmissionSmokeTests(r, passed) PROVE OptionsInv'
  <2>1. \/ Update(r, Written(x, "accepted", "none"))
        \/ Update(r, Written(x, "accepted", "train_here"))
        \/ Update(r, Written(x, "smoke_failed", "none"))
    BY <1>5 DEF SubmissionSmokeTests
  <2> QED BY <1>b, <2>1
<1>6. ASSUME NEW passed \in BOOLEAN, SmokeTests(r, passed) PROVE OptionsInv'
  <2>1. \/ Update(r, Written(x, "accepted", "train"))
        \/ Update(r, Written(x, "smoke_failed", "none"))
    BY <1>6 DEF SmokeTests
  <2> QED BY <1>b, <2>1
<1>7. ASSUME SmokeRaises(r) \/ TrainRaises(r) \/ ProcessDies(r) PROVE OptionsInv'
  <2>1. \/ Update(r, Written(x, "failed", "none"))
        \/ Update(r, Written(x, x.status, "none"))
    BY <1>7 DEF SmokeRaises, TrainRaises, SupervisorRaises, ProcessDies
  <2> QED BY <1>b, <2>1
<1>8. ASSUME Relaunch(r) PROVE OptionsInv'
  <2> DEFINE y == Started(x, "train", ConfiguredBackend(config), config.maxSamples,
                          config.sampling)
  <2>1. ValidConfig(config) /\ Update(r, y)
    BY <1>8 DEF Relaunch, Started
  <2>2. y.options = ConfiguredBackend(config)
    BY <1>0, StartedFields
  <2> QED BY <1>a, <1>c, <2>1, <2>2
<1>e. ASSUME NEW epochs, NEW samples, NEW backend, NEW c, Trains(r, epochs, samples, backend, c)
      PROVE  OptionsInv'
  <2> DEFINE t == [epochs |-> epochs, samples |-> samples, backend |-> backend, config |-> c]
             w == Written(x, "training", "none")
             y == [w EXCEPT !.trained = t]
  <2>1. Update(r, y)
    BY <1>e DEF Trains
  <2>2. Coherent(w.options)
    BY <1>0, WrittenOptions
  <2> HIDE DEF w, t
  <2>3. w = [x EXCEPT !.status = "training", !.pc = "none", !.options = Refused, !.samples = 0,
                      !.sampling = "default", !.held = AnyConfig]
    BY DEF w, Written, Terminal
  <2>4. y.options = w.options
    BY <1>0, <2>3 DEF Shaped
  <2> QED BY <1>a, <2>1, <2>2, <2>4
<1>9. ASSUME Train(r) \/ TrainHere(r) \/ ResumeHere(r) PROVE OptionsInv'
  BY <1>9, <1>e DEF Train, TrainHere, ResumeHere
<1>10. ASSUME NEW status \in {"completed", "failed"}, TrainingEnds(r, status) PROVE OptionsInv'
  BY <1>10, <1>b DEF TrainingEnds
<1> QED
  BY <1>1, <1>2, <1>3, <1>4, <1>5, <1>6, <1>7, <1>8, <1>9, <1>10 DEF RunStep

\* The command that prepares a Run in a container and the processes that smoke-test
\* and train it later read the configuration anew; what an operator has made of it
\* meanwhile never makes the options of the Run unconstructible, so a docker Run
\* raises only for an invalid configuration, its policy or its sampling
\* (_select_backend_for_prepared_run, effective_candidate_execution_backend_options).
THEOREM DockerOptionsHold == Spec => []DockerIsNeverRefused
<1> DEFINE Inv == ImagesInv /\ RunInv /\ OptionsInv
<1>1. Init => Inv
  <2>1. Init => OptionsInv
    <3>1. Coherent(NoRun.options)
      BY DEF NoRun, Coherent, Refused
    <3> QED BY <3>1 DEF Init, OptionsInv
  <2> QED BY <2>1, ImagesAtFirst, RunsAtFirst DEF Init
<1>2. Inv /\ [Next]_vars => Inv'
  <2> SUFFICES ASSUME Inv, [Next]_vars PROVE RunInv' /\ OptionsInv'
    BY ImagesStepOrNot
  <2>1. CASE ImagesStep /\ UNCHANGED run
    BY <2>1, ImagesStepKeeps DEF OptionsInv
  <2>2. ASSUME NEW r \in RunIds, RunStep(r) PROVE RunInv' /\ OptionsInv'
    BY <2>2, RunStepKeeps, RunStepKeepsOptions
  <2>3. CASE UNCHANGED vars
    <3>1. run' = run /\ config' = config
      BY <2>3 DEF vars, imageVars
    <3> QED BY <3>1 DEF RunInv, Evidence, Completed, OptionsInv
  <2> QED BY <2>1, <2>2, <2>3 DEF Next
<1>3. RunInv /\ OptionsInv => DockerIsNeverRefused
  <2> SUFFICES ASSUME RunInv, OptionsInv, NEW r \in RunIds, ValidConfig(config),
                      run[r].options.backend = "docker"
               PROVE  /\ SelectBackend(run[r].options, config.timeout) # Refused
                      /\ BackendForPrepared(config, run[r].options, run[r].budget.timeout) # Refused
    BY DEF DockerIsNeverRefused
  <2> DEFINE b == run[r].options
  <2>1. Coherent(b)
    BY DEF OptionsInv
  <2>2. ASSUME NEW seconds PROVE SelectBackend(b, seconds) # Refused
    <3>1. SelectBackend(b, seconds) = WithTimeout(b, seconds)
      BY <2>1 DEF SelectBackend, Coherent
    <3>2. WithTimeout(b, seconds).backend = "docker"
      BY DEF WithTimeout
    <3> QED BY <3>1, <3>2 DEF Refused
  <2>3. BackendForPrepared(config, b, run[r].budget.timeout) =
          SelectBackend(b, PreparedTimeout(config, run[r].budget.timeout))
    BY BackendsAgree DEF RunInv
  <2> QED BY <2>2, <2>3
<1> QED BY <1>1, <1>2, <1>3, PTL DEF Spec
=============================================================================
