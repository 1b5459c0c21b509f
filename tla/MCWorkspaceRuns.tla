-------------------------- MODULE MCWorkspaceRuns --------------------------
(* WorkspaceRuns with few configurations, each one edit away from another. *)
EXTENDS WorkspaceRuns

\* A docker workspace with a late-improving budget, using the first built image.
Base ==
  [backend |-> "docker", image |-> 1, gpu |-> TRUE, device |-> 1, user |-> 0,
   rootless |-> TRUE, maxEpochs |-> 2, maxBatch |-> 4, schedulers |-> {"constant_lr"},
   stopping |-> "optional", maxParallel |-> 1, lateEpochs |-> 4, lateTimeout |-> 8,
   timeout |-> 2, maxSamples |-> 4, sampling |-> "first_n", requirements |-> 1,
   runnerImage |-> 0]

\* Edits: new requirements and a tighter policy, no pairing of the late budget (which
\* the loader refuses), and a native workspace without wall-clock budgets that names
\* its runner image in [runtime_images] only.
MCConfigs ==
  {Base,
   [Base EXCEPT !.requirements = 2, !.maxEpochs = 1, !.maxSamples = 2, !.timeout = 3],
   [Base EXCEPT !.lateTimeout = 0],
   [Base EXCEPT !.backend = "native", !.image = 0, !.runnerImage = 2, !.gpu = FALSE,
                !.device = 0, !.rootless = FALSE, !.timeout = 0, !.lateEpochs = 0, !.lateTimeout = 0]}

MCCommandOptions ==
  {[backend |-> "docker", image |-> 0, gpu |-> "default", device |-> 0, user |-> 0,
    rootless |-> "default", samples |-> 0, sampling |-> "default", skip |-> FALSE],
   [backend |-> "docker", image |-> 3, gpu |-> "off", device |-> 1, user |-> 5,
    rootless |-> "on", samples |-> 3, sampling |-> "first_n", skip |-> TRUE],
   [backend |-> "native", image |-> 0, gpu |-> "default", device |-> 0, user |-> 0,
    rootless |-> "default", samples |-> 0, sampling |-> "default", skip |-> FALSE]}

Manifest(epochs, batch) ==
  [contract |-> TRUE, epochs |-> epochs, batch |-> batch, scheduler |-> "constant_lr",
   stops |-> FALSE, patience |-> 0]
MCManifests == {Manifest(2, 4), Manifest(1, 2)}

MCRequests ==
  {[kind |-> "none", epochs |-> 0, parents |-> {}],
   [kind |-> "late", epochs |-> 3, parents |-> {"r1"}]}
=============================================================================
