------------------------- MODULE TrainingAttempts -------------------------
(***************************************************************************)
(* The host's side of training an accepted Run: _run_with_resource_retries *)
(* and _train_accepted_run in runs.py, and the Docker backend's wall-clock *)
(* budget in execution.py, around the loop of TrainingLoop.  The container *)
(* may hang at any step.  Crashes of the host are in RunLifecycle.         *)
(***************************************************************************)
EXTENDS TrainingLoop

CONSTANTS
  MaxRetries,  \* MAX_RESOURCE_RETRY_ATTEMPTS
  BatchSizes,  \* batch sizes a manifest may request
  Backends     \* "native", "docker", or "timed": Docker with a wall-clock budget

ASSUME AttemptsAssumption ==
  /\ MaxRetries \in Nat
  /\ BatchSizes \subseteq Nat \ {0}
  /\ Backends \subseteq {"native", "docker", "timed"}

VARIABLES
  backend,
  requested,  \* training.batch_size_requested of the resolved manifest
  manifest,   \* training.batch_size of the resolved manifest
  effective,  \* effective_batch_size in the host's memory
  attempts,   \* batch sizes of the attempts that ended in a Resource Failure
  host, error, graceful, verdict

hostVars == <<backend, requested, manifest, effective, attempts, host, error, graceful, verdict>>
vars == <<loopVars, hostVars>>

HostPcs == {"set", "launch", "running", "grace", "judge", "check", "done"}
\* "killed_memory": the killed container's stderr speaks of memory.
Errors == Faults \cup {"none", "refused", "killed", "killed_memory"}
Verdict == [status: {"training", "completed", "failed"},
            class: {"none", "candidate_bug", "resource_failure", "harness_failure"},
            lifecycle: {"completed", "completed_after_resource_retry", "timeout_graceful",
                        "timeout_forced", "resource_retry_exhausted"}]
Pending == [status |-> "training", class |-> "none", lifecycle |-> "completed"]

Init ==
  /\ LoopInit
  /\ backend \in Backends
  /\ requested \in BatchSizes
  /\ manifest = requested /\ effective = requested
  /\ attempts = <<>>
  /\ host = "set" /\ error = "none" /\ graceful = FALSE
  /\ verdict = Pending
-----------------------------------------------------------------------------
\* _set_resolved_manifest_effective_batch_size
SetBatchSize ==
  /\ host = "set"
  /\ manifest' = effective
  /\ host' = "launch"
  /\ UNCHANGED <<loopVars, backend, requested, effective, attempts, error, graceful, verdict>>

\* A container gets a fresh /scratch, hence no sentinel; a process keeps its own.
Launch ==
  /\ host = "launch"
  /\ pc' = "start"
  /\ sentinel' = (backend = "native" /\ sentinel)
  /\ host' = "running"
  /\ UNCHANGED <<policy, memory, failure, files, backend, requested, manifest, effective,
                 attempts, error, graceful, verdict>>

\* _ensure_image_available, or a data root that cannot be mounted.
LaunchRefused ==
  /\ host = "launch" /\ backend # "native"
  /\ error' = "refused"
  /\ host' = "judge"
  /\ UNCHANGED <<loopVars, backend, requested, manifest, effective, attempts, graceful, verdict>>

\* The effect of _signal_container_timeout on the sentinel: the one-line program
\* it passes to "python -c" has a line break inside a string literal, so it does
\* not compile, and its exit status is not looked at.
Signalled == sentinel

\* The first communicate() times out: the container is told, and gets its grace.
BudgetExhausted ==
  /\ host = "running" /\ backend = "timed"
  /\ sentinel' = Signalled
  /\ host' = "grace"
  /\ UNCHANGED <<policy, pc, memory, failure, files, backend, requested, manifest, effective,
                 attempts, error, graceful, verdict>>

\* A mutant: the budget is spent once and nobody waits for the grace period.
GraceExpiresIfEnded ==
  /\ host = "grace" /\ pc \in Ended
  /\ pc' = pc
  /\ Dies
  /\ \E text \in {"killed", "killed_memory"} : error' = text
  /\ host' = "judge"
  /\ UNCHANGED <<policy, sentinel, failure, files, backend, requested, manifest,
                 effective, attempts, graceful, verdict>>

\* The second communicate() times out: docker kill, whatever the container does.
GraceExpires ==
  /\ host = "grace"
  /\ pc' = IF pc \in Ended THEN pc ELSE "killed"
  /\ Dies
  /\ \E text \in {"killed", "killed_memory"} : error' = text
  /\ host' = "judge"
  /\ UNCHANGED <<policy, sentinel, failure, files, backend, requested, manifest,
                 effective, attempts, graceful, verdict>>

OperationEnds ==
  /\ host \in {"running", "grace"}
  /\ \/ pc = "exited" /\ error' = "none" /\ graceful' = (host = "grace")
     \/ pc = "failed" /\ error' = failure /\ UNCHANGED graceful
  /\ host' = "judge"
  /\ UNCHANGED <<loopVars, backend, requested, manifest, effective, attempts, verdict>>

MemoryErrors == {"memory", "killed_memory"}

\* A mutant: one retry more than the limit.
CanRetryOnceMore == Len(attempts) <= MaxRetries /\ effective > 1

CanRetry == Len(attempts) < MaxRetries /\ effective > 1
Half(n) == IF n \div 2 < 1 THEN 1 ELSE n \div 2

\* A mutant: the retry starts over from the requested size.
RetrySmallerOfRequested ==
  /\ host = "judge" /\ error \in MemoryErrors
  /\ CanRetry
  /\ attempts' = Append(attempts, effective)
  /\ effective' = Half(requested)
  /\ host' = "set"
  /\ UNCHANGED <<loopVars, backend, requested, manifest, error, graceful, verdict>>

RetrySmaller ==
  /\ host = "judge" /\ error \in MemoryErrors
  /\ CanRetry
  /\ attempts' = Append(attempts, effective)
  /\ effective' = Half(effective)
  /\ host' = "set"
  /\ UNCHANGED <<loopVars, backend, requested, manifest, error, graceful, verdict>>

Ends(status, class, lifecycle) ==
  /\ verdict' = [status |-> status, class |-> class, lifecycle |-> lifecycle]
  /\ host' = "done"
  /\ UNCHANGED <<loopVars, backend, requested, manifest, effective, error, graceful>>

RetriesExhausted ==
  /\ host = "judge" /\ error \in MemoryErrors
  /\ ~CanRetry
  /\ attempts' = Append(attempts, effective)
  /\ Ends("failed", "resource_failure", "resource_retry_exhausted")

\* _training_failure_classification.  The harness-failure marker in a container's
\* stderr is looked for when the operation runs without a budget only; a
\* non-finite state names its class in nonfinite_diagnostic.json.
Classification(fault) ==
  CASE fault = "killed" -> "resource_failure"
    [] fault \in {"refused", "nonfinite_adapter"} -> "harness_failure"
    [] fault = "harness" /\ backend # "timed" -> "harness_failure"
    [] fault \in MemoryErrors -> "resource_failure"
    [] OTHER -> "candidate_bug"

OperationRaised ==
  /\ host = "judge" /\ error \notin MemoryErrors \cup {"none"}
  /\ Ends("failed", Classification(error),
          IF error = "killed" THEN "timeout_forced" ELSE "completed")
  /\ UNCHANGED attempts

OperationReturned ==
  /\ host = "judge" /\ error = "none"
  /\ host' = "check"
  /\ UNCHANGED <<loopVars, backend, requested, manifest, effective, attempts, error, graceful,
                 verdict>>

\* A mutant: a checkpoint is enough.
OutputsHaveModel == model # Missing

\* _validate_training_outputs: every required artifact modelled here is there.
OutputsValid == report # Missing /\ final # MissingFinal /\ model # Missing

\* The log, the postprocessing reports and what the files contain are not
\* modelled, so the check may fail on them too; a report with a non-finite number
\* is the Harness's fault, anything else the Candidate's.
CheckOutputs ==
  /\ host = "check"
  /\ \/ /\ OutputsValid
        /\ Ends("completed", "none",
                IF graceful THEN "timeout_graceful"
                ELSE IF attempts # <<>> THEN "completed_after_resource_retry" ELSE "completed")
     \/ \E class \in {"candidate_bug", "harness_failure"} : Ends("failed", class, "completed")
  /\ UNCHANGED attempts

HostStep ==
  \/ SetBatchSize \/ Launch \/ LaunchRefused
  \/ BudgetExhausted \/ GraceExpires \/ OperationEnds
  \/ RetrySmaller \/ RetriesExhausted \/ OperationRaised
  \/ OperationReturned \/ CheckOutputs

ContainerStep ==
  /\ LoopStep(manifest)
  /\ UNCHANGED hostVars

\* The Candidate's own code ends the process with status 0.
CandidateExits ==
  /\ backend # "native"
  /\ pc \in {"start", "batch", "validate"}
  /\ pc' = "exited"
  /\ Dies
  /\ UNCHANGED <<policy, sentinel, failure, files, hostVars>>

StopRequested ==
  /\ RequestStop
  /\ UNCHANGED hostVars

Next == HostStep \/ ContainerStep \/ CandidateExits \/ StopRequested

\* The host and its two timers run; a container may hang for ever.
Spec == Init /\ [][Next]_vars
LiveSpec == Spec /\ WF_vars(HostStep)
-----------------------------------------------------------------------------
\* Type invariant: the loop, the sizes and the attempts of the host.
TypeOK ==
  /\ LoopTypeOK
  /\ backend \in Backends /\ requested \in BatchSizes
  /\ manifest \in Nat \ {0} /\ effective \in Nat \ {0}
  /\ attempts \in Seq(Nat \ {0}) /\ Len(attempts) <= MaxRetries + 1
  /\ host \in HostPcs /\ error \in Errors /\ graceful \in BOOLEAN
  /\ verdict \in Verdict

\* Every attempt is smaller than all the attempts before it: outputs are profiled
\* under batch_size_<n>, so two attempts of one size would overwrite each other.
\* The size in the resolved manifest is that of the latest attempt.
RetriesHalve ==
  /\ \A n \in DOMAIN attempts : \A m \in 1..(n - 1) : attempts[n] < attempts[m]
  /\ host \in {"running", "grace"} =>
       \A n \in DOMAIN attempts : manifest < attempts[n]
  /\ verdict.lifecycle = "resource_retry_exhausted" => attempts[Len(attempts)] = manifest

\* The files of a completed Run tell of one attempt, the last: the checkpoint, the
\* best metrics and the final metrics agree on the best epoch and on the weights,
\* though an earlier attempt or a Candidate that ends the process itself may leave
\* any of them behind.  An attempt killed by the budget after its last write, whose
\* stderr speaks of memory, is the exception: its final metrics outlive it.
CompletedOutputsAgree ==
  verdict.status = "completed" /\ (backend # "timed" \/ attempts = <<>>) =>
    /\ {model.size, report.size, final.size} = {manifest}
    /\ final.epochs = Len(metrics)
    /\ model.epoch = BestEpoch(policy, metrics) /\ report.epoch = model.epoch
    /\ final.weights = IF Restores THEN report.epoch ELSE final.epochs

\* With a wall-clock budget the host ends the Run even if the container hangs.
BudgetEndsTraining == backend = "timed" ~> host = "done"

\* "When the limit is reached the Harness writes the sentinel, then waits": a
\* container that is still running in the grace period can see the request.
TimeoutIsSignalled == host = "grace" /\ pc \in Running => sentinel
=============================================================================
