---------------------------- MODULE RunLifecycle ----------------------------
(***************************************************************************)
(* One Harness Run under managed execution: the launcher that starts a     *)
(* detached supervisor (managed_execution.py), the supervisor that owns    *)
(* smoke and training (cli.py continue-run, runs.py), the Docker daemon,   *)
(* and any number of reconcilers (runs.py reconcile_run).  They share four *)
(* durable objects: run_metadata.json, execution.json, the terminal events *)
(* of the Run in the Research Ledger, and the Docker containers.           *)
(*                                                                         *)
(* The Run starts prepared: the Candidate is validated and copied and the  *)
(* metadata says smoke_testing.  Every write of a durable object is a step *)
(* of its own, so a crash or another process can come between any two.     *)
(***************************************************************************)
EXTENDS Naturals, Sequences, FiniteSets

CONSTANTS
  Supervisors,             \* process ids a launcher may hand out
  Reconcilers,             \* callers of reconcile_run outside a supervisor
  Containers,              \* container names; one per training attempt
  Nobody,                  \* no process, no container
  CrashKinds,              \* which kinds of process may be killed, and "error":
                           \* a supervisor may meet an unexpected exception
  MaxCrashes,              \* bound on the number of kills and exceptions
  RegistrationMayTimeOut,  \* the launcher may be slower than the 5 s wait
  SmokedBy,                \* who may smoke the Run: its launcher or its caller
  EarlyReconcile           \* observers may reconcile a Run not launched yet

ASSUME NobodyIsNoName == Nobody \notin Supervisors \cup Reconcilers \cup Containers
ASSUME RolesAreDisjoint == Supervisors \cap Reconcilers = {}
ASSUME CrashBound ==
  /\ MaxCrashes \in Nat
  /\ CrashKinds \subseteq {"supervisor", "launcher", "reconciler", "caller", "error"}
ASSUME Switches == {RegistrationMayTimeOut, EarlyReconcile} \subseteq BOOLEAN
ASSUME SmokePaths == SmokedBy \subseteq {"launcher", "caller"}

VARIABLES
  metadata,        \* run_metadata.json: status and failure_classification
  record,          \* execution.json
  events,          \* terminal Research Ledger events of this Run, in order
  submitted,       \* the ledger holds a candidate_submitted event for the Run
  container,       \* what the Docker daemon knows of each container name
  artifactsValid,  \* the required outputs exist and pass validation
  launcher,        \* the process inside start_run_supervisor
  pc,              \* control state of each supervisor process
  work,            \* the container each supervisor is driving
  outcome,         \* the terminal metadata each supervisor is about to write
  finalizer,       \* the holder of .finalization.lock and its progress
  caller,          \* the synchronous submit_candidate caller
  trained,         \* history: supervisors that put the Run into training
  crashes          \* number of kills and unexpected exceptions so far

vars == <<metadata, record, events, submitted, container, artifactsValid,
          launcher, pc, work, outcome, finalizer, caller, trained, crashes>>

ledgerVars == <<events, submitted>>
dockerVars == <<container, artifactsValid>>
supVars    == <<pc, work, outcome, trained>>

-----------------------------------------------------------------------------
(* Vocabulary *)

RunStatus == {"smoke_testing", "smoke_failed", "accepted", "training",
              "completed", "failed"}
EventStatus == {"completed", "failed"}
TerminalStatus == EventStatus \cup {"smoke_failed"}

FailureClassification == {"none", "candidate_bug", "resource_failure", "harness_failure"}

Metadata == [status : RunStatus, class : FailureClassification]

Plain(status) == [status |-> status, class |-> "none"]
Failed(class) == [status |-> "failed", class |-> class]

\* States in which start_run_supervisor trusts a registered live pid.
ActiveRecordStates == {"supervisor_running", "smoke_testing", "training",
                       "container_starting"}
RecordStates == ActiveRecordStates \cup
                {"absent", "container_exited_success", "container_exited_failure",
                 "supervisor_failed", "finalized"}
ActiveContainerStates == {"none", "starting", "exited_success", "exited_failure"}

ExecutionRecord == [state : RecordStates, pid : Supervisors \cup {Nobody},
                    active : Containers \cup {Nobody},
                    activeState : ActiveContainerStates,
                    containers : SUBSET Containers]

TerminalEvent == [status : EventStatus, class : FailureClassification]

Finalizer == [holder : Supervisors \cup Reconcilers \cup {Nobody},
              pc : {"idle", "observe", "write", "ensure", "cleanup"},
              plan : Metadata]

ContainerStates == {"none", "creating", "refused", "running", "exited0", "exitedN", "removed"}

SupervisorStates ==
  {"unborn", "await", "read", "markSmoke", "smokeRead", "smoking", "submitEvent",
   "markTraining", "trainCheck", "writeTraining", "attempt", "dockerRun", "wait",
   "writeTerminal", "recordEvent", "cleanup", "reconcile", "supervisorFailed",
   "fail", "finalized", "dead"}

Unlocked == [holder |-> Nobody, pc |-> "idle", plan |-> Plain("smoke_testing")]

-----------------------------------------------------------------------------
(* Observation helpers *)

Alive(s) == pc[s] \notin {"unborn", "dead"}

\* Mutant: only the container is consulted, the supervisor's pid is not.
ObservedActiveByContainer ==
  record.active # Nobody /\ container[record.active] = "running"

\* Mutant: the recorded state is trusted, the pid is not probed.
ObservedActiveByRecord == record.state \in ActiveRecordStates

\* read_execution_record: the registered supervisor answers signal 0, or the
\* Docker daemon reports the active container as running.
ObservedActive ==
  \/ /\ record.pid # Nobody
     /\ Alive(record.pid)
  \/ /\ record.active # Nobody
     /\ container[record.active] = "running"

\* The exit code reconcile_run trusts: the daemon's for an exited container,
\* else the one the supervisor recorded.
ExitFailureObserved ==
  /\ record.active # Nobody
  /\ \/ container[record.active] = "exitedN"
     \/ /\ container[record.active] # "exited0"
        /\ record.activeState = "exited_failure"

Goto(s, next) == pc' = [pc EXCEPT ![s] = next]

\* Mutant: only the last attempt's container is removed.
RemoveActive ==
  container' = [c \in Containers |->
                  IF c = record.active /\ container[c] \in {"running", "exited0", "exitedN"}
                    THEN "removed" ELSE container[c]]

\* docker rm -f on every recorded name.  A name the daemon does not know yet
\* ("No such container") also counts as removed for the caller.
RemoveRecorded ==
  container' = [c \in Containers |->
                  IF c \in record.containers /\ container[c] \in {"running", "exited0", "exitedN"}
                    THEN "removed" ELSE container[c]]

-----------------------------------------------------------------------------
Init ==
  /\ metadata = Plain("smoke_testing")
  /\ record = [state |-> "absent", pid |-> Nobody, active |-> Nobody,
               activeState |-> "none", containers |-> {}]
  /\ events = <<>>
  /\ submitted = FALSE
  /\ container = [c \in Containers |-> "none"]
  /\ artifactsValid = FALSE
  /\ \E path \in SmokedBy :
       /\ launcher = [pc |-> IF path = "launcher" THEN "first" ELSE "idle", child |-> Nobody]
       /\ caller = IF path = "caller" THEN "smoking" ELSE "off"
  /\ pc = [s \in Supervisors |-> "unborn"]
  /\ work = [s \in Supervisors |-> Nobody]
  /\ outcome = [s \in Supervisors |-> Plain("smoke_testing")]
  /\ finalizer = Unlocked
  /\ trained = {}
  /\ crashes = 0

-----------------------------------------------------------------------------
(* The launcher: start_run_supervisor, serialised by .execution.lock.      *)
(* run-candidate calls it once, on the Run it prepared; autonomy recovery  *)
(* calls it for a Run that it found by its candidate_submitted event and   *)
(* whose reconciliation answered accepted.  A call that finds an active    *)
(* supervisor changes nothing and is not a step.                           *)

\* Mutant: an accepted Run is never considered running.
AlreadyRunningUnlessAccepted ==
  /\ metadata.status \in {"smoke_testing", "training"}
  /\ record.state \in ActiveRecordStates
  /\ record.pid # Nobody
  /\ Alive(record.pid)

AlreadyRunning ==
  /\ metadata.status \in {"smoke_testing", "accepted", "training"}
  /\ record.state \in ActiveRecordStates
  /\ record.pid # Nobody
  /\ Alive(record.pid)

\* Mutant: recovery starts any accepted Run, announced in the ledger or not.
LauncherCheckAnyAccepted ==
  /\ \/ launcher.pc = "first"
     \/ launcher.pc = "idle" /\ metadata.status = "accepted"
  /\ ~AlreadyRunning
  /\ metadata.status \in {"smoke_testing", "accepted"}
  /\ \E s \in Supervisors : pc[s] = "unborn"
  /\ launcher' = [pc |-> "spawn", child |-> Nobody]
  /\ UNCHANGED <<metadata, record, finalizer, caller, crashes>>
  /\ UNCHANGED <<ledgerVars, dockerVars, supVars>>

LauncherCheck ==
  /\ \/ launcher.pc = "first"
     \/ launcher.pc = "idle" /\ metadata.status = "accepted" /\ submitted
  /\ ~AlreadyRunning
  /\ metadata.status \in {"smoke_testing", "accepted"}
  /\ \E s \in Supervisors : pc[s] = "unborn"
  /\ launcher' = [pc |-> "spawn", child |-> Nobody]
  /\ UNCHANGED <<metadata, record, finalizer, caller, crashes>>
  /\ UNCHANGED <<ledgerVars, dockerVars, supVars>>

\* An observer terminalised the Run before its first launch.
LauncherRefuses ==
  /\ launcher.pc = "first"
  /\ metadata.status \notin {"smoke_testing", "accepted"}
  /\ launcher' = [pc |-> "idle", child |-> Nobody]
  /\ UNCHANGED <<metadata, record, finalizer, caller, crashes>>
  /\ UNCHANGED <<ledgerVars, dockerVars, supVars>>

LauncherSpawn ==
  /\ launcher.pc = "spawn"
  /\ \E s \in Supervisors :
       /\ pc[s] = "unborn"
       /\ launcher' = [pc |-> "register", child |-> s]
       /\ Goto(s, "await")
  /\ UNCHANGED <<metadata, record, finalizer, caller, crashes, work, outcome, trained>>
  /\ UNCHANGED <<ledgerVars, dockerVars>>

LauncherRegister ==
  /\ launcher.pc = "register"
  /\ record' = [record EXCEPT !.state = "supervisor_running", !.pid = launcher.child]
  /\ launcher' = [pc |-> "idle", child |-> Nobody]
  /\ UNCHANGED <<metadata, finalizer, caller, crashes>>
  /\ UNCHANGED <<ledgerVars, dockerVars, supVars>>

Launch == LauncherCheck \/ LauncherRefuses \/ LauncherSpawn \/ LauncherRegister

-----------------------------------------------------------------------------
(* The supervisor: continue-run *)

AwaitRegistration(s) ==
  /\ pc[s] = "await"
  /\ record.pid = s \/ RegistrationMayTimeOut \/ launcher.child # s
  /\ Goto(s, "read")
  /\ UNCHANGED <<metadata, record, launcher, finalizer, caller, crashes, work, outcome, trained>>
  /\ UNCHANGED <<ledgerVars, dockerVars>>

ReadStatus(s) ==
  /\ pc[s] = "read"
  /\ Goto(s, CASE metadata.status = "smoke_testing" -> "markSmoke"
               [] metadata.status = "accepted" -> "markTraining"
               [] OTHER -> "finalized")
  /\ UNCHANGED <<metadata, record, launcher, finalizer, caller, crashes, work, outcome, trained>>
  /\ UNCHANGED <<ledgerVars, dockerVars>>

\* update_execution_record for a phase; the supervisor registers itself again.
MarkPhase(s, at, state, next) ==
  /\ pc[s] = at
  /\ record' = [record EXCEPT !.state = state, !.pid = s]
  /\ Goto(s, next)
  /\ UNCHANGED <<metadata, launcher, finalizer, caller, crashes, work, outcome, trained>>
  /\ UNCHANGED <<ledgerVars, dockerVars>>

MarkSmoke(s) == MarkPhase(s, "markSmoke", "smoke_testing", "smokeRead")
MarkTraining(s) == MarkPhase(s, "markTraining", "training", "trainCheck")

\* The metadata is read before the smoke operation and never read again.
SmokeRead(s) ==
  /\ pc[s] = "smokeRead"
  /\ Goto(s, CASE metadata.status = "smoke_testing" -> "smoking"
               [] metadata.status = "accepted" -> "markTraining"
               [] metadata.status = "smoke_failed" -> "finalized"
               [] OTHER -> "supervisorFailed")
  /\ UNCHANGED <<metadata, record, launcher, finalizer, caller, crashes, work, outcome, trained>>
  /\ UNCHANGED <<ledgerVars, dockerVars>>

SmokePass(s) ==
  /\ pc[s] = "smoking"
  /\ metadata' = Plain("accepted")
  /\ Goto(s, "submitEvent")
  /\ UNCHANGED <<record, launcher, finalizer, caller, crashes, work, outcome, trained>>
  /\ UNCHANGED <<ledgerVars, dockerVars>>

SmokeFail(s) ==
  /\ pc[s] = "smoking"
  /\ \E class \in {"candidate_bug", "harness_failure"} :
       metadata' = [status |-> "smoke_failed", class |-> class]
  /\ Goto(s, "finalized")
  /\ UNCHANGED <<record, launcher, finalizer, caller, crashes, work, outcome, trained>>
  /\ UNCHANGED <<ledgerVars, dockerVars>>

SubmitEvent(s) ==
  /\ pc[s] = "submitEvent"
  /\ submitted' = TRUE
  /\ Goto(s, "markTraining")
  /\ UNCHANGED <<metadata, record, events, launcher, finalizer, caller, crashes, work, outcome, trained>>
  /\ UNCHANGED dockerVars

TrainCheck(s) ==
  /\ pc[s] = "trainCheck"
  /\ Goto(s, IF metadata.status = "accepted" THEN "writeTraining" ELSE "supervisorFailed")
  /\ UNCHANGED <<metadata, record, launcher, finalizer, caller, crashes, work, outcome, trained>>
  /\ UNCHANGED <<ledgerVars, dockerVars>>

\* Configuration, provider and policy errors that smoke_test_prepared_run and
\* the training preamble do not turn into a Run status; any number of them.
OperationRaises(s) ==
  /\ pc[s] \in {"smokeRead", "smoking", "trainCheck"}
  /\ Goto(s, "supervisorFailed")
  /\ UNCHANGED <<metadata, record, launcher, finalizer, caller, crashes, work, outcome, trained>>
  /\ UNCHANGED <<ledgerVars, dockerVars>>

WriteTraining(s) ==
  /\ pc[s] = "writeTraining"
  /\ metadata' = Plain("training")
  /\ trained' = trained \cup {s}
  /\ Goto(s, "attempt")
  /\ UNCHANGED <<record, launcher, finalizer, caller, crashes, work, outcome>>
  /\ UNCHANGED <<ledgerVars, dockerVars>>

\* _record_container_state "starting": the fresh name is durable before docker run.
RecordStarting(s) ==
  /\ pc[s] = "attempt"
  /\ \E c \in Containers :
       /\ container[c] = "none"
       /\ c \notin record.containers
       /\ record' = [record EXCEPT !.state = "container_starting", !.active = c,
                                   !.activeState = "starting", !.containers = @ \cup {c}]
       /\ work' = [work EXCEPT ![s] = c]
  /\ Goto(s, "dockerRun")
  /\ UNCHANGED <<metadata, launcher, finalizer, caller, crashes, outcome, trained>>
  /\ UNCHANGED <<ledgerVars, dockerVars>>

\* Provider, data or image bootstrap fails before a container exists.
BootstrapFails(s) ==
  /\ pc[s] = "attempt"
  /\ outcome' = [outcome EXCEPT ![s] = Failed("harness_failure")]
  /\ Goto(s, "writeTerminal")
  /\ UNCHANGED <<metadata, record, launcher, finalizer, caller, crashes, work, trained>>
  /\ UNCHANGED <<ledgerVars, dockerVars>>

DockerRun(s) ==
  /\ pc[s] = "dockerRun"
  /\ container' = [container EXCEPT ![work[s]] = "creating"]
  /\ Goto(s, "wait")
  /\ UNCHANGED <<metadata, record, artifactsValid, launcher, finalizer, caller, crashes, work, outcome, trained>>
  /\ UNCHANGED ledgerVars

\* _record_container_state after docker run returned.
RecordExit(s, suffix) ==
  record' = [record EXCEPT !.state = IF suffix = "exited_success" THEN "container_exited_success"
                                                                  ELSE "container_exited_failure",
                           !.active = work[s], !.activeState = suffix,
                           !.containers = @ \cup {work[s]}]

\* Mutant: a zero exit code is taken for a completed Run, outputs unread.
TrainingSucceedsUnchecked(s) ==
  /\ pc[s] = "wait"
  /\ container[work[s]] = "exited0"
  /\ RecordExit(s, "exited_success")
  /\ outcome' = [outcome EXCEPT ![s] = Plain("completed")]
  /\ Goto(s, "writeTerminal")
  /\ UNCHANGED <<metadata, launcher, finalizer, caller, crashes, work, trained>>
  /\ UNCHANGED <<ledgerVars, dockerVars>>

TrainingSucceeds(s) ==
  /\ pc[s] = "wait"
  /\ container[work[s]] = "exited0"
  /\ RecordExit(s, "exited_success")
  /\ \/ /\ artifactsValid
        /\ outcome' = [outcome EXCEPT ![s] = Plain("completed")]
     \/ /\ ~artifactsValid
        /\ \E class \in {"candidate_bug", "harness_failure"} :
             outcome' = [outcome EXCEPT ![s] = Failed(class)]
  /\ Goto(s, "writeTerminal")
  /\ UNCHANGED <<metadata, launcher, finalizer, caller, crashes, work, trained>>
  /\ UNCHANGED <<ledgerVars, dockerVars>>

TrainingFails(s) ==
  /\ pc[s] = "wait"
  /\ container[work[s]] \in {"refused", "exitedN", "removed"}
  /\ RecordExit(s, "exited_failure")
  /\ \E class \in {"candidate_bug", "resource_failure", "harness_failure"} :
       outcome' = [outcome EXCEPT ![s] = Failed(class)]
  /\ Goto(s, "writeTerminal")
  /\ UNCHANGED <<metadata, launcher, finalizer, caller, crashes, work, trained>>
  /\ UNCHANGED <<ledgerVars, dockerVars>>

\* _run_with_resource_retries: another attempt inside the same Run.
RetryTraining(s) ==
  /\ pc[s] = "wait"
  /\ container[work[s]] \in {"refused", "exitedN", "removed"}
  /\ \E c \in Containers : container[c] = "none" /\ c \notin record.containers
  /\ RecordExit(s, "exited_failure")
  /\ Goto(s, "attempt")
  /\ UNCHANGED <<metadata, launcher, finalizer, caller, crashes, work, outcome, trained>>
  /\ UNCHANGED <<ledgerVars, dockerVars>>

\* docker kill; the container may have stopped, or been removed, just before.
KilledAtTimeout(c) ==
  \/ /\ container[c] = "running"
     /\ container' = [container EXCEPT ![c] = "exitedN"]
     /\ artifactsValid' \in BOOLEAN
  \/ /\ container[c] \notin {"none", "creating", "running"}
     /\ UNCHANGED dockerVars

\* Mutant: a forced timeout is given a classification of its own.
ForcedTimeoutUnclassified(s) ==
  /\ pc[s] = "wait"
  /\ KilledAtTimeout(work[s])
  /\ RecordExit(s, "exited_failure")
  /\ outcome' = [outcome EXCEPT ![s] = Failed("timeout_forced")]
  /\ Goto(s, "writeTerminal")
  /\ UNCHANGED <<metadata, launcher, finalizer, caller, crashes, work, trained>>
  /\ UNCHANGED ledgerVars

\* The wall-clock budget and the grace period expire: a failure, whatever the
\* container's exit code was.
ForcedTimeout(s) ==
  /\ pc[s] = "wait"
  /\ KilledAtTimeout(work[s])
  /\ RecordExit(s, "exited_failure")
  /\ outcome' = [outcome EXCEPT ![s] = Failed("resource_failure")]
  /\ Goto(s, "writeTerminal")
  /\ UNCHANGED <<metadata, launcher, finalizer, caller, crashes, work, trained>>
  /\ UNCHANGED ledgerVars

\* Mutant: the containers are removed as soon as the metadata is terminal.
WriteTerminalAndClean(s) ==
  /\ pc[s] = "writeTerminal"
  /\ metadata' = outcome[s]
  /\ RemoveRecorded
  /\ Goto(s, "recordEvent")
  /\ UNCHANGED <<record, artifactsValid, launcher, finalizer, caller, crashes, work, outcome, trained>>
  /\ UNCHANGED ledgerVars

\* _train_accepted_run finalises without taking .finalization.lock.
WriteTerminal(s) ==
  /\ pc[s] = "writeTerminal"
  /\ metadata' = outcome[s]
  /\ Goto(s, "recordEvent")
  /\ UNCHANGED <<record, launcher, finalizer, caller, crashes, work, outcome, trained>>
  /\ UNCHANGED <<ledgerVars, dockerVars>>

Conflicts(status) == events # <<>> /\ (Len(events) > 1 \/ events[1].status # status)

\* Compare-before-append under the terminal ledger lock (module TerminalLedger).
AppendTerminal(event) ==
  /\ ~Conflicts(event.status)
  /\ events' = IF events = <<>> THEN <<event>> ELSE events

\* Mutant: the classification argument is left at its default.
RecordEventUnclassified(s) ==
  /\ pc[s] = "recordEvent"
  /\ AppendTerminal([outcome[s] EXCEPT !.class = "none"])
  /\ Goto(s, "cleanup")
  /\ UNCHANGED <<metadata, record, submitted, launcher, finalizer, caller, crashes, work, outcome, trained>>
  /\ UNCHANGED dockerVars

RecordEvent(s) ==
  /\ pc[s] = "recordEvent"
  /\ AppendTerminal(outcome[s])
  /\ Goto(s, "cleanup")
  /\ UNCHANGED <<metadata, record, submitted, launcher, finalizer, caller, crashes, work, outcome, trained>>
  /\ UNCHANGED dockerVars

RecordEventConflict(s) ==
  /\ pc[s] = "recordEvent"
  /\ Conflicts(outcome[s].status)
  /\ Goto(s, "supervisorFailed")
  /\ UNCHANGED <<metadata, record, launcher, finalizer, caller, crashes, work, outcome, trained>>
  /\ UNCHANGED <<ledgerVars, dockerVars>>

SupervisorCleanup(s) ==
  /\ pc[s] = "cleanup"
  /\ RemoveRecorded
  /\ Goto(s, "reconcile")
  /\ UNCHANGED <<metadata, record, artifactsValid, launcher, finalizer, caller, crashes, work, outcome, trained>>
  /\ UNCHANGED ledgerVars

MarkState(s, at, state, next) ==
  /\ pc[s] = at
  /\ record' = [record EXCEPT !.state = state]
  /\ Goto(s, next)
  /\ UNCHANGED <<metadata, launcher, finalizer, caller, crashes, work, outcome, trained>>
  /\ UNCHANGED <<ledgerVars, dockerVars>>

MarkSupervisorFailed(s) == MarkState(s, "supervisorFailed", "supervisor_failed", "fail")
MarkFinalized(s) == MarkState(s, "finalized", "finalized", "dead")

SupervisorStep(s) ==
  \/ AwaitRegistration(s) \/ ReadStatus(s) \/ MarkSmoke(s) \/ SmokeRead(s)
  \/ SmokePass(s) \/ SmokeFail(s) \/ SubmitEvent(s) \/ MarkTraining(s)
  \/ TrainCheck(s) \/ OperationRaises(s) \/ WriteTraining(s) \/ RecordStarting(s)
  \/ BootstrapFails(s) \/ DockerRun(s) \/ TrainingSucceeds(s) \/ TrainingFails(s)
  \/ RetryTraining(s) \/ ForcedTimeout(s) \/ WriteTerminal(s) \/ RecordEvent(s)
  \/ RecordEventConflict(s) \/ SupervisorCleanup(s) \/ MarkSupervisorFailed(s)
  \/ MarkFinalized(s)

-----------------------------------------------------------------------------
(* The Docker daemon *)

ContainerCreated(c) ==
  /\ container[c] = "creating"
  /\ container' = [container EXCEPT ![c] = "running"]
  /\ UNCHANGED <<metadata, record, artifactsValid, launcher, finalizer, caller, crashes>>
  /\ UNCHANGED <<ledgerVars, supVars>>

\* docker run itself fails (no such image, no such device): no container.
ContainerRefused(c) ==
  /\ container[c] = "creating"
  /\ container' = [container EXCEPT ![c] = "refused"]
  /\ UNCHANGED <<metadata, record, artifactsValid, launcher, finalizer, caller, crashes>>
  /\ UNCHANGED <<ledgerVars, supVars>>

ContainerExits(c) ==
  /\ container[c] = "running"
  /\ \E exit \in {"exited0", "exitedN"} : container' = [container EXCEPT ![c] = exit]
  /\ artifactsValid' \in BOOLEAN
  /\ UNCHANGED <<metadata, record, launcher, finalizer, caller, crashes>>
  /\ UNCHANGED <<ledgerVars, supVars>>

Docker(c) == ContainerCreated(c) \/ ContainerRefused(c) \/ ContainerExits(c)

-----------------------------------------------------------------------------
(* Terminalisation under .finalization.lock: reconcile_run, called by a    *)
(* reconciler or by a supervisor after training, and                       *)
(* fail_run_as_harness_failure, called by a supervisor that raised.        *)

HolderGoes(next) ==
  pc' = IF finalizer.holder \in Supervisors
          THEN [pc EXCEPT ![finalizer.holder] = next] ELSE pc

BeginReconcile(a) ==
  /\ finalizer.pc = "idle"
  /\ \/ a \in Reconcilers /\ (EarlyReconcile \/ record.pid # Nobody)
     \/ a \in Supervisors /\ pc[a] = "reconcile"
  /\ finalizer' = [holder |-> a, pc |-> "observe", plan |-> metadata]
  /\ UNCHANGED <<metadata, record, launcher, caller, crashes>>
  /\ UNCHANGED <<ledgerVars, dockerVars, supVars>>

BeginFail(s) ==
  /\ finalizer.pc = "idle"
  /\ pc[s] = "fail"
  /\ \/ /\ metadata.status \in TerminalStatus
        /\ Goto(s, "finalized")
        /\ UNCHANGED finalizer
     \/ /\ metadata.status \notin TerminalStatus
        /\ finalizer' = [holder |-> s, pc |-> "write", plan |-> Failed("harness_failure")]
        /\ UNCHANGED pc
  /\ UNCHANGED <<metadata, record, launcher, caller, crashes, work, outcome, trained>>
  /\ UNCHANGED <<ledgerVars, dockerVars>>

\* What the holder decides from the metadata it read and the execution record
\* it reads now; the second read is not atomic with the first.
Decide(plan) ==
  LET seen == finalizer.plan.status IN
  \/ /\ seen = "smoke_testing"
     /\ ~ObservedActive
     /\ plan = Failed("harness_failure")
  \/ /\ seen = "training"
     /\ ~ObservedActive
     /\ ExitFailureObserved
     /\ plan \in {Failed("resource_failure"), Failed("candidate_bug")}
  \/ /\ \/ seen = "training" /\ ~ObservedActive /\ ~ExitFailureObserved
        \/ seen = "completed"
     /\ IF artifactsValid
          THEN plan = Plain("completed")
          ELSE plan \in {Failed("harness_failure"), Failed("candidate_bug")}

ReconcileDecides ==
  /\ finalizer.pc = "observe"
  /\ \E plan \in Metadata :
       /\ Decide(plan)
       /\ finalizer' = [finalizer EXCEPT !.pc = "write", !.plan = plan]
  /\ UNCHANGED <<metadata, record, launcher, caller, crashes>>
  /\ UNCHANGED <<ledgerVars, dockerVars, supVars>>

\* Mutant: a FAILED Run is returned at once, its ledger event unrepaired.
ReconcileFailedReturns ==
  /\ finalizer.pc = "observe"
  /\ finalizer.plan.status = "failed"
  /\ finalizer' = Unlocked
  /\ HolderGoes("finalized")
  /\ UNCHANGED <<metadata, record, launcher, caller, crashes, work, outcome, trained>>
  /\ UNCHANGED <<ledgerVars, dockerVars>>

ReconcileFailed ==
  /\ finalizer.pc = "observe"
  /\ finalizer.plan.status = "failed"
  /\ finalizer' = [finalizer EXCEPT !.pc = "ensure"]
  /\ UNCHANGED <<metadata, record, launcher, caller, crashes>>
  /\ UNCHANGED <<ledgerVars, dockerVars, supVars>>

ReconcileReturns ==
  /\ finalizer.pc = "observe"
  /\ \/ finalizer.plan.status \in {"smoke_failed", "accepted"}
     \/ finalizer.plan.status \in {"smoke_testing", "training"} /\ ObservedActive
  /\ finalizer' = Unlocked
  /\ HolderGoes("finalized")
  /\ UNCHANGED <<metadata, record, launcher, caller, crashes, work, outcome, trained>>
  /\ UNCHANGED <<ledgerVars, dockerVars>>

\* Mutant: the terminal metadata is computed and never replaced on disk.
UpdateTerminalMetadataUnsaved ==
  /\ finalizer.pc = "write"
  /\ finalizer' = [finalizer EXCEPT !.pc = "ensure"]
  /\ UNCHANGED <<metadata, record, launcher, caller, crashes>>
  /\ UNCHANGED <<ledgerVars, dockerVars, supVars>>

UpdateTerminalMetadata ==
  /\ finalizer.pc = "write"
  /\ metadata' = finalizer.plan
  /\ finalizer' = [finalizer EXCEPT !.pc = "ensure"]
  /\ UNCHANGED <<record, launcher, caller, crashes>>
  /\ UNCHANGED <<ledgerVars, dockerVars, supVars>>

EnsureTerminalEvent ==
  /\ finalizer.pc = "ensure"
  /\ AppendTerminal(finalizer.plan)
  /\ finalizer' = [finalizer EXCEPT !.pc = "cleanup"]
  /\ UNCHANGED <<metadata, record, submitted, launcher, caller, crashes>>
  /\ UNCHANGED <<dockerVars, supVars>>

\* The conflict is noticed after the metadata was written: the error leaves
\* the metadata as it is and skips the cleanup.
EnsureTerminalEventConflict ==
  /\ finalizer.pc = "ensure"
  /\ Conflicts(finalizer.plan.status)
  /\ finalizer' = Unlocked
  /\ HolderGoes(IF finalizer.holder \in Supervisors /\ pc[finalizer.holder] = "fail"
                  THEN "dead" ELSE "supervisorFailed")
  /\ UNCHANGED <<metadata, record, launcher, caller, crashes, work, outcome, trained>>
  /\ UNCHANGED <<ledgerVars, dockerVars>>

FinalizerCleanup ==
  /\ finalizer.pc = "cleanup"
  /\ RemoveRecorded
  /\ finalizer' = Unlocked
  /\ HolderGoes("finalized")
  /\ UNCHANGED <<metadata, record, artifactsValid, launcher, caller, crashes, work, outcome, trained>>
  /\ UNCHANGED ledgerVars

FinalizerStep ==
  \/ ReconcileDecides \/ ReconcileFailed \/ ReconcileReturns
  \/ UpdateTerminalMetadata \/ EnsureTerminalEvent \/ EnsureTerminalEventConflict
  \/ FinalizerCleanup

-----------------------------------------------------------------------------
(* The synchronous caller of submit_candidate (execute-next-action smokes  *)
(* the Run in its own process and writes no execution record).             *)

CallerSmokePass ==
  /\ caller = "smoking"
  /\ metadata' = Plain("accepted")
  /\ caller' = "submit"
  /\ UNCHANGED <<record, launcher, finalizer, crashes>>
  /\ UNCHANGED <<ledgerVars, dockerVars, supVars>>

CallerSmokeFail ==
  /\ caller = "smoking"
  /\ \E class \in {"candidate_bug", "harness_failure"} :
       metadata' = [status |-> "smoke_failed", class |-> class]
  /\ caller' = "off"
  /\ UNCHANGED <<record, launcher, finalizer, crashes>>
  /\ UNCHANGED <<ledgerVars, dockerVars, supVars>>

CallerSubmitEvent ==
  /\ caller = "submit"
  /\ submitted' = TRUE
  /\ caller' = "off"
  /\ UNCHANGED <<metadata, record, events, launcher, finalizer, crashes>>
  /\ UNCHANGED <<dockerVars, supVars>>

CallerStep == CallerSmokePass \/ CallerSmokeFail \/ CallerSubmitEvent

-----------------------------------------------------------------------------
(* Crashes: a killed process releases its flock and leaves every durable   *)
(* write it made.                                                          *)

MayCrash(kind) ==
  /\ kind \in CrashKinds
  /\ crashes < MaxCrashes
  /\ crashes' = crashes + 1

SupervisorCrash(s) ==
  /\ MayCrash("supervisor")
  /\ Alive(s)
  /\ Goto(s, "dead")
  /\ finalizer' = IF finalizer.holder = s THEN Unlocked ELSE finalizer
  /\ UNCHANGED <<metadata, record, launcher, caller, work, outcome, trained>>
  /\ UNCHANGED <<ledgerVars, dockerVars>>

\* An exception that nothing before cli.py's handler turns into a Run status (a
\* full disk, a docker executable gone, the configuration reloaded after training)
\* goes to the handler.  One in the handler, which reloads the configuration
\* too, ends the process, and so does one after it.
SupervisorErrs(s) ==
  /\ MayCrash("error")
  /\ Alive(s)
  /\ pc[s] = "wait" => container[work[s]] # "creating"
  /\ Goto(s, IF pc[s] \in {"supervisorFailed", "fail", "finalized"}
               THEN "dead" ELSE "supervisorFailed")
  /\ finalizer' = IF finalizer.holder = s THEN Unlocked ELSE finalizer
  /\ \/ UNCHANGED record
     \/ pc[s] \in {"dockerRun", "wait"} /\ RecordExit(s, "exited_failure")
  /\ UNCHANGED <<metadata, launcher, caller, work, outcome, trained>>
  /\ UNCHANGED <<ledgerVars, dockerVars>>

ReconcilerCrash ==
  /\ MayCrash("reconciler")
  /\ finalizer.holder \in Reconcilers
  /\ finalizer' = Unlocked
  /\ UNCHANGED <<metadata, record, launcher, caller>>
  /\ UNCHANGED <<ledgerVars, dockerVars, supVars>>

LauncherCrash ==
  /\ MayCrash("launcher")
  /\ launcher.pc # "idle"
  /\ launcher' = [pc |-> "idle", child |-> Nobody]
  /\ UNCHANGED <<metadata, record, finalizer, caller>>
  /\ UNCHANGED <<ledgerVars, dockerVars, supVars>>

CallerCrash ==
  /\ MayCrash("caller")
  /\ caller # "off"
  /\ caller' = "off"
  /\ UNCHANGED <<metadata, record, launcher, finalizer>>
  /\ UNCHANGED <<ledgerVars, dockerVars, supVars>>

Crash == (\E s \in Supervisors : SupervisorCrash(s) \/ SupervisorErrs(s))
         \/ ReconcilerCrash \/ LauncherCrash \/ CallerCrash

-----------------------------------------------------------------------------
Next ==
  \/ Launch
  \/ \E s \in Supervisors : SupervisorStep(s) \/ BeginFail(s)
  \/ \E c \in Containers : Docker(c)
  \/ \E a \in Reconcilers \cup Supervisors : BeginReconcile(a)
  \/ FinalizerStep
  \/ CallerStep
  \/ Crash

Spec == Init /\ [][Next]_vars

\* Live processes and the Docker daemon keep going, training ends, a caller
\* keeps polling reconcile_run, and flock does not starve a waiter.
Fairness ==
  /\ WF_vars(Launch)
  /\ \A s \in Supervisors : WF_vars(SupervisorStep(s)) /\ SF_vars(BeginFail(s))
  /\ \A c \in Containers : WF_vars(Docker(c))
  /\ \A a \in Reconcilers \cup Supervisors : SF_vars(BeginReconcile(a))
  /\ WF_vars(FinalizerStep)
  /\ WF_vars(CallerStep)

LiveSpec == Spec /\ Fairness

-----------------------------------------------------------------------------
\* Type invariant.
TypeOK ==
  /\ metadata \in Metadata
  /\ record \in ExecutionRecord
  /\ events \in Seq(TerminalEvent)
  /\ submitted \in BOOLEAN
  /\ container \in [Containers -> ContainerStates]
  /\ artifactsValid \in BOOLEAN
  /\ launcher \in [pc : {"first", "idle", "spawn", "register"}, child : Supervisors \cup {Nobody}]
  /\ pc \in [Supervisors -> SupervisorStates]
  /\ work \in [Supervisors -> Containers \cup {Nobody}]
  /\ outcome \in [Supervisors -> Metadata]
  /\ finalizer \in Finalizer
  /\ caller \in {"off", "smoking", "submit"}
  /\ trained \subseteq Supervisors
  /\ crashes \in 0..MaxCrashes

\* No two supervisors train one Run, whatever dies and whoever relaunches
\* (start_run_supervisor observes an active supervisor, reconcile_run never
\* retrains).
SingleTrainer == Cardinality(trained) <= 1

\* A Run that says completed has outputs that pass terminal validation
\* (_validate_training_outputs before COMPLETED is written).
CompletedIsValidated == metadata.status = "completed" => artifactsValid

\* Once the ledger holds the terminal event of the Run, terminal metadata says
\* the same outcome with the same failure classification.
TerminalStateAgrees ==
  events # <<>> /\ metadata.status \in EventStatus => metadata = events[1]

\* A Run is trained only after candidate_submitted made it known: otherwise
\* recovery submits the Candidate a second time (find_open_executable_actions).
TrainedRunIsSubmitted == trained # {} => submitted

\* No step leads from a terminal Run back to a live one.
TerminalIsFinal ==
  [][metadata.status \in TerminalStatus => metadata'.status \in TerminalStatus]_vars

\* The terminal event is appended only while the metadata already shows the
\* outcome it announces: metadata first, ledger second, on every path.
EventFollowsMetadata ==
  [][events' # events => metadata.status = events'[Len(events')].status]_vars

\* No container is removed before the terminal event is in the ledger: until
\* then a reconciler may need its exit code.
ContainerKeptUntilTerminal ==
  [][\A c \in Containers :
       container[c] # "removed" /\ container'[c] = "removed"
         => events # <<>>]_vars

\* Every Run ends, unless the process that accepted it died before announcing
\* it: such a Run is known to nobody who would start its training.
EventuallyTerminal ==
  <>[](\/ metadata.status \in TerminalStatus
       \/ metadata.status = "accepted" /\ ~submitted)

\* A crash between the two writes of a terminalisation is repaired: the ledger
\* eventually holds the event of a completed or failed Run.
TerminalIsRecorded == <>[](metadata.status \in EventStatus => events # <<>>)

\* Every container the record names is eventually gone from the daemon.
EventuallyClean ==
  <>[](metadata.status \in EventStatus =>
         \A c \in record.containers : container[c] \in {"none", "refused", "removed"})
=============================================================================
