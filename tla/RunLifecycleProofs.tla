------------------------- MODULE RunLifecycleProofs -------------------------
(***************************************************************************)
(* Proofs about RunLifecycle, for any number of supervisors, reconcilers   *)
(* and containers and any kinds and number of crashes.  The types are not  *)
(* inductive alone: what is appended to the ledger is the outcome that a   *)
(* supervisor or the finalizer carries from an earlier step, so Progress   *)
(* says what each control state has already established.                   *)
(***************************************************************************)
EXTENDS RunLifecycle, FiniteSetTheorems, TLAPS

\* What a supervisor and the finalizer know at each point of their programs.
Progress ==
  /\ \A s \in Supervisors :
       /\ pc[s] \in {"dockerRun", "wait"} => work[s] \in Containers
       /\ pc[s] \in {"writeTerminal", "recordEvent"} => outcome[s].status \in EventStatus
       /\ pc[s] = "cleanup" => events # <<>>
  /\ finalizer.pc \in {"write", "ensure"} => finalizer.plan.status \in EventStatus
  /\ finalizer.pc = "cleanup" => events # <<>>

Inv == TypeOK /\ Progress

\* The prepared Run satisfies the invariant.
LEMMA InitInv == Init => Inv
<1> SUFFICES ASSUME Init PROVE Inv
  OBVIOUS
<1> USE DEF Init
<1>1. metadata \in Metadata
  BY DEF Metadata, Plain, RunStatus, EventStatus, FailureClassification
<1>2. record \in ExecutionRecord
  BY DEF ExecutionRecord, RecordStates, ActiveRecordStates, ActiveContainerStates
<1>3. events \in Seq(TerminalEvent)
  OBVIOUS
<1>4. submitted \in BOOLEAN /\ artifactsValid \in BOOLEAN
  BY Zenon
<1>5. container \in [Containers -> ContainerStates]
  BY DEF ContainerStates
<1>6. launcher \in [pc : {"first", "idle", "spawn", "register"},
                    child : Supervisors \cup {Nobody}]
  OBVIOUS
<1>7. /\ pc \in [Supervisors -> SupervisorStates]
      /\ work \in [Supervisors -> Containers \cup {Nobody}]
  BY DEF SupervisorStates
<1>8. outcome \in [Supervisors -> Metadata]
  BY DEF Metadata, Plain, RunStatus, EventStatus, FailureClassification
<1>9. finalizer \in Finalizer
  BY DEF Finalizer, Unlocked, Metadata, Plain, RunStatus, EventStatus, FailureClassification
<1>10. /\ caller \in {"off", "smoking", "submit"}
       /\ trained \subseteq Supervisors
       /\ crashes \in 0..MaxCrashes
  BY CrashBound
<1>11. Progress
  BY DEF Progress, Unlocked
<1> QED BY <1>1, <1>2, <1>3, <1>4, <1>5, <1>6, <1>7, <1>8, <1>9, <1>10, <1>11 DEF Inv, TypeOK

\* update_execution_record and _record_container_state keep the record's type.
LEMMA RecordUpdate ==
  ASSUME record \in ExecutionRecord, NEW state \in RecordStates
  PROVE  /\ [record EXCEPT !.state = state] \in ExecutionRecord
         /\ \A s \in Supervisors :
              [record EXCEPT !.state = state, !.pid = s] \in ExecutionRecord
         /\ \A c \in Containers, activeState \in ActiveContainerStates :
              [record EXCEPT !.state = state, !.active = c, !.activeState = activeState,
                             !.containers = @ \cup {c}] \in ExecutionRecord
<1>1. [record EXCEPT !.state = state] \in ExecutionRecord
  BY DEF ExecutionRecord
<1>2. ASSUME NEW s \in Supervisors
      PROVE  [record EXCEPT !.state = state, !.pid = s] \in ExecutionRecord
  BY DEF ExecutionRecord
<1>3. ASSUME NEW c \in Containers, NEW activeState \in ActiveContainerStates
      PROVE  [record EXCEPT !.state = state, !.active = c, !.activeState = activeState,
                            !.containers = @ \cup {c}] \in ExecutionRecord
  <2>1. record.containers \cup {c} \in SUBSET Containers
    BY DEF ExecutionRecord
  <2> QED BY <2>1 DEF ExecutionRecord
<1> QED BY <1>1, <1>2, <1>3

\* The name recorded before docker run is the one the supervisor drives.
LEMMA StartingUpdate ==
  ASSUME record \in ExecutionRecord, NEW s \in Supervisors, RecordStarting(s),
         work \in [Supervisors -> Containers \cup {Nobody}]
  PROVE  /\ record' \in ExecutionRecord
         /\ work' \in [Supervisors -> Containers \cup {Nobody}]
         /\ work'[s] \in Containers
         /\ \A t \in Supervisors \ {s} : work'[t] = work[t]
<1>1. PICK c \in Containers :
        /\ record' = [record EXCEPT !.state = "container_starting", !.active = c,
                                    !.activeState = "starting", !.containers = @ \cup {c}]
        /\ work' = [work EXCEPT ![s] = c]
  BY DEF RecordStarting
<1>2. /\ "container_starting" \in RecordStates
      /\ "starting" \in ActiveContainerStates
  BY DEF RecordStates, ActiveRecordStates, ActiveContainerStates
<1>3. [record EXCEPT !.state = "container_starting", !.active = c,
                     !.activeState = "starting", !.containers = @ \cup {c}]
        \in ExecutionRecord
  BY <1>2, RecordUpdate
<1> QED BY <1>1, <1>3

\* The record stays well formed when an attempt's exit is recorded (RecordExit).
LEMMA ExitUpdate ==
  ASSUME record \in ExecutionRecord, NEW s \in Supervisors, work[s] \in Containers,
         NEW suffix \in {"exited_success", "exited_failure"}, RecordExit(s, suffix)
  PROVE  record' \in ExecutionRecord
<1> DEFINE state == IF suffix = "exited_success" THEN "container_exited_success"
                                                ELSE "container_exited_failure"
<1>1. state \in RecordStates /\ suffix \in ActiveContainerStates
  BY DEF RecordStates, ActiveRecordStates, ActiveContainerStates
<1>2. record' = [record EXCEPT !.state = state, !.active = work[s], !.activeState = suffix,
                               !.containers = @ \cup {work[s]}]
  BY DEF RecordExit
<1> HIDE DEF state
<1> QED BY <1>1, <1>2, RecordUpdate

\* Compare-before-append leaves at least one terminal event.
LEMMA AppendTerminalType ==
  ASSUME events \in Seq(TerminalEvent), NEW event \in TerminalEvent, AppendTerminal(event)
  PROVE  events' \in Seq(TerminalEvent) /\ events' # <<>>
<1>1. <<event>> \in Seq(TerminalEvent) /\ <<event>> # <<>>
  OBVIOUS
<1> QED BY <1>1 DEF AppendTerminal

\* Every step of a supervisor keeps the invariant.
LEMMA SupervisorInv ==
  ASSUME Inv, NEW s \in Supervisors,
         SupervisorStep(s) \/ BeginFail(s) \/ SupervisorCrash(s) \/ SupervisorErrs(s)
  PROVE  Inv'
<1> USE CrashBound, NobodyIsNoName DEF Inv, TypeOK, Progress, Metadata, Plain, Failed, RunStatus, EventStatus,
        TerminalStatus, FailureClassification, RecordStates, ActiveRecordStates,
        ActiveContainerStates, ContainerStates, SupervisorStates, Finalizer, Unlocked, Goto,
        ledgerVars, dockerVars, supVars
<1>1. ASSUME AwaitRegistration(s) PROVE Inv'
  BY <1>1 DEF AwaitRegistration
<1>2. ASSUME ReadStatus(s) PROVE Inv'
  BY <1>2 DEF ReadStatus
<1>3. ASSUME MarkSmoke(s) PROVE Inv'
  <2>1. record' \in ExecutionRecord
    BY <1>3, RecordUpdate DEF MarkSmoke, MarkPhase
  <2> QED BY <1>3, <2>1 DEF MarkSmoke, MarkPhase
<1>4. ASSUME SmokeRead(s) PROVE Inv'
  BY <1>4 DEF SmokeRead
<1>5. ASSUME SmokePass(s) PROVE Inv'
  BY <1>5 DEF SmokePass
<1>6. ASSUME SmokeFail(s) PROVE Inv'
  BY <1>6 DEF SmokeFail
<1>7. ASSUME SubmitEvent(s) PROVE Inv'
  BY <1>7 DEF SubmitEvent
<1>8. ASSUME MarkTraining(s) PROVE Inv'
  <2>1. record' \in ExecutionRecord
    BY <1>8, RecordUpdate DEF MarkTraining, MarkPhase
  <2> QED BY <1>8, <2>1 DEF MarkTraining, MarkPhase
<1>9. ASSUME TrainCheck(s) PROVE Inv'
  BY <1>9 DEF TrainCheck
<1>10. ASSUME OperationRaises(s) PROVE Inv'
  BY <1>10 DEF OperationRaises
<1>11. ASSUME WriteTraining(s) PROVE Inv'
  BY <1>11 DEF WriteTraining
<1>12. ASSUME RecordStarting(s) PROVE Inv'
  <2>1. /\ Goto(s, "dockerRun")
        /\ UNCHANGED <<metadata, launcher, finalizer, caller, crashes, outcome, trained>>
        /\ UNCHANGED <<ledgerVars, dockerVars>>
    BY ONLY <1>12 DEF RecordStarting
  <2>2. /\ work'[s] \in Containers
        /\ \A t \in Supervisors \ {s} : work'[t] = work[t]
    BY <1>12, StartingUpdate
  <2>3. TypeOK'
    <3>1. /\ record' \in ExecutionRecord
          /\ work' \in [Supervisors -> Containers \cup {Nobody}]
      BY <1>12, StartingUpdate
    <3>2. pc' \in [Supervisors -> SupervisorStates]
      BY <2>1
    <3> QED BY <2>1, <3>1, <3>2
  <2>4. ASSUME NEW t \in Supervisors, pc'[t] \in {"dockerRun", "wait"}
        PROVE  work'[t] \in Containers
    BY <2>1, <2>2, <2>4
  <2> QED BY <2>1, <2>3, <2>4
<1>13. ASSUME BootstrapFails(s) PROVE Inv'
  BY <1>13 DEF BootstrapFails
<1>14. ASSUME DockerRun(s) PROVE Inv'
  BY <1>14 DEF DockerRun
<1>15. ASSUME TrainingSucceeds(s) PROVE Inv'
  <2>1. record' \in ExecutionRecord
    BY <1>15, ExitUpdate DEF TrainingSucceeds
  <2>2. /\ pc' = [pc EXCEPT ![s] = "writeTerminal"]
        /\ UNCHANGED <<metadata, launcher, finalizer, caller, crashes, work, trained>>
        /\ UNCHANGED <<ledgerVars, dockerVars>>
    BY <1>15 DEF TrainingSucceeds
  <2>3. PICK ending \in Metadata : /\ outcome' = [outcome EXCEPT ![s] = ending]
                                   /\ ending.status \in EventStatus
    BY <1>15 DEF TrainingSucceeds
  <2> QED BY <2>1, <2>2, <2>3
<1>16. ASSUME TrainingFails(s) PROVE Inv'
  <2>1. record' \in ExecutionRecord
    BY <1>16, ExitUpdate DEF TrainingFails
  <2> QED BY <1>16, <2>1 DEF TrainingFails
<1>17. ASSUME RetryTraining(s) PROVE Inv'
  <2>1. record' \in ExecutionRecord
    BY <1>17, ExitUpdate DEF RetryTraining
  <2> QED BY <1>17, <2>1 DEF RetryTraining
<1>18. ASSUME ForcedTimeout(s) PROVE Inv'
  <2>1. record' \in ExecutionRecord
    BY <1>18, ExitUpdate DEF ForcedTimeout
  <2> QED BY <1>18, <2>1 DEF ForcedTimeout, KilledAtTimeout
<1>19. ASSUME WriteTerminal(s) PROVE Inv'
  BY <1>19 DEF WriteTerminal
<1>20. ASSUME RecordEvent(s) PROVE Inv'
  <2>1. outcome[s] \in TerminalEvent
    BY <1>20 DEF RecordEvent, TerminalEvent
  <2>2. events' \in Seq(TerminalEvent) /\ events' # <<>>
    BY <1>20, <2>1, AppendTerminalType DEF RecordEvent
  <2> QED BY <1>20, <2>2 DEF RecordEvent
<1>21. ASSUME RecordEventConflict(s) PROVE Inv'
  BY <1>21 DEF RecordEventConflict
<1>22. ASSUME SupervisorCleanup(s) PROVE Inv'
  BY <1>22 DEF SupervisorCleanup, RemoveRecorded
<1>23. ASSUME MarkSupervisorFailed(s) PROVE Inv'
  <2>1. record' \in ExecutionRecord
    BY <1>23, RecordUpdate DEF MarkSupervisorFailed, MarkState
  <2> QED BY <1>23, <2>1 DEF MarkSupervisorFailed, MarkState
<1>24. ASSUME MarkFinalized(s) PROVE Inv'
  <2>1. record' \in ExecutionRecord
    BY <1>24, RecordUpdate DEF MarkFinalized, MarkState
  <2> QED BY <1>24, <2>1 DEF MarkFinalized, MarkState
<1>25. ASSUME BeginFail(s) PROVE Inv'
  <2>1. CASE metadata.status \in TerminalStatus
    <3>1. Goto(s, "finalized") /\ UNCHANGED finalizer
      BY <1>25, <2>1 DEF BeginFail
    <3> QED BY <1>25, <3>1 DEF BeginFail
  <2>2. CASE metadata.status \notin TerminalStatus
    <3>1. finalizer' = [holder |-> s, pc |-> "write", plan |-> Failed("harness_failure")]
      BY <1>25, <2>2 DEF BeginFail
    <3> QED BY <1>25, <2>2, <3>1 DEF BeginFail
  <2> QED BY <2>1, <2>2
<1>26. ASSUME SupervisorCrash(s) PROVE Inv'
  BY <1>26 DEF SupervisorCrash, MayCrash, Alive, Unlocked, Plain
<1>27. ASSUME SupervisorErrs(s) PROVE Inv'
  <2>1. record' \in ExecutionRecord
    <3>1. CASE UNCHANGED record
      BY <3>1
    <3>2. CASE pc[s] \in {"dockerRun", "wait"} /\ RecordExit(s, "exited_failure")
      BY <3>2, ExitUpdate
    <3> QED BY <1>27, <3>1, <3>2 DEF SupervisorErrs
  <2>2. /\ pc' = [pc EXCEPT ![s] = pc'[s]]
        /\ pc'[s] \in {"supervisorFailed", "dead"}
        /\ finalizer' \in {finalizer, Unlocked}
        /\ crashes' \in 0..MaxCrashes
        /\ UNCHANGED <<metadata, launcher, caller, work, outcome, trained, ledgerVars, dockerVars>>
    BY <1>27 DEF SupervisorErrs, MayCrash
  <2> QED BY <2>1, <2>2
<1> QED BY <1>1, <1>2, <1>3, <1>4, <1>5, <1>6, <1>7, <1>8, <1>9, <1>10, <1>11, <1>12, <1>13, <1>14, <1>15, <1>16, <1>17, <1>18, <1>19, <1>20, <1>21, <1>22, <1>23, <1>24, <1>25, <1>26, <1>27 DEF SupervisorStep

\* Every step of the launcher keeps the invariant.
LEMMA LaunchInv ==
  ASSUME Inv, Launch \/ LauncherCrash
  PROVE  Inv'
<1> USE CrashBound, NobodyIsNoName DEF Inv, TypeOK, Progress, Metadata, Plain, Failed, RunStatus, EventStatus,
        TerminalStatus, FailureClassification, RecordStates, ActiveRecordStates,
        ActiveContainerStates, ContainerStates, SupervisorStates, Finalizer, Unlocked, Goto,
        ledgerVars, dockerVars, supVars
<1>1. CASE LauncherCheck
  BY <1>1 DEF LauncherCheck
<1>2. CASE LauncherRefuses
  BY <1>2 DEF LauncherRefuses
<1>3. CASE LauncherSpawn
  BY <1>3 DEF LauncherSpawn
<1>4. CASE LauncherRegister
  <2>1. record' \in ExecutionRecord
    BY <1>4 DEF LauncherRegister, ExecutionRecord
  <2> QED BY <1>4, <2>1 DEF LauncherRegister
<1>5. CASE LauncherCrash
  BY <1>5 DEF LauncherCrash, MayCrash
<1> QED BY <1>1, <1>2, <1>3, <1>4, <1>5 DEF Launch

\* Every step of the Docker daemon keeps the invariant.
LEMMA DockerInv ==
  ASSUME Inv, NEW c \in Containers, Docker(c)
  PROVE  Inv'
<1> USE CrashBound, NobodyIsNoName DEF Inv, TypeOK, Progress, Metadata, Plain, Failed, RunStatus, EventStatus,
        TerminalStatus, FailureClassification, RecordStates, ActiveRecordStates,
        ActiveContainerStates, ContainerStates, SupervisorStates, Finalizer, Unlocked, Goto,
        ledgerVars, dockerVars, supVars
<1>1. CASE ContainerCreated(c)
  BY <1>1 DEF ContainerCreated
<1>2. CASE ContainerRefused(c)
  BY <1>2 DEF ContainerRefused
<1>3. CASE ContainerExits(c)
  BY <1>3 DEF ContainerExits
<1> QED BY <1>1, <1>2, <1>3 DEF Docker

\* Every step of the synchronous caller keeps the invariant.
LEMMA CallerInv ==
  ASSUME Inv, CallerStep \/ CallerCrash
  PROVE  Inv'
<1> USE CrashBound, NobodyIsNoName DEF Inv, TypeOK, Progress, Metadata, Plain, Failed, RunStatus, EventStatus,
        TerminalStatus, FailureClassification, RecordStates, ActiveRecordStates,
        ActiveContainerStates, ContainerStates, SupervisorStates, Finalizer, Unlocked, Goto,
        ledgerVars, dockerVars, supVars
<1>1. CASE CallerSmokePass
  BY <1>1 DEF CallerSmokePass
<1>2. CASE CallerSmokeFail
  BY <1>2 DEF CallerSmokeFail
<1>3. CASE CallerSubmitEvent
  BY <1>3 DEF CallerSubmitEvent
<1>4. CASE CallerCrash
  BY <1>4 DEF CallerCrash, MayCrash
<1> QED BY <1>1, <1>2, <1>3, <1>4 DEF CallerStep

\* Every step under .finalization.lock keeps the invariant: a plan to write is
\* a terminal one, and the cleanup comes after the event.
LEMMA FinalizerInv ==
  ASSUME Inv, FinalizerStep \/ ReconcilerCrash \/ \E a \in Reconcilers \cup Supervisors : BeginReconcile(a)
  PROVE  Inv'
<1> USE CrashBound, NobodyIsNoName DEF Inv, TypeOK, Progress, Metadata, Plain, Failed, RunStatus, EventStatus,
        TerminalStatus, FailureClassification, RecordStates, ActiveRecordStates,
        ActiveContainerStates, ContainerStates, SupervisorStates, Finalizer, Unlocked, Goto,
        ledgerVars, dockerVars, supVars
<1>1. ASSUME NEW a \in Reconcilers \cup Supervisors, BeginReconcile(a) PROVE Inv'
  BY <1>1 DEF BeginReconcile
<1>2. CASE ReconcileDecides
  <2>1. PICK plan \in Metadata :
          /\ Decide(plan)
          /\ finalizer' = [finalizer EXCEPT !.pc = "write", !.plan = plan]
    BY <1>2 DEF ReconcileDecides
  <2>2. plan.status \in EventStatus
    BY <2>1 DEF Decide
  <2>3. /\ finalizer' \in Finalizer
        /\ finalizer'.pc = "write" /\ finalizer'.plan = plan
    BY <2>1
  <2> QED BY <1>2, <2>2, <2>3 DEF ReconcileDecides
<1>3. CASE ReconcileFailed
  <2>1. /\ finalizer' \in Finalizer /\ finalizer'.pc = "ensure"
        /\ finalizer'.plan = finalizer.plan /\ finalizer.plan.status = "failed"
    BY <1>3 DEF ReconcileFailed
  <2> QED BY <1>3, <2>1 DEF ReconcileFailed
<1>4. CASE ReconcileReturns
  BY <1>4 DEF ReconcileReturns, HolderGoes
<1>5. CASE UpdateTerminalMetadata
  <2>1. /\ finalizer' \in Finalizer
        /\ finalizer'.pc = "ensure" /\ finalizer'.plan = finalizer.plan
    BY <1>5 DEF UpdateTerminalMetadata
  <2>2. metadata' = finalizer.plan
    BY <1>5 DEF UpdateTerminalMetadata
  <2> QED BY <1>5, <2>1, <2>2 DEF UpdateTerminalMetadata
<1>6. CASE EnsureTerminalEvent
  <2>1. finalizer.plan \in TerminalEvent
    BY <1>6 DEF EnsureTerminalEvent, TerminalEvent
  <2>2. events' \in Seq(TerminalEvent) /\ events' # <<>>
    BY <1>6, <2>1, AppendTerminalType DEF EnsureTerminalEvent
  <2>3. /\ finalizer' \in Finalizer
        /\ finalizer'.pc = "cleanup"
    BY <1>6 DEF EnsureTerminalEvent
  <2> QED BY <1>6, <2>2, <2>3 DEF EnsureTerminalEvent
<1>7. CASE EnsureTerminalEventConflict
  BY <1>7 DEF EnsureTerminalEventConflict, HolderGoes
<1>8. CASE FinalizerCleanup
  BY <1>8 DEF FinalizerCleanup, HolderGoes, RemoveRecorded
<1>9. CASE ReconcilerCrash
  BY <1>9 DEF ReconcilerCrash, MayCrash
<1> QED BY <1>1, <1>2, <1>3, <1>4, <1>5, <1>6, <1>7, <1>8, <1>9 DEF FinalizerStep

\* The invariant is inductive.
LEMMA Invariance == Spec => []Inv
<1>1. Inv /\ [Next]_vars => Inv'
  <2> SUFFICES ASSUME Inv, [Next]_vars PROVE Inv'
    OBVIOUS
  <2>1. CASE UNCHANGED vars
    BY <2>1 DEF Inv, TypeOK, Progress, vars
  <2>2. CASE Next
    BY <2>2, SupervisorInv, LaunchInv, DockerInv, CallerInv, FinalizerInv DEF Next, Crash
  <2> QED BY <2>1, <2>2
<1> QED BY InitInv, <1>1, PTL DEF Spec

\* Every durable object and control state stays within its type.
THEOREM TypeCorrect == Spec => []TypeOK
<1>1. Inv => TypeOK
  BY DEF Inv
<1> QED BY Invariance, <1>1, PTL

-----------------------------------------------------------------------------
\* A step that removes a container is a cleanup.
LEMMA OnlyCleanupRemoves ==
  ASSUME TypeOK, Next, NEW c \in Containers,
         container[c] # "removed", container'[c] = "removed"
  PROVE  FinalizerCleanup \/ \E s \in Supervisors : SupervisorCleanup(s)
<1> USE DEF TypeOK, dockerVars, supVars, ledgerVars
<1>1. ASSUME Launch \/ LauncherCrash PROVE FALSE
  BY <1>1 DEF Launch, LauncherCheck, LauncherRefuses, LauncherSpawn, LauncherRegister,
              LauncherCrash
<1>2. ASSUME NEW d \in Containers, Docker(d) PROVE FALSE
  BY <1>2 DEF Docker, ContainerCreated, ContainerRefused, ContainerExits
<1>3. ASSUME CallerStep \/ CallerCrash PROVE FALSE
  BY <1>3 DEF CallerStep, CallerSmokePass, CallerSmokeFail, CallerSubmitEvent, CallerCrash
<1>4. ASSUME \/ ReconcilerCrash
             \/ \E a \in Reconcilers \cup Supervisors : BeginReconcile(a)
             \/ FinalizerStep /\ ~FinalizerCleanup
      PROVE  FALSE
  BY <1>4 DEF ReconcilerCrash, BeginReconcile, FinalizerStep, ReconcileDecides,
              ReconcileFailed, ReconcileReturns, UpdateTerminalMetadata,
              EnsureTerminalEvent, EnsureTerminalEventConflict
<1>5. ASSUME NEW s \in Supervisors,
             DockerRun(s) \/ ForcedTimeout(s)
      PROVE  FALSE
  BY <1>5 DEF DockerRun, ForcedTimeout, KilledAtTimeout
<1>6. ASSUME NEW s \in Supervisors,
             \/ AwaitRegistration(s) \/ ReadStatus(s) \/ MarkSmoke(s) \/ SmokeRead(s)
             \/ SmokePass(s) \/ SmokeFail(s) \/ SubmitEvent(s) \/ MarkTraining(s)
             \/ TrainCheck(s) \/ OperationRaises(s) \/ WriteTraining(s)
             \/ RecordStarting(s) \/ BootstrapFails(s)
      PROVE  FALSE
  BY <1>6 DEF AwaitRegistration, ReadStatus, MarkSmoke, MarkPhase, SmokeRead, SmokePass,
              SmokeFail, SubmitEvent, MarkTraining, TrainCheck, OperationRaises,
              WriteTraining, RecordStarting, BootstrapFails
<1>7. ASSUME NEW s \in Supervisors,
             \/ TrainingSucceeds(s) \/ TrainingFails(s) \/ RetryTraining(s)
             \/ WriteTerminal(s) \/ RecordEvent(s) \/ RecordEventConflict(s)
             \/ MarkSupervisorFailed(s) \/ MarkFinalized(s)
             \/ BeginFail(s) \/ SupervisorCrash(s) \/ SupervisorErrs(s)
      PROVE  FALSE
  BY <1>7 DEF TrainingSucceeds, TrainingFails, RetryTraining, WriteTerminal, RecordEvent,
              RecordEventConflict, MarkSupervisorFailed, MarkFinalized, MarkState,
              BeginFail, SupervisorCrash, SupervisorErrs
<1> QED BY <1>1, <1>2, <1>3, <1>4, <1>5, <1>6, <1>7 DEF Next, SupervisorStep, Crash

\* No container is removed before the terminal event is durable, whoever
\* terminalises the Run and whatever dies.
THEOREM ContainersKept == Spec => ContainerKeptUntilTerminal
<1>1. Inv /\ [Next]_vars =>
        [\A c \in Containers :
           container[c] # "removed" /\ container'[c] = "removed" => events # <<>>]_vars
  <2> SUFFICES ASSUME Inv, Next, NEW c \in Containers,
                      container[c] # "removed", container'[c] = "removed"
               PROVE  events # <<>>
    OBVIOUS
  <2>1. FinalizerCleanup \/ \E s \in Supervisors : SupervisorCleanup(s)
    BY OnlyCleanupRemoves DEF Inv
  <2> QED BY <2>1 DEF Inv, Progress, FinalizerCleanup, SupervisorCleanup
<1> QED BY Invariance, <1>1, PTL DEF Spec, ContainerKeptUntilTerminal

-----------------------------------------------------------------------------
\* A supervisor that holds .finalization.lock is inside reconcile_run or
\* fail_run_as_harness_failure; a free lock has no holder.
HolderWaits ==
  /\ finalizer.pc = "idle" => finalizer.holder = Nobody
  /\ finalizer.holder \in Supervisors => pc[finalizer.holder] \in {"reconcile", "fail"}

\* Control states of a supervisor that has not yet announced the Run.
UnannouncedStates ==
  {"unborn", "await", "read", "markSmoke", "smokeRead", "smoking", "submitEvent",
   "supervisorFailed", "fail", "finalized", "dead"}

\* Before candidate_submitted there is one process that can smoke the Run, the
\* caller or the first supervisor, and nobody trains an accepted Run.
OneAnnouncer ==
  /\ caller # "off" => launcher.pc = "idle" /\ \A s \in Supervisors : pc[s] = "unborn"
  /\ launcher.pc \in {"first", "spawn"} =>
       metadata.status # "accepted" /\ \A s \in Supervisors : pc[s] = "unborn"
  /\ \A s \in Supervisors : pc[s] \in UnannouncedStates
  /\ \A s, t \in Supervisors : pc[s] # "unborn" /\ pc[t] # "unborn" => s = t
  /\ metadata.status = "accepted" =>
       \A s \in Supervisors :
         pc[s] \in {"unborn", "submitEvent", "supervisorFailed", "fail", "finalized", "dead"}

Announcement ==
  /\ HolderWaits
  /\ ~submitted => OneAnnouncer /\ trained = {}

\* At first nobody has smoked the Run.
LEMMA InitAnnouncement == Init => Announcement
  BY NobodyIsNoName, SmokePaths DEF Init, Announcement, HolderWaits, OneAnnouncer, Unlocked, Plain,
                        UnannouncedStates

\* A supervisor that runs its own program leaves the other processes alone and
\* is not waiting under the lock.
LEMMA SupervisorFrame ==
  ASSUME TypeOK, NEW s \in Supervisors, SupervisorStep(s)
  PROVE  /\ UNCHANGED <<finalizer, launcher, caller>>
         /\ pc[s] \notin {"reconcile", "fail", "unborn", "dead"}
         /\ \A t \in Supervisors \ {s} : pc'[t] = pc[t]
  BY DEF TypeOK, Goto, SupervisorStep, AwaitRegistration, ReadStatus, MarkSmoke, MarkPhase,
         SmokeRead, SmokePass, SmokeFail, SubmitEvent, MarkTraining, TrainCheck,
         OperationRaises, WriteTraining, RecordStarting, BootstrapFails, DockerRun,
         TrainingSucceeds, TrainingFails, RetryTraining, ForcedTimeout, WriteTerminal,
         RecordEvent, RecordEventConflict, SupervisorCleanup, MarkSupervisorFailed,
         MarkFinalized, MarkState

\* Nobody but the lock's holder moves a supervisor that waits under the lock.
LEMMA HolderStep ==
  ASSUME Inv, HolderWaits, Next
  PROVE  HolderWaits'
<1> USE NobodyIsNoName, RolesAreDisjoint DEF Inv, TypeOK, HolderWaits, Goto, Unlocked, Finalizer,
        ledgerVars, dockerVars, supVars
<1>1. CASE Launch \/ LauncherCrash
  BY <1>1 DEF Launch, LauncherCheck, LauncherRefuses, LauncherSpawn, LauncherRegister,
              LauncherCrash
<1>2. ASSUME NEW d \in Containers, Docker(d) PROVE HolderWaits'
  BY <1>2 DEF Docker, ContainerCreated, ContainerRefused, ContainerExits
<1>3. CASE CallerStep \/ CallerCrash
  BY <1>3 DEF CallerStep, CallerSmokePass, CallerSmokeFail, CallerSubmitEvent, CallerCrash
<1>4. CASE FinalizerStep \/ ReconcilerCrash
  <2>1. CASE ReconcileDecides \/ ReconcileFailed \/ UpdateTerminalMetadata \/ EnsureTerminalEvent
    <3>1. /\ finalizer'.holder = finalizer.holder /\ finalizer'.pc # "idle"
          /\ UNCHANGED pc
      BY <2>1 DEF ReconcileDecides, ReconcileFailed, UpdateTerminalMetadata, EnsureTerminalEvent
    <3> QED BY <3>1
  <2>2. CASE \/ ReconcileReturns \/ EnsureTerminalEventConflict \/ FinalizerCleanup
             \/ ReconcilerCrash
    <3>1. finalizer'.holder = Nobody
      BY <2>2 DEF ReconcileReturns, EnsureTerminalEventConflict, FinalizerCleanup, ReconcilerCrash
    <3> QED BY <3>1
  <2> QED BY <1>4, <2>1, <2>2 DEF FinalizerStep
<1>5. ASSUME NEW a \in Reconcilers \cup Supervisors, BeginReconcile(a) PROVE HolderWaits'
  BY <1>5 DEF BeginReconcile
<1>6. ASSUME NEW s \in Supervisors, BeginFail(s) \/ SupervisorCrash(s) \/ SupervisorErrs(s)
      PROVE  HolderWaits'
  <2>1. CASE SupervisorCrash(s)
    BY <2>1 DEF SupervisorCrash
  <2>2. CASE BeginFail(s) /\ metadata.status \in TerminalStatus
    <3>1. finalizer.holder # s
      BY <2>2 DEF BeginFail
    <3> QED BY <2>2, <3>1 DEF BeginFail
  <2>3. CASE BeginFail(s) /\ metadata.status \notin TerminalStatus
    <3>1. finalizer'.holder = s /\ finalizer'.pc = "write" /\ pc'[s] = "fail"
      BY <2>3 DEF BeginFail
    <3> QED BY <3>1
  <2>4. CASE SupervisorErrs(s)
    <3>1. /\ \A t \in Supervisors \ {s} : pc'[t] = pc[t]
          /\ finalizer' = IF finalizer.holder = s THEN Unlocked ELSE finalizer
      BY <2>4 DEF SupervisorErrs
    <3> QED BY <3>1
  <2> QED BY <1>6, <2>1, <2>2, <2>3, <2>4
<1>7. ASSUME NEW s \in Supervisors, SupervisorStep(s) PROVE HolderWaits'
  BY <1>7, SupervisorFrame
<1> QED BY <1>1, <1>2, <1>3, <1>4, <1>5, <1>6, <1>7 DEF Next, Crash

\* While the Run is unannounced, a supervisor is not in the training part of
\* its program, so what it does keeps it the only announcer.
LEMMA SupervisorAnnounces ==
  ASSUME Inv, OneAnnouncer, trained = {}, NEW s \in Supervisors, SupervisorStep(s), ~submitted'
  PROVE  OneAnnouncer' /\ trained' = {}
<1> USE DEF Inv, TypeOK, OneAnnouncer, UnannouncedStates
<1>1. /\ UNCHANGED <<finalizer, launcher, caller>>
      /\ pc[s] # "unborn" /\ pc[s] # "dead"
      /\ \A t \in Supervisors \ {s} : pc'[t] = pc[t]
  BY SupervisorFrame
<1>2. \A t \in Supervisors \ {s} : pc[t] = "unborn"
  BY <1>1
<1>3. launcher.pc \notin {"first", "spawn"}
  BY <1>1
<1>4. caller = "off"
  BY <1>1
<1> SUFFICES /\ trained' = {}
             /\ pc'[s] \in UnannouncedStates
             /\ metadata'.status = "accepted" =>
                  pc'[s] \in {"submitEvent", "supervisorFailed", "fail", "finalized", "dead"}
  BY <1>1, <1>2, <1>3, <1>4
<1>5. CASE AwaitRegistration(s) \/ ReadStatus(s) \/ MarkSmoke(s) \/ SmokeRead(s)
  BY <1>1, <1>5 DEF AwaitRegistration, ReadStatus, MarkSmoke, MarkPhase, SmokeRead, Goto
<1>6. CASE SmokePass(s) \/ SmokeFail(s) \/ OperationRaises(s)
  BY <1>1, <1>6 DEF SmokePass, SmokeFail, OperationRaises, Goto, Plain
<1>7. CASE MarkSupervisorFailed(s) \/ MarkFinalized(s)
  BY <1>1, <1>7 DEF MarkSupervisorFailed, MarkFinalized, MarkState, Goto
<1>8. CASE SubmitEvent(s)
  BY <1>8 DEF SubmitEvent
<1>9. CASE \/ MarkTraining(s) \/ TrainCheck(s) \/ WriteTraining(s) \/ RecordStarting(s)
           \/ BootstrapFails(s) \/ DockerRun(s) \/ TrainingSucceeds(s) \/ TrainingFails(s)
           \/ RetryTraining(s) \/ ForcedTimeout(s) \/ WriteTerminal(s) \/ RecordEvent(s)
           \/ RecordEventConflict(s) \/ SupervisorCleanup(s)
  BY <1>9 DEF MarkTraining, MarkPhase, TrainCheck, WriteTraining, RecordStarting,
              BootstrapFails, DockerRun, TrainingSucceeds, TrainingFails, RetryTraining,
              ForcedTimeout, WriteTerminal, RecordEvent, RecordEventConflict,
              SupervisorCleanup
<1> QED BY <1>5, <1>6, <1>7, <1>8, <1>9 DEF SupervisorStep

\* Every step announces the Run or leaves it with one announcer.
LEMMA AnnouncementStep ==
  ASSUME Inv, HolderWaits, OneAnnouncer, trained = {}, ~submitted, Next, ~submitted'
  PROVE  OneAnnouncer' /\ trained' = {}
<1> USE DEF Inv, TypeOK, OneAnnouncer, UnannouncedStates, ledgerVars, dockerVars, supVars, Goto
<1>1. CASE Launch
  <2>1. CASE LauncherCheck
    BY <2>1 DEF LauncherCheck
  <2>2. CASE LauncherRefuses
    BY <2>2 DEF LauncherRefuses
  <2>3. CASE LauncherSpawn
    BY <2>3 DEF LauncherSpawn
  <2>4. CASE LauncherRegister
    BY <2>4 DEF LauncherRegister
  <2> QED BY <1>1, <2>1, <2>2, <2>3, <2>4 DEF Launch
<1>2. CASE LauncherCrash
  BY <1>2 DEF LauncherCrash
<1>3. ASSUME NEW c \in Containers, Docker(c) PROVE OneAnnouncer' /\ trained' = {}
  BY <1>3 DEF Docker, ContainerCreated, ContainerRefused, ContainerExits
<1>4. CASE CallerStep
  <2>1. CASE CallerSmokePass
    BY <2>1 DEF CallerSmokePass
  <2>2. CASE CallerSmokeFail
    BY <2>2 DEF CallerSmokeFail
  <2>3. CASE CallerSubmitEvent
    BY <2>3 DEF CallerSubmitEvent
  <2> QED BY <1>4, <2>1, <2>2, <2>3 DEF CallerStep
<1>5. CASE CallerCrash
  BY <1>5 DEF CallerCrash
<1>6. CASE FinalizerStep
  <2>1. CASE ReconcileDecides \/ ReconcileFailed \/ EnsureTerminalEvent
    BY <2>1 DEF ReconcileDecides, ReconcileFailed, EnsureTerminalEvent
  <2>2. CASE UpdateTerminalMetadata
    <3>1. metadata'.status # "accepted"
      BY <2>2 DEF UpdateTerminalMetadata, Progress, EventStatus
    <3> QED BY <2>2, <3>1 DEF UpdateTerminalMetadata
  <2>3. CASE ReconcileReturns \/ EnsureTerminalEventConflict \/ FinalizerCleanup
    <3> DEFINE holder == finalizer.holder
    <3>1. UNCHANGED <<metadata, launcher, caller, trained>>
      BY <2>3 DEF ReconcileReturns, EnsureTerminalEventConflict, FinalizerCleanup
    <3>2. CASE UNCHANGED pc
      BY <3>1, <3>2
    <3>3. CASE /\ holder \in Supervisors
               /\ \E next \in {"finalized", "dead", "supervisorFailed"} :
                    pc' = [pc EXCEPT ![holder] = next]
      <4>1. pc[holder] \in {"reconcile", "fail"}
        BY <3>3 DEF HolderWaits
      <4> QED BY <3>1, <3>3, <4>1
    <3> QED BY <2>3, <3>2, <3>3 DEF ReconcileReturns, EnsureTerminalEventConflict,
                                     FinalizerCleanup, HolderGoes
  <2> QED BY <1>6, <2>1, <2>2, <2>3 DEF FinalizerStep
<1>7. ASSUME NEW a \in Reconcilers \cup Supervisors, BeginReconcile(a)
      PROVE  OneAnnouncer' /\ trained' = {}
  BY <1>7 DEF BeginReconcile
<1>8. CASE ReconcilerCrash
  BY <1>8 DEF ReconcilerCrash
<1>9. ASSUME NEW s \in Supervisors, BeginFail(s) \/ SupervisorCrash(s) \/ SupervisorErrs(s)
      PROVE  OneAnnouncer' /\ trained' = {}
  <2>1. CASE SupervisorCrash(s)
    BY <2>1 DEF SupervisorCrash, Alive
  <2>2. CASE BeginFail(s)
    BY <2>2 DEF BeginFail
  <2>3. CASE SupervisorErrs(s)
    BY <2>3 DEF SupervisorErrs, Alive
  <2> QED BY <1>9, <2>1, <2>2, <2>3
<1>10. ASSUME NEW s \in Supervisors, SupervisorStep(s) PROVE OneAnnouncer' /\ trained' = {}
  BY <1>10, SupervisorAnnounces
<1> QED BY <1>1, <1>2, <1>3, <1>4, <1>5, <1>6, <1>7, <1>8, <1>9, <1>10 DEF Next, Crash

\* candidate_submitted is never taken back.
LEMMA SubmittedStays ==
  ASSUME submitted, [Next]_vars
  PROVE  submitted'
<1> USE DEF ledgerVars, dockerVars, supVars
<1>1. CASE Launch \/ LauncherCrash
  BY <1>1 DEF Launch, LauncherCheck, LauncherRefuses, LauncherSpawn, LauncherRegister,
              LauncherCrash
<1>2. ASSUME NEW d \in Containers, Docker(d) PROVE submitted'
  BY <1>2 DEF Docker, ContainerCreated, ContainerRefused, ContainerExits
<1>3. CASE CallerStep \/ CallerCrash
  BY <1>3 DEF CallerStep, CallerSmokePass, CallerSmokeFail, CallerSubmitEvent, CallerCrash
<1>4. CASE FinalizerStep \/ ReconcilerCrash \/ \E a \in Reconcilers \cup Supervisors : BeginReconcile(a)
  BY <1>4 DEF ReconcilerCrash, BeginReconcile, FinalizerStep, ReconcileDecides,
              ReconcileFailed, ReconcileReturns, UpdateTerminalMetadata,
              EnsureTerminalEvent, EnsureTerminalEventConflict, FinalizerCleanup
<1>5. ASSUME NEW s \in Supervisors,
             SupervisorStep(s) \/ BeginFail(s) \/ SupervisorCrash(s) \/ SupervisorErrs(s)
      PROVE  submitted'
  BY <1>5 DEF SupervisorStep, AwaitRegistration, ReadStatus, MarkSmoke, MarkPhase,
         SmokeRead, SmokePass, SmokeFail, SubmitEvent, MarkTraining, TrainCheck,
         OperationRaises, WriteTraining, RecordStarting, BootstrapFails, DockerRun,
         TrainingSucceeds, TrainingFails, RetryTraining, ForcedTimeout, KilledAtTimeout,
         WriteTerminal, RecordEvent, RecordEventConflict, SupervisorCleanup,
         MarkSupervisorFailed, MarkFinalized, MarkState, BeginFail, SupervisorCrash, SupervisorErrs
<1>6. CASE UNCHANGED vars
  BY <1>6 DEF vars
<1> QED BY <1>1, <1>2, <1>3, <1>4, <1>5, <1>6 DEF Next, Crash

\* Announcement is an invariant.
LEMMA Announced == Spec => []Announcement
<1>1. Inv /\ Announcement /\ [Next]_vars => Announcement'
  <2> SUFFICES ASSUME Inv, Announcement, [Next]_vars PROVE Announcement'
    OBVIOUS
  <2>1. CASE UNCHANGED vars
    BY <2>1 DEF Announcement, HolderWaits, OneAnnouncer, vars
  <2>2. CASE Next
    <3>1. HolderWaits'
      BY <2>2, HolderStep DEF Announcement
    <3>2. CASE submitted
      BY <3>1, <3>2, SubmittedStays DEF Announcement
    <3>3. CASE ~submitted /\ ~submitted'
      BY <2>2, <3>1, <3>3, AnnouncementStep DEF Announcement
    <3>4. CASE submitted'
      BY <3>1, <3>4 DEF Announcement
    <3> QED BY <3>2, <3>3, <3>4
  <2> QED BY <2>1, <2>2
<1> QED BY InitAnnouncement, Invariance, <1>1, PTL DEF Spec

\* A Run is trained only after its candidate_submitted event, for any number
\* of supervisors, whichever process dies and whoever smokes the Run.
THEOREM TrainedIsSubmitted == Spec => []TrainedRunIsSubmitted
<1>1. Announcement => TrainedRunIsSubmitted
  BY DEF Announcement, TrainedRunIsSubmitted
<1> QED BY Announced, <1>1, PTL

-----------------------------------------------------------------------------
\* A launched supervisor that has not put the Run into training, and the part
\* of its program that follows.
Pretraining ==
  {"await", "read", "markSmoke", "smokeRead", "smoking", "submitEvent",
   "markTraining", "trainCheck", "writeTraining"}

TrainingPart ==
  {"attempt", "dockerRun", "wait", "writeTerminal", "recordEvent", "cleanup", "reconcile"}

\* What start_run_supervisor may still launch.
Undecided == metadata.status \in {"smoke_testing", "accepted"}

\* The launcher is about to register s, or s is found by AlreadyRunning.
Registered(s) ==
  IF launcher.pc = "register"
    THEN s = launcher.child
    ELSE launcher.pc = "idle" /\ record.pid = s /\ record.state \in ActiveRecordStates

OnePretrainer ==
  /\ \A s, t \in Supervisors : pc[s] \in Pretraining /\ pc[t] \in Pretraining => s = t
  /\ launcher.pc \in {"first", "spawn"} => \A s \in Supervisors : pc[s] \notin Pretraining
  /\ launcher.pc = "register" =>
       \A s \in Supervisors : pc[s] \in Pretraining => s = launcher.child

\* A supervisor that may still train is visible to the launcher as long as the
\* launcher may launch, until it records its own failure.
PretrainerIsKnown ==
  Undecided \/ ~submitted =>
    \A s \in Supervisors : pc[s] \in Pretraining \cup {"supervisorFailed"} => Registered(s)

\* Who marks the record finalized has seen or written a decided Run.
FinalizedIsDecided ==
  /\ Undecided => \A s \in Supervisors : pc[s] # "finalized"
  /\ finalizer.holder \in Supervisors /\ finalizer.pc \in {"ensure", "cleanup"} => ~Undecided
  /\ finalizer.holder \in Supervisors /\ finalizer.pc = "observe" =>
       pc[finalizer.holder] = "reconcile"

\* Whoever is about to smoke the Run has not announced it, and nobody else has.
SmokedOnce ==
  /\ \A s \in Supervisors :
       pc[s] \in {"markSmoke", "smokeRead", "smoking", "submitEvent"} => ~submitted
  /\ caller # "off" => ~submitted
  /\ launcher.pc = "first" => ~submitted
  /\ metadata.status = "smoke_testing" =>
       ~submitted /\ caller # "submit" /\ \A s \in Supervisors : pc[s] # "submitEvent"

\* Once one supervisor trains there is no other that could.
TrainedOnce ==
  /\ \A s, t \in trained : s = t
  /\ \A s \in Supervisors : pc[s] \in TrainingPart => trained # {}
  /\ trained # {} =>
       /\ ~Undecided
       /\ launcher.pc \notin {"first", "spawn"}
       /\ \A s \in Supervisors : pc[s] \notin Pretraining

Trainers ==
  /\ OnePretrainer
  /\ PretrainerIsKnown
  /\ FinalizedIsDecided
  /\ SmokedOnce
  /\ TrainedOnce

\* At first no supervisor exists.
LEMMA InitTrainers == Init => Trainers
  BY NobodyIsNoName, SmokePaths DEF Init, Trainers, OnePretrainer, PretrainerIsKnown,
     FinalizedIsDecided, SmokedOnce, TrainedOnce, Undecided, Pretraining, TrainingPart, Unlocked, Plain

\* The daemon and the caller launch and train nothing; a caller that smokes the
\* Run does so before any supervisor exists.
LEMMA DockerTrainers ==
  ASSUME Trainers, NEW c \in Containers, Docker(c)
  PROVE  Trainers'
  BY DEF Docker, ContainerCreated, ContainerRefused, ContainerExits, Trainers, OnePretrainer,
     PretrainerIsKnown, Registered, FinalizedIsDecided, SmokedOnce, TrainedOnce, Undecided,
     ledgerVars, supVars

LEMMA CallerTrainers ==
  ASSUME Inv, Announcement, Trainers, CallerStep \/ CallerCrash
  PROVE  Trainers'
<1> USE DEF Inv, TypeOK, Trainers, OnePretrainer, PretrainerIsKnown, Registered, FinalizedIsDecided,
        SmokedOnce, TrainedOnce, Undecided, Pretraining, TrainingPart, Announcement, HolderWaits,
        OneAnnouncer, ledgerVars, dockerVars, supVars, Plain
<1>1. /\ ~submitted /\ trained = {}
      /\ \A s \in Supervisors : pc[s] = "unborn"
  BY DEF CallerStep, CallerSmokePass, CallerSmokeFail, CallerSubmitEvent, CallerCrash
<1>2. CASE CallerSmokePass
  BY <1>1, <1>2 DEF CallerSmokePass
<1>3. CASE CallerSmokeFail
  BY <1>1, <1>3 DEF CallerSmokeFail
<1>4. CASE CallerSubmitEvent
  BY <1>1, <1>4 DEF CallerSubmitEvent
<1>5. CASE CallerCrash
  BY <1>1, <1>5 DEF CallerCrash
<1> QED BY <1>2, <1>3, <1>4, <1>5 DEF CallerStep

\* The launcher starts a supervisor only when it sees none that may train.
LEMMA LaunchTrainers ==
  ASSUME Inv, Announcement, Trainers, Launch
  PROVE  Trainers'
<1> USE NobodyIsNoName DEF Inv, TypeOK, Trainers, OnePretrainer, PretrainerIsKnown, Registered, FinalizedIsDecided,
        SmokedOnce, TrainedOnce, Undecided, Pretraining, TrainingPart, Announcement, HolderWaits,
        OneAnnouncer, ledgerVars, dockerVars, supVars
<1>1. CASE LauncherCheck
  <2>1. ASSUME NEW s \in Supervisors, pc[s] \in Pretraining \cup {"supervisorFailed"} PROVE FALSE
    <3>1. /\ Undecided
          /\ launcher.pc \in {"idle", "first"}
      BY <1>1 DEF LauncherCheck
    <3>2. Registered(s)
      BY <2>1, <3>1
    <3>3. record.pid = s /\ record.state \in ActiveRecordStates
      BY <3>1, <3>2
    <3> QED BY <1>1, <2>1, <3>1, <3>3 DEF LauncherCheck, AlreadyRunning, Alive
  <2>2. trained = {}
    BY <1>1 DEF LauncherCheck
  <2> QED BY <1>1, <2>1, <2>2 DEF LauncherCheck
<1>2. CASE LauncherRefuses
  BY <1>2 DEF LauncherRefuses
<1>3. CASE LauncherSpawn
  <2>1. PICK s \in Supervisors :
          /\ pc[s] = "unborn"
          /\ launcher' = [pc |-> "register", child |-> s]
          /\ pc' = [pc EXCEPT ![s] = "await"]
    BY <1>3 DEF LauncherSpawn, Goto
  <2>2. trained = {}
    BY <1>3 DEF LauncherSpawn
  <2> QED BY <1>3, <2>1, <2>2 DEF LauncherSpawn
<1>4. CASE LauncherRegister
  <2>1. /\ record'.pid = launcher.child /\ record'.state = "supervisor_running"
        /\ launcher'.pc = "idle"
    BY <1>4 DEF LauncherRegister, ExecutionRecord
  <2> QED BY <1>4, <2>1 DEF LauncherRegister, ActiveRecordStates
<1> QED BY <1>1, <1>2, <1>3, <1>4 DEF Launch
\* Before training, a supervisor's records are its own registration, and it
\* smokes the Run only while no other supervisor exists.
LEMMA PretrainingStep ==
  ASSUME Inv, Announcement, Trainers, NEW s \in Supervisors,
         \/ AwaitRegistration(s) \/ ReadStatus(s) \/ MarkSmoke(s) \/ SmokeRead(s)
         \/ SmokePass(s) \/ SmokeFail(s) \/ SubmitEvent(s) \/ MarkTraining(s)
         \/ TrainCheck(s) \/ OperationRaises(s) \/ WriteTraining(s)
  PROVE  Trainers'
<1> USE NobodyIsNoName DEF Inv, TypeOK, Trainers, OnePretrainer, PretrainerIsKnown, Registered, FinalizedIsDecided,
        SmokedOnce, TrainedOnce, Undecided, Pretraining, TrainingPart, Announcement, HolderWaits,
        OneAnnouncer, ledgerVars, dockerVars, supVars, Goto, Plain, Failed
<1>1. CASE AwaitRegistration(s)
  BY <1>1 DEF AwaitRegistration
<1>2. CASE ReadStatus(s)
  BY <1>2 DEF ReadStatus
<1>3. ASSUME NEW state \in ActiveRecordStates, record' = [record EXCEPT !.state = state, !.pid = s]
      PROVE  record'.pid = s /\ record'.state \in ActiveRecordStates
  BY <1>3 DEF ExecutionRecord
<1>4. CASE MarkSmoke(s)
  <2>1. record'.pid = s /\ record'.state \in ActiveRecordStates
    BY <1>4, <1>3 DEF MarkSmoke, MarkPhase, ActiveRecordStates
  <2> QED BY <1>4, <2>1 DEF MarkSmoke, MarkPhase
<1>5. CASE SmokeRead(s)
  BY <1>5 DEF SmokeRead
<1>6. CASE SmokePass(s)
  <2>1. /\ ~submitted /\ trained = {}
        /\ \A t \in Supervisors \ {s} : pc[t] = "unborn"
    BY <1>6 DEF SmokePass
  <2> QED BY <1>6, <2>1 DEF SmokePass
<1>7. CASE SmokeFail(s)
  BY <1>7 DEF SmokeFail
<1>8. CASE SubmitEvent(s)
  <2>1. /\ ~submitted /\ trained = {}
        /\ \A t \in Supervisors \ {s} : pc[t] = "unborn"
    BY <1>8 DEF SubmitEvent
  <2> QED BY <1>8, <2>1 DEF SubmitEvent
<1>9. CASE MarkTraining(s)
  <2>1. record'.pid = s /\ record'.state \in ActiveRecordStates
    BY <1>9, <1>3 DEF MarkTraining, MarkPhase, ActiveRecordStates
  <2> QED BY <1>9, <2>1 DEF MarkTraining, MarkPhase
<1>10. CASE TrainCheck(s)
  BY <1>10 DEF TrainCheck
<1>11. CASE OperationRaises(s)
  BY <1>11 DEF OperationRaises
<1>12. CASE WriteTraining(s)
  <2>1. trained = {} /\ launcher.pc \notin {"first", "spawn"} /\ submitted
    BY <1>12 DEF WriteTraining, UnannouncedStates
  <2> QED BY <1>12, <2>1 DEF WriteTraining
<1> QED BY <1>1, <1>2, <1>4, <1>5, <1>6, <1>7, <1>8, <1>9, <1>10, <1>11, <1>12

\* A supervisor that trains finds no other that could, whatever it records.
LEMMA TrainingStep ==
  ASSUME Inv, Announcement, Trainers, NEW s \in Supervisors, pc[s] \in TrainingPart,
         SupervisorStep(s)
  PROVE  Trainers'
<1> USE NobodyIsNoName DEF Inv, TypeOK, Trainers, OnePretrainer, PretrainerIsKnown, Registered, FinalizedIsDecided,
        SmokedOnce, TrainedOnce, Undecided, Pretraining, TrainingPart, Announcement, HolderWaits,
        OneAnnouncer, ledgerVars, dockerVars, supVars, Goto, Plain, Failed
<1>1. /\ trained # {} /\ submitted /\ ~Undecided
      /\ UNCHANGED <<finalizer, launcher, caller>>
      /\ \A t \in Supervisors \ {s} : pc'[t] = pc[t]
      /\ finalizer.holder # s
  BY SupervisorFrame
<1>2. /\ UNCHANGED <<trained, submitted>>
      /\ metadata'.status \notin {"smoke_testing", "accepted"}
      /\ pc'[s] \in TrainingPart \cup {"supervisorFailed"}
  BY <1>1 DEF SupervisorStep, AwaitRegistration, ReadStatus, MarkSmoke, MarkPhase,
     SmokeRead, SmokePass, SmokeFail, SubmitEvent, MarkTraining, TrainCheck,
     OperationRaises, WriteTraining, RecordStarting, BootstrapFails, DockerRun,
     TrainingSucceeds, TrainingFails, RetryTraining, ForcedTimeout, WriteTerminal,
     RecordEvent, RecordEventConflict, SupervisorCleanup, MarkSupervisorFailed,
     MarkFinalized, MarkState, Progress, EventStatus
<1> QED BY <1>1, <1>2

\* A supervisor that gave up is still the one on record, or the Run is decided.
LEMMA LeavingStep ==
  ASSUME Inv, Announcement, Trainers, NEW s \in Supervisors,
         MarkSupervisorFailed(s) \/ MarkFinalized(s) \/ BeginFail(s) \/ SupervisorCrash(s)
           \/ SupervisorErrs(s)
  PROVE  Trainers'
<1> USE NobodyIsNoName DEF Inv, TypeOK, Trainers, OnePretrainer, PretrainerIsKnown, Registered, FinalizedIsDecided,
        SmokedOnce, TrainedOnce, Undecided, Pretraining, TrainingPart, Announcement, HolderWaits,
        OneAnnouncer, ledgerVars, dockerVars, supVars, Goto, Plain, Failed
<1>1. CASE MarkSupervisorFailed(s)
  <2>1. ASSUME Undecided \/ ~submitted, NEW t \in Supervisors,
               pc[t] \in Pretraining \cup {"supervisorFailed"}
        PROVE  t = s
    BY <1>1, <2>1 DEF MarkSupervisorFailed, MarkState
  <2> QED BY <1>1, <2>1 DEF MarkSupervisorFailed, MarkState
<1>2. CASE MarkFinalized(s)
  <2>1. ~Undecided
    BY <1>2 DEF MarkFinalized, MarkState
  <2>2. ~submitted => \A t \in Supervisors \ {s} : pc[t] = "unborn"
    BY <1>2 DEF MarkFinalized, MarkState
  <2> QED BY <1>2, <2>1, <2>2 DEF MarkFinalized, MarkState
<1>3. CASE BeginFail(s) /\ metadata.status \in TerminalStatus
  <2>1. /\ ~Undecided /\ UNCHANGED finalizer
        /\ pc' = [pc EXCEPT ![s] = "finalized"]
    BY <1>3 DEF BeginFail, TerminalStatus, EventStatus
  <2> QED BY <1>3, <2>1 DEF BeginFail
<1>4. CASE BeginFail(s) /\ metadata.status \notin TerminalStatus
  <2>1. /\ finalizer'.pc = "write" /\ UNCHANGED pc
    BY <1>4 DEF BeginFail
  <2> QED BY <1>4, <2>1 DEF BeginFail
<1>5. CASE SupervisorCrash(s)
  <2>1. /\ pc' = [pc EXCEPT ![s] = "dead"]
        /\ finalizer' = IF finalizer.holder = s THEN Unlocked ELSE finalizer
        /\ UNCHANGED <<metadata, record, launcher, caller, submitted, trained>>
    BY <1>5 DEF SupervisorCrash
  <2>2. Unlocked.holder \notin Supervisors
    BY DEF Unlocked
  <2> QED BY <2>1, <2>2
<1>6. CASE SupervisorErrs(s)
  <2>1. /\ pc[s] \notin {"unborn", "dead"}
        /\ pc' = [pc EXCEPT ![s] = IF pc[s] \in {"supervisorFailed", "fail", "finalized"}
                                     THEN "dead" ELSE "supervisorFailed"]
        /\ finalizer' = IF finalizer.holder = s THEN Unlocked ELSE finalizer
        /\ UNCHANGED <<metadata, launcher, caller, submitted, trained>>
    BY <1>6 DEF SupervisorErrs, Alive
  <2>2. UNCHANGED record \/ pc[s] \in TrainingPart
    BY <1>6 DEF SupervisorErrs
  <2>3. Unlocked.holder \notin Supervisors
    BY DEF Unlocked
  <2>4. CASE pc[s] \in Pretraining
    BY <2>1, <2>2, <2>3, <2>4
  <2>5. CASE pc[s] \in TrainingPart
    <3>1. trained # {} /\ ~Undecided /\ submitted
      BY <2>5
    <3> QED BY <2>1, <2>3, <2>5, <3>1
  <2>6. CASE pc[s] \in {"supervisorFailed", "fail", "finalized"}
    BY <2>1, <2>2, <2>3, <2>6
  <2> QED BY <2>1, <2>4, <2>5, <2>6 DEF SupervisorStates
<1> QED BY <1>1, <1>2, <1>3, <1>4, <1>5, <1>6

\* Under the lock nobody starts or trains the Run, and a terminal plan decides it.
LEMMA FinalizerTrainers ==
  ASSUME Inv, Announcement, Trainers,
         FinalizerStep \/ ReconcilerCrash \/ \E a \in Reconcilers \cup Supervisors : BeginReconcile(a)
  PROVE  Trainers'
<1> USE NobodyIsNoName DEF Inv, TypeOK, Trainers, OnePretrainer, PretrainerIsKnown, Registered, FinalizedIsDecided,
        SmokedOnce, TrainedOnce, Undecided, Pretraining, TrainingPart, Announcement, HolderWaits,
        OneAnnouncer, ledgerVars, dockerVars, supVars, Goto, Plain, Failed
<1>1. ASSUME NEW a \in Reconcilers \cup Supervisors, BeginReconcile(a) PROVE Trainers'
  <2>1. /\ finalizer'.pc = "observe" /\ finalizer'.holder = a
        /\ a \in Supervisors => pc[a] = "reconcile"
    BY <1>1, RolesAreDisjoint DEF BeginReconcile
  <2> QED BY <1>1, <2>1 DEF BeginReconcile
<1>2. CASE ReconcileDecides
  <2>1. finalizer'.pc = "write"
    BY <1>2 DEF ReconcileDecides, Finalizer
  <2> QED BY <1>2, <2>1 DEF ReconcileDecides
<1>3. CASE ReconcileFailed
  <2>1. finalizer'.holder = finalizer.holder
    BY <1>3 DEF ReconcileFailed, Finalizer
  <2>2. finalizer.holder \in Supervisors => ~Undecided
    BY <1>3 DEF ReconcileFailed
  <2> QED BY <1>3, <2>1, <2>2 DEF ReconcileFailed
<1>4. CASE UpdateTerminalMetadata
  <2>1. metadata'.status \notin {"smoke_testing", "accepted"}
    BY <1>4 DEF UpdateTerminalMetadata, Progress, EventStatus
  <2> QED BY <1>4, <2>1 DEF UpdateTerminalMetadata
<1>5. CASE EnsureTerminalEvent
  <2>1. finalizer'.holder = finalizer.holder
    BY <1>5 DEF EnsureTerminalEvent, Finalizer
  <2> QED BY <1>5, <2>1 DEF EnsureTerminalEvent
<1>6. CASE ReconcileReturns \/ EnsureTerminalEventConflict \/ FinalizerCleanup
  <2> DEFINE holder == finalizer.holder
  <2>1. /\ UNCHANGED <<metadata, record, launcher, caller, submitted, trained>>
        /\ finalizer'.holder \notin Supervisors
    BY <1>6 DEF ReconcileReturns, EnsureTerminalEventConflict, FinalizerCleanup, Unlocked
  <2>2. CASE holder \notin Supervisors
    <3>1. UNCHANGED pc
      BY <1>6, <2>2 DEF ReconcileReturns, EnsureTerminalEventConflict, FinalizerCleanup, HolderGoes
    <3> QED BY <2>1, <3>1
  <2>3. CASE holder \in Supervisors
    <3>1. pc[holder] \in {"reconcile", "fail"}
      BY <2>3
    <3>2. ~Undecided
      BY <1>6, <2>3, <3>1 DEF ReconcileReturns, EnsureTerminalEventConflict, FinalizerCleanup
    <3>3. \E next \in {"finalized", "dead", "supervisorFailed"} : 
            /\ pc' = [pc EXCEPT ![holder] = next]
            /\ next = "supervisorFailed" => pc[holder] = "reconcile"
      BY <1>6, <2>3, <3>1 DEF ReconcileReturns, EnsureTerminalEventConflict, FinalizerCleanup, HolderGoes
    <3> QED BY <2>1, <2>3, <3>1, <3>2, <3>3
  <2> QED BY <2>2, <2>3
<1>7. CASE ReconcilerCrash
  <2>1. finalizer'.holder \notin Supervisors
    BY <1>7 DEF ReconcilerCrash, Unlocked
  <2> QED BY <1>7, <2>1 DEF ReconcilerCrash
<1> QED BY <1>1, <1>2, <1>3, <1>4, <1>5, <1>6, <1>7 DEF FinalizerStep
\* One supervisor trains a Run, for any number of supervisors, observers and
\* kills, however late a supervisor registers, as long as no launcher dies
\* between spawning a supervisor and registering it (start_run_supervisor).
THEOREM OneTrainer ==
  ASSUME "launcher" \notin CrashKinds
  PROVE  Spec => []SingleTrainer
<1>1. Inv /\ Announcement /\ Trainers /\ [Next]_vars => Trainers'
  <2> SUFFICES ASSUME Inv, Announcement, Trainers, [Next]_vars PROVE Trainers'
    OBVIOUS
  <2>1. CASE UNCHANGED vars
    BY <2>1 DEF Trainers, OnePretrainer, PretrainerIsKnown, Registered, FinalizedIsDecided,
                SmokedOnce, TrainedOnce, Undecided, vars
  <2>2. CASE LauncherCrash
    BY <2>2 DEF LauncherCrash, MayCrash
  <2>3. ASSUME NEW s \in Supervisors, SupervisorStep(s) PROVE Trainers'
    <3>1. CASE pc[s] \in TrainingPart
      BY <2>3, <3>1, TrainingStep
    <3>2. CASE MarkSupervisorFailed(s) \/ MarkFinalized(s)
      BY <3>2, LeavingStep
    <3>3. ASSUME pc[s] \notin TrainingPart, ~MarkSupervisorFailed(s), ~MarkFinalized(s)
          PROVE  \/ AwaitRegistration(s) \/ ReadStatus(s) \/ MarkSmoke(s) \/ SmokeRead(s)
                 \/ SmokePass(s) \/ SmokeFail(s) \/ SubmitEvent(s) \/ MarkTraining(s)
                 \/ TrainCheck(s) \/ OperationRaises(s) \/ WriteTraining(s)
      BY <2>3, <3>3 DEF SupervisorStep, TrainingPart, RecordStarting, BootstrapFails, DockerRun,
         TrainingSucceeds, TrainingFails, RetryTraining, ForcedTimeout, WriteTerminal,
         RecordEvent, RecordEventConflict, SupervisorCleanup
    <3> QED BY <3>1, <3>2, <3>3, PretrainingStep
  <2>4. CASE Next
    BY <2>2, <2>3, <2>4, LeavingStep, LaunchTrainers, DockerTrainers, CallerTrainers, FinalizerTrainers
       DEF Next, Crash
  <2> QED BY <2>1, <2>4
<1>2. Inv /\ Trainers => SingleTrainer
  <2> SUFFICES ASSUME Inv, Trainers PROVE Cardinality(trained) <= 1
    BY DEF SingleTrainer
  <2>1. CASE trained = {}
    BY <2>1, FS_EmptySet
  <2>2. CASE trained # {}
    <3>1. PICK s : s \in trained
      BY <2>2
    <3>2. trained = {s}
      BY <3>1 DEF Trainers, TrainedOnce
    <3> QED BY <3>2, FS_Singleton
  <2> QED BY <2>1, <2>2
<1> QED BY InitTrainers, Announced, Invariance, <1>1, <1>2, PTL DEF Spec
-----------------------------------------------------------------------------
\* A Run that is launched once: one supervisor, which may be killed like every
\* other process and meets no exception but those of OperationRaises, and
\* observers that know the Run by its execution record.
LaunchedOnce ==
  /\ \A s, t \in Supervisors : s = t
  /\ ~EarlyReconcile
  /\ "error" \notin CrashKinds

\* The supervisor may be killed.
Mortal == "supervisor" \in CrashKinds

\* A Run left alone: launched once, and its supervisor is not killed.
\* Launchers, callers and reconcilers may die, and the supervisor may be slower
\* than its registration.
Undisturbed == LaunchedOnce /\ ~Mortal

Killed(s) == Mortal /\ pc[s] = "dead"

\* The metadata at each place of the supervisor's program.
MetadataFollows(s) ==
  /\ pc[s] = "unborn" =>
       /\ metadata.status \in {"smoke_testing", "accepted", "smoke_failed"}
       /\ launcher.pc = "spawn" => metadata.status \in {"smoke_testing", "accepted"}
  /\ pc[s] \in {"await", "read"} => metadata.status \in {"smoke_testing", "accepted"}
  /\ pc[s] \in {"markSmoke", "smokeRead", "smoking"} => metadata.status = "smoke_testing"
  /\ pc[s] \in {"submitEvent", "markTraining", "trainCheck", "writeTraining"} =>
       metadata.status = "accepted"
  /\ pc[s] \in {"attempt", "dockerRun", "wait", "writeTerminal"} => metadata.status = "training"
  /\ pc[s] \in {"recordEvent", "cleanup", "reconcile"} =>
       metadata = outcome[s] /\ metadata.status \in EventStatus
  /\ pc[s] \in {"supervisorFailed", "fail"} =>
       \/ metadata.status \in {"smoke_testing", "accepted"}
       \/ finalizer.holder = s /\ finalizer.pc \in {"ensure", "cleanup"}
  /\ pc[s] \in {"finalized", "dead"} => Killed(s) \/ metadata.status \in TerminalStatus

\* The one terminal event is the metadata, until a reconciler repairs the Run
\* of a dead supervisor.
LedgerFollows(s) ==
  \/ Killed(s)
  \/ events = <<>>
  \/ metadata.status \in EventStatus /\ events = <<metadata>>

\* Who holds the lock knows the metadata, however long ago it read it: only a
\* Run that failed its smoke test can have ended behind a reconciler's back,
\* or one whose supervisor died since.
FinalizerFollows(s) ==
  /\ finalizer.holder = s =>
       /\ finalizer.pc = "observe" => pc[s] = "reconcile" /\ finalizer.plan = metadata
       /\ finalizer.pc = "write" =>
            \/ finalizer.plan = metadata
            \/ /\ pc[s] = "fail" /\ finalizer.plan.status = "failed"
               /\ metadata.status \in {"smoke_testing", "accepted"}
  /\ finalizer.holder \in Reconcilers =>
       /\ finalizer.pc = "observe" =>
            /\ record.pid = s
            /\ finalizer.plan.status \in EventStatus => finalizer.plan = metadata
            /\ finalizer.plan.status = "training" => pc[s] \in TrainingPart \/ Killed(s)
            /\ finalizer.plan.status = "smoke_testing" /\ pc[s] \in {"finalized", "dead"} =>
                 metadata.status = "smoke_failed" \/ Killed(s)
       /\ finalizer.pc = "write" =>
            \/ finalizer.plan = metadata
            \/ Killed(s)
            \/ /\ pc[s] = "dead" /\ finalizer.plan.status = "failed"
               /\ metadata.status = "smoke_failed"
  /\ finalizer.pc \in {"ensure", "cleanup"} => finalizer.plan = metadata
  /\ finalizer.pc # "idle" => finalizer.holder \in {s} \cup Reconcilers

\* A caller that smokes the Run does so before it is known to anybody.
CallerFirst(s) ==
  caller # "off" =>
    /\ pc[s] = "unborn" /\ launcher.pc = "idle"
    /\ ~submitted
    /\ caller = "smoking" => metadata.status = "smoke_testing"

RecordFollows(s) ==
  /\ record.pid \in {s, Nobody}
  /\ launcher.pc = "register" => launcher.child = s /\ pc[s] # "unborn"
  /\ record.pid = s => pc[s] # "unborn"

\* Outputs do not change once the last container has stopped.
OutputsFollow(s) ==
  /\ \A c \in Containers :
       container[c] \in {"creating", "running"} => (pc[s] = "wait" /\ c = work[s]) \/ Killed(s)
  /\ pc[s] = "writeTerminal" /\ outcome[s].status = "completed" =>
       artifactsValid /\ outcome[s] = Plain("completed")
  /\ metadata.status = "completed" =>
       (artifactsValid /\ metadata = Plain("completed")) \/ Killed(s)

Life(s) ==
  /\ HolderWaits
  /\ MetadataFollows(s)
  /\ LedgerFollows(s)
  /\ FinalizerFollows(s)
  /\ CallerFirst(s)
  /\ RecordFollows(s)
  /\ OutputsFollow(s)

\* At first the supervisor does not exist.
LEMMA InitLife ==
  ASSUME Init, LaunchedOnce, NEW s \in Supervisors
  PROVE  Life(s)
  BY NobodyIsNoName, SmokePaths DEF Init, LaunchedOnce, Life, HolderWaits, MetadataFollows, LedgerFollows,
     FinalizerFollows, CallerFirst, RecordFollows, OutputsFollow, Unlocked, Plain

\* The launcher registers the supervisor that it spawned.
LEMMA LaunchLife ==
  ASSUME Inv, LaunchedOnce, NEW s \in Supervisors, Life(s), Launch \/ LauncherCrash
  PROVE  Life(s)'
<1> USE NobodyIsNoName, RolesAreDisjoint DEF Inv, TypeOK, Life, MetadataFollows, LedgerFollows, FinalizerFollows,
        RecordFollows, OutputsFollow, HolderWaits, CallerFirst, Killed, LaunchedOnce, Goto, ledgerVars, dockerVars, supVars
<1>1. CASE LauncherCheck
  BY <1>1 DEF LauncherCheck
<1>2. CASE LauncherRefuses
  BY <1>2 DEF LauncherRefuses
<1>3. CASE LauncherSpawn
  <2>1. /\ pc[s] = "unborn"
        /\ launcher' = [pc |-> "register", child |-> s]
        /\ pc' = [pc EXCEPT ![s] = "await"]
    BY <1>3 DEF LauncherSpawn
  <2> QED BY <1>3, <2>1 DEF LauncherSpawn
<1>4. CASE LauncherRegister
  <2>1. record'.pid = s
    BY <1>4 DEF LauncherRegister, ExecutionRecord
  <2> QED BY <1>4, <2>1 DEF LauncherRegister
<1>5. CASE LauncherCrash
  BY <1>5 DEF LauncherCrash
<1> QED BY <1>1, <1>2, <1>3, <1>4, <1>5 DEF Launch

\* A container runs only while the supervisor waits for it.
LEMMA DockerLife ==
  ASSUME Inv, LaunchedOnce, NEW s \in Supervisors, Life(s), NEW c \in Containers, Docker(c)
  PROVE  Life(s)'
<1> USE NobodyIsNoName, RolesAreDisjoint DEF Inv, TypeOK, Life, MetadataFollows, LedgerFollows, FinalizerFollows,
        RecordFollows, OutputsFollow, HolderWaits, CallerFirst, Killed, LaunchedOnce, Goto, ledgerVars, dockerVars, supVars
<1>1. (pc[s] = "wait" /\ c = work[s]) \/ Killed(s)
  BY DEF Docker, ContainerCreated, ContainerRefused, ContainerExits
<1> QED BY <1>1 DEF Docker, ContainerCreated, ContainerRefused, ContainerExits, EventStatus

\* Under the lock only the decided outcome is written and recorded.
LEMMA FinalizerLife ==
  ASSUME Inv, LaunchedOnce, NEW s \in Supervisors, Life(s),
         FinalizerStep \/ ReconcilerCrash \/ \E a \in Reconcilers \cup Supervisors : BeginReconcile(a)
  PROVE  Life(s)'
<1> USE NobodyIsNoName, RolesAreDisjoint DEF Inv, TypeOK, Life, MetadataFollows, LedgerFollows, FinalizerFollows,
        RecordFollows, OutputsFollow, HolderWaits, CallerFirst, Killed, LaunchedOnce, Goto, ledgerVars, dockerVars, supVars
<1>1. ASSUME NEW a \in Reconcilers \cup Supervisors, BeginReconcile(a) PROVE Life(s)'
  <2>1. finalizer' = [holder |-> a, pc |-> "observe", plan |-> metadata]
    BY <1>1 DEF BeginReconcile
  <2>2. a \in Reconcilers => record.pid = s
    BY <1>1 DEF BeginReconcile
  <2>3. /\ finalizer.pc = "idle" /\ finalizer.holder = Nobody
        /\ a \in Supervisors => a = s /\ pc[s] = "reconcile"
        /\ UNCHANGED <<metadata, record, launcher, caller, ledgerVars, dockerVars, supVars>>
    BY <1>1 DEF BeginReconcile
  <2>4. metadata.status = "training" => pc[s] \in TrainingPart \/ Killed(s)
    BY <2>3 DEF TrainingPart, SupervisorStates, EventStatus, TerminalStatus
  <2>5. metadata.status = "smoke_testing" => pc[s] \notin {"finalized", "dead"} \/ Killed(s)
    BY DEF TerminalStatus, EventStatus
  <2> QED BY <2>1, <2>2, <2>3, <2>4, <2>5
<1>2. CASE ReconcileDecides
  <2>1. PICK plan \in Metadata :
          /\ Decide(plan)
          /\ finalizer' = [finalizer EXCEPT !.pc = "write", !.plan = plan]
    BY <1>2 DEF ReconcileDecides
  <2>2. /\ finalizer'.holder = finalizer.holder
        /\ finalizer'.pc = "write" /\ finalizer'.plan = plan
    BY <2>1 DEF Finalizer
  <2>3. finalizer.plan.status = "completed" => plan = metadata \/ Killed(s)
    BY <1>2, <2>1 DEF ReconcileDecides, Decide, EventStatus
  <2>4. CASE finalizer.plan.status = "completed"
    BY <1>2, <2>2, <2>3, <2>4 DEF ReconcileDecides
  <2>6. CASE Killed(s)
    BY <1>2, <2>2, <2>6 DEF ReconcileDecides
  <2>5. CASE finalizer.plan.status # "completed" /\ ~Killed(s)
    <3>1. finalizer.holder \in Reconcilers /\ ~ObservedActive /\ record.pid = s
          /\ finalizer.plan.status \in {"smoke_testing", "training"}
      BY <1>2, <2>1, <2>5 DEF ReconcileDecides, Decide, EventStatus
    <3>2. pc[s] = "dead"
      BY <3>1 DEF ObservedActive, Alive
    <3>3. finalizer.plan.status = "smoke_testing" /\ metadata.status = "smoke_failed"
      BY <1>2, <2>5, <3>1, <3>2 DEF TrainingPart, ReconcileDecides
    <3>4. plan.status = "failed"
      BY <2>1, <3>3 DEF Decide, Failed
    <3> QED BY <1>2, <2>2, <3>1, <3>2, <3>3, <3>4 DEF ReconcileDecides
  <2> QED BY <2>4, <2>5, <2>6
<1>3. CASE ReconcileFailed
  <2>1. /\ finalizer'.holder = finalizer.holder
        /\ finalizer'.pc = "ensure" /\ finalizer'.plan = finalizer.plan
        /\ finalizer.plan = metadata
    BY <1>3 DEF ReconcileFailed, Finalizer, EventStatus
  <2> QED BY <1>3, <2>1 DEF ReconcileFailed
<1>4. CASE ReconcileReturns
  <2>1. finalizer.holder \in Reconcilers
    BY <1>4 DEF ReconcileReturns, EventStatus
  <2>2. UNCHANGED pc /\ finalizer' = Unlocked
    BY <1>4, <2>1 DEF ReconcileReturns, HolderGoes
  <2> QED BY <1>4, <2>2 DEF ReconcileReturns, Unlocked
<1>5. CASE UpdateTerminalMetadata
  <2>1. /\ finalizer'.holder = finalizer.holder
        /\ finalizer'.pc = "ensure" /\ finalizer'.plan = finalizer.plan
        /\ metadata' = finalizer.plan /\ finalizer.plan.status \in EventStatus
    BY <1>5 DEF UpdateTerminalMetadata, Finalizer, Progress
  <2>2. CASE finalizer.plan = metadata
    BY <1>5, <2>1, <2>2 DEF UpdateTerminalMetadata
  <2>3. CASE /\ pc[s] = "fail" /\ finalizer.plan.status = "failed"
             /\ metadata.status \in {"smoke_testing", "accepted"} /\ finalizer.holder = s
    BY <1>5, <2>1, <2>3 DEF UpdateTerminalMetadata, EventStatus
  <2>4. CASE /\ pc[s] = "dead" /\ finalizer.plan.status = "failed"
             /\ metadata.status = "smoke_failed" /\ finalizer.holder \in Reconcilers
    BY <1>5, <2>1, <2>4 DEF UpdateTerminalMetadata, EventStatus, TerminalStatus
  <2>5. CASE Killed(s) /\ finalizer.holder \in Reconcilers
    BY <1>5, <2>1, <2>5 DEF UpdateTerminalMetadata, EventStatus, TerminalStatus
  <2> QED BY <1>5, <2>2, <2>3, <2>4, <2>5 DEF UpdateTerminalMetadata
<1>6. CASE EnsureTerminalEvent
  <2>1. /\ finalizer'.holder = finalizer.holder
        /\ finalizer'.pc = "cleanup" /\ finalizer'.plan = finalizer.plan
        /\ metadata = finalizer.plan /\ metadata.status \in EventStatus
    BY <1>6 DEF EnsureTerminalEvent, Finalizer, Progress
  <2>2. events' = <<metadata>> \/ Killed(s)
    BY <1>6, <2>1 DEF EnsureTerminalEvent, AppendTerminal
  <2> QED BY <1>6, <2>1, <2>2 DEF EnsureTerminalEvent
<1>7. CASE EnsureTerminalEventConflict
  <2>1. finalizer.plan = metadata
    BY <1>7 DEF EnsureTerminalEventConflict
  <2>2. Len(<<metadata>>) = 1 /\ <<metadata>>[1] = metadata
    OBVIOUS
  <2>5. events # <<>> /\ (Len(events) > 1 \/ events[1].status # metadata.status)
    BY <1>7, <2>1 DEF EnsureTerminalEventConflict, Conflicts
  <2>6. ASSUME events = <<metadata>> PROVE FALSE
    BY <2>2, <2>5, <2>6
  <2>3. Killed(s)
    BY <2>5, <2>6
  <2>4. UNCHANGED pc /\ finalizer' = Unlocked
    BY <1>7, <2>3 DEF EnsureTerminalEventConflict, HolderGoes
  <2> QED BY <1>7, <2>3, <2>4 DEF EnsureTerminalEventConflict, Unlocked
<1>8. CASE FinalizerCleanup
  <2>1. finalizer.holder = s => metadata.status \in TerminalStatus
    BY <1>8 DEF FinalizerCleanup, Progress, TerminalStatus
  <2>2. /\ finalizer' = Unlocked
        /\ \/ pc' = pc /\ finalizer.holder # s
           \/ finalizer.holder = s /\ pc' = [pc EXCEPT ![s] = "finalized"]
    BY <1>8 DEF FinalizerCleanup, HolderGoes
  <2>3. \A c \in Containers :
           /\ container'[c] = container[c] \/ container'[c] = "removed"
           /\ finalizer.holder = s => container[c] \notin {"creating", "running"}
    BY <1>8 DEF FinalizerCleanup, RemoveRecorded
  <2> QED BY <1>8, <2>1, <2>2, <2>3 DEF FinalizerCleanup, Unlocked
<1>9. CASE ReconcilerCrash
  BY <1>9 DEF ReconcilerCrash, Unlocked
<1> QED BY <1>1, <1>2, <1>3, <1>4, <1>5, <1>6, <1>7, <1>8, <1>9 DEF FinalizerStep
\* Up to training, the supervisor's own writes are the only ones.
LEMMA PretrainingLife ==
  ASSUME Inv, LaunchedOnce, NEW s \in Supervisors, Life(s),
         \/ AwaitRegistration(s) \/ ReadStatus(s) \/ MarkSmoke(s) \/ SmokeRead(s)
         \/ SmokePass(s) \/ SmokeFail(s) \/ SubmitEvent(s) \/ MarkTraining(s)
         \/ TrainCheck(s) \/ OperationRaises(s) \/ WriteTraining(s)
  PROVE  Life(s)'
<1> USE NobodyIsNoName, RolesAreDisjoint DEF Inv, TypeOK, Life, MetadataFollows, LedgerFollows, FinalizerFollows,
        RecordFollows, OutputsFollow, HolderWaits, CallerFirst, Killed, LaunchedOnce, Goto, ledgerVars, dockerVars, supVars
<1> USE DEF TrainingPart
<1>0. pc[s] # "dead"
  BY SupervisorFrame DEF SupervisorStep
<1>14. metadata.status \notin EventStatus =>
        events = <<>> /\ finalizer.pc \notin {"ensure", "cleanup"}
           /\ (finalizer.pc = "write" => finalizer.plan # metadata)
  BY <1>0 DEF Progress
<1>1. UNCHANGED <<finalizer, launcher, caller>> /\ finalizer.holder # s
  BY SupervisorFrame DEF SupervisorStep
<1>2. ASSUME NEW state \in RecordStates, record' = [record EXCEPT !.state = state, !.pid = s]
      PROVE  record'.pid = s
  BY <1>2 DEF ExecutionRecord
<1>3. CASE AwaitRegistration(s)
  BY <1>1, <1>3 DEF AwaitRegistration
<1>4. CASE ReadStatus(s)
  BY <1>1, <1>4 DEF ReadStatus
<1>5. CASE MarkSmoke(s)
  <2>1. record'.pid = s
    BY <1>2, <1>5 DEF MarkSmoke, MarkPhase, RecordStates, ActiveRecordStates
  <2> QED BY <1>1, <1>5, <2>1 DEF MarkSmoke, MarkPhase
<1>6. CASE SmokeRead(s)
  BY <1>1, <1>6 DEF SmokeRead
<1>7. CASE SmokePass(s)
  BY <1>14, <1>1, <1>7 DEF SmokePass, Plain, EventStatus
<1>8. CASE SmokeFail(s)
  BY <1>14, <1>1, <1>8 DEF SmokeFail, EventStatus, TerminalStatus
<1>9. CASE SubmitEvent(s)
  BY <1>1, <1>9 DEF SubmitEvent
<1>10. CASE MarkTraining(s)
  <2>1. record'.pid = s
    BY <1>2, <1>10 DEF MarkTraining, MarkPhase, RecordStates, ActiveRecordStates
  <2> QED BY <1>1, <1>10, <2>1 DEF MarkTraining, MarkPhase
<1>11. CASE TrainCheck(s)
  BY <1>1, <1>11 DEF TrainCheck
<1>12. CASE OperationRaises(s)
  BY <1>1, <1>12 DEF OperationRaises
<1>13. CASE WriteTraining(s)
  BY <1>14, <1>1, <1>13 DEF WriteTraining, Plain, EventStatus
<1> QED BY <1>3, <1>4, <1>5, <1>6, <1>7, <1>8, <1>9, <1>10, <1>11, <1>12, <1>13

\* What _record_container_state and a plain state update leave of the record.
LEMMA RecordKeepsPid ==
  ASSUME record \in ExecutionRecord, NEW state,
         \/ record' = [record EXCEPT !.state = state]
         \/ \E c, activeState :
              record' = [record EXCEPT !.state = state, !.active = c,
                                       !.activeState = activeState, !.containers = @ \cup {c}]
  PROVE  record'.pid = record.pid
  BY DEF ExecutionRecord

\* The attempts write no metadata, and none of their containers runs on.
LEMMA AttemptLife ==
  ASSUME Inv, LaunchedOnce, NEW s \in Supervisors, Life(s),
         \/ RecordStarting(s) \/ BootstrapFails(s) \/ DockerRun(s) \/ TrainingSucceeds(s)
         \/ TrainingFails(s) \/ RetryTraining(s) \/ ForcedTimeout(s)
  PROVE  Life(s)'
<1> USE NobodyIsNoName, RolesAreDisjoint DEF Inv, TypeOK, Life, MetadataFollows, LedgerFollows, FinalizerFollows,
        RecordFollows, OutputsFollow, HolderWaits, CallerFirst, Killed, LaunchedOnce, Goto, ledgerVars, dockerVars, supVars
<1> USE DEF TrainingPart, Progress
<1>1. UNCHANGED <<finalizer, launcher, caller>> /\ finalizer.holder # s
  BY SupervisorFrame DEF SupervisorStep
<1>2. CASE RecordStarting(s)
  <2>1. record'.pid = record.pid
    <3>1. PICK c \in Containers :
            record' = [record EXCEPT !.state = "container_starting", !.active = c,
                                     !.activeState = "starting", !.containers = @ \cup {c}]
      BY <1>2 DEF RecordStarting
    <3> QED BY <3>1, RecordKeepsPid
  <2>2. /\ pc[s] = "attempt" /\ pc' = [pc EXCEPT ![s] = "dockerRun"]
        /\ UNCHANGED <<metadata, outcome, ledgerVars, dockerVars>>
    BY <1>2 DEF RecordStarting
  <2> QED BY <1>1, <2>1, <2>2
<1>3. CASE BootstrapFails(s)
  BY <1>1, <1>3 DEF BootstrapFails, Failed
<1>4. CASE DockerRun(s)
  BY <1>1, <1>4 DEF DockerRun
<1>5. ASSUME NEW suffix, RecordExit(s, suffix) PROVE record'.pid = record.pid
  BY <1>5, RecordKeepsPid DEF RecordExit
<1>6. CASE TrainingSucceeds(s)
  <2>1. record'.pid = record.pid
    BY <1>5, <1>6 DEF TrainingSucceeds
  <2>2. outcome'[s].status = "completed" => artifactsValid /\ outcome'[s] = Plain("completed")
    BY <1>6 DEF TrainingSucceeds, Failed
  <2> QED BY <1>1, <1>6, <2>1, <2>2 DEF TrainingSucceeds
<1>7. CASE TrainingFails(s)
  <2>1. record'.pid = record.pid
    BY <1>5, <1>7 DEF TrainingFails
  <2>2. outcome'[s].status = "failed"
    BY <1>7 DEF TrainingFails, Failed
  <2> QED BY <1>1, <1>7, <2>1, <2>2 DEF TrainingFails
<1>8. CASE RetryTraining(s)
  <2>1. record'.pid = record.pid
    BY <1>5, <1>8 DEF RetryTraining
  <2> QED BY <1>1, <1>8, <2>1 DEF RetryTraining
<1>9. CASE ForcedTimeout(s)
  <2>1. record'.pid = record.pid
    BY <1>5, <1>9 DEF ForcedTimeout
  <2>2. outcome'[s].status = "failed"
    BY <1>9 DEF ForcedTimeout, Failed
  <2>3. \A c \in Containers : container'[c] \notin {"creating", "running"}
    BY <1>9 DEF ForcedTimeout, KilledAtTimeout
  <2> QED BY <1>1, <1>9, <2>1, <2>2, <2>3 DEF ForcedTimeout, EventStatus
<1> QED BY <1>2, <1>3, <1>4, <1>6, <1>7, <1>8, <1>9

\* The end of a Run: the metadata, then the event, then the cleanup.
LEMMA EndLife ==
  ASSUME Inv, LaunchedOnce, NEW s \in Supervisors, Life(s),
         \/ WriteTerminal(s) \/ RecordEvent(s) \/ RecordEventConflict(s) \/ SupervisorCleanup(s)
         \/ MarkSupervisorFailed(s) \/ MarkFinalized(s)
  PROVE  Life(s)'
<1> USE NobodyIsNoName, RolesAreDisjoint DEF Inv, TypeOK, Life, MetadataFollows, LedgerFollows, FinalizerFollows,
        RecordFollows, OutputsFollow, HolderWaits, CallerFirst, Killed, LaunchedOnce, Goto, ledgerVars, dockerVars, supVars
<1> USE DEF TrainingPart, Progress
<1>1. UNCHANGED <<finalizer, launcher, caller>> /\ finalizer.holder # s
  BY SupervisorFrame DEF SupervisorStep
<1>2. CASE WriteTerminal(s)
  BY <1>1, <1>2 DEF WriteTerminal, EventStatus
<1>3. CASE RecordEvent(s)
  <2>1. events' = <<metadata>> /\ metadata = outcome[s]
    BY <1>3 DEF RecordEvent, AppendTerminal
  <2> QED BY <1>1, <1>3, <2>1 DEF RecordEvent
<1>4. CASE RecordEventConflict(s)
  <2>1. metadata = outcome[s] /\ Conflicts(metadata.status)
    BY <1>4 DEF RecordEventConflict
  <2>2. events = <<metadata>>
    BY <1>4, <2>1 DEF RecordEventConflict, Conflicts
  <2>3. Len(<<metadata>>) = 1 /\ <<metadata>>[1] = metadata
    OBVIOUS
  <2> QED BY <2>1, <2>2, <2>3 DEF Conflicts
<1>5. CASE SupervisorCleanup(s)
  <2>1. \A c \in Containers : container'[c] = container[c] \/ container'[c] = "removed"
    BY <1>5 DEF SupervisorCleanup, RemoveRecorded
  <2> QED BY <1>1, <1>5, <2>1 DEF SupervisorCleanup
<1>6. CASE MarkSupervisorFailed(s)
  <2>1. record'.pid = record.pid
    BY <1>6, RecordKeepsPid DEF MarkSupervisorFailed, MarkState
  <2> QED BY <1>1, <1>6, <2>1 DEF MarkSupervisorFailed, MarkState
<1>7. CASE MarkFinalized(s)
  <2>1. record'.pid = record.pid
    BY <1>7, RecordKeepsPid DEF MarkFinalized, MarkState
  <2> QED BY <1>1, <1>7, <2>1 DEF MarkFinalized, MarkState
<1> QED BY <1>2, <1>3, <1>4, <1>5, <1>6, <1>7

\* A caller that smokes the Run does so before a supervisor exists.
LEMMA CallerLife ==
  ASSUME Inv, LaunchedOnce, NEW s \in Supervisors, Life(s), CallerStep \/ CallerCrash
  PROVE  Life(s)'
<1> USE NobodyIsNoName, RolesAreDisjoint DEF Inv, TypeOK, Life, MetadataFollows, LedgerFollows, FinalizerFollows,
        RecordFollows, OutputsFollow, HolderWaits, CallerFirst, Killed, LaunchedOnce, Goto,
        ledgerVars, dockerVars, supVars
<1>1. caller # "off"
  BY DEF CallerStep, CallerSmokePass, CallerSmokeFail, CallerSubmitEvent, CallerCrash
<1>2. /\ pc[s] = "unborn" /\ launcher.pc = "idle" /\ record.pid = Nobody
      /\ metadata.status \notin EventStatus
  BY <1>1 DEF EventStatus
<1>3. events = <<>> /\ finalizer.pc = "idle"
  BY <1>2 DEF Progress, Finalizer
<1>4. CASE CallerSmokePass
  BY <1>2, <1>3, <1>4 DEF CallerSmokePass, Plain
<1>5. CASE CallerSmokeFail
  BY <1>2, <1>3, <1>5 DEF CallerSmokeFail
<1>6. CASE CallerSubmitEvent
  BY <1>2, <1>3, <1>6 DEF CallerSubmitEvent
<1>7. CASE CallerCrash
  BY <1>2, <1>3, <1>7 DEF CallerCrash
<1> QED BY <1>4, <1>5, <1>6, <1>7 DEF CallerStep

\* A killed supervisor releases the lock and leaves what it wrote.
LEMMA CrashLife ==
  ASSUME Inv, LaunchedOnce, NEW s \in Supervisors, Life(s), SupervisorCrash(s)
  PROVE  Life(s)'
<1> USE NobodyIsNoName, RolesAreDisjoint DEF Inv, TypeOK, Life, MetadataFollows, LedgerFollows, FinalizerFollows,
        RecordFollows, OutputsFollow, HolderWaits, CallerFirst, Killed, LaunchedOnce, Goto,
        ledgerVars, dockerVars, supVars
<1>1. /\ Mortal /\ pc[s] \notin {"unborn", "dead"}
      /\ pc' = [pc EXCEPT ![s] = "dead"]
      /\ finalizer' = IF finalizer.holder = s THEN Unlocked ELSE finalizer
      /\ UNCHANGED <<metadata, record, launcher, caller, work, outcome, trained>>
      /\ UNCHANGED <<ledgerVars, dockerVars>>
  BY DEF SupervisorCrash, MayCrash, Mortal, Alive
<1>2. /\ Killed(s)' 
      /\ caller = "off"
  BY <1>1 DEF Mortal
<1>3. CASE finalizer.holder = s
  BY <1>1, <1>2, <1>3 DEF Unlocked
<1>4. CASE finalizer.holder # s
  BY <1>1, <1>2, <1>4
<1> QED BY <1>3, <1>4

\* Every step keeps the metadata, the ledger event and the outputs together.
LEMMA LifeStep ==
  ASSUME Inv, LaunchedOnce, NEW s \in Supervisors, Life(s), Next
  PROVE  Life(s)'
<1>1. ASSUME NEW t \in Supervisors, SupervisorStep(t) PROVE Life(s)'
  <2>1. t = s
    BY DEF LaunchedOnce
  <2> QED BY <1>1, <2>1, PretrainingLife, AttemptLife, EndLife DEF SupervisorStep
<1>2. ASSUME NEW t \in Supervisors, BeginFail(t) PROVE Life(s)'
  <2>1. /\ t = s /\ pc[s] = "fail" /\ finalizer.pc = "idle" /\ finalizer.holder = Nobody
        /\ metadata.status \in {"smoke_testing", "accepted"}
    BY <1>2, NobodyIsNoName DEF LaunchedOnce, BeginFail, Life, MetadataFollows, HolderWaits
  <2>2. /\ finalizer' = [holder |-> s, pc |-> "write", plan |-> Failed("harness_failure")]
        /\ UNCHANGED <<metadata, record, launcher, caller, pc, work, outcome>>
        /\ UNCHANGED <<ledgerVars, dockerVars>>
    BY <1>2, <2>1 DEF BeginFail, TerminalStatus, EventStatus
  <2> QED BY <2>1, <2>2, NobodyIsNoName, RolesAreDisjoint
          DEF Life, MetadataFollows, LedgerFollows, FinalizerFollows, RecordFollows,
              OutputsFollow, CallerFirst, Killed, HolderWaits, Failed, ledgerVars, dockerVars
<1>3. ASSUME NEW t \in Supervisors, SupervisorCrash(t) PROVE Life(s)'
  <2>1. t = s
    BY DEF LaunchedOnce
  <2> QED BY <1>3, <2>1, CrashLife
<1>4. ASSUME NEW t \in Supervisors, SupervisorErrs(t) PROVE FALSE
  BY <1>4 DEF SupervisorErrs, MayCrash, LaunchedOnce
<1> QED BY <1>1, <1>2, <1>3, <1>4, LaunchLife, DockerLife, FinalizerLife, CallerLife DEF Next, Crash

LEMMA LifeInvariant ==
  ASSUME LaunchedOnce, NEW s \in Supervisors
  PROVE  Spec => []Life(s)
<1>1. Inv /\ Life(s) /\ [Next]_vars => Life(s)'
  <2> SUFFICES ASSUME Inv, Life(s), [Next]_vars PROVE Life(s)'
    OBVIOUS
  <2>1. CASE UNCHANGED vars
    BY <2>1 DEF Life, MetadataFollows, LedgerFollows, FinalizerFollows, RecordFollows,
                OutputsFollow, CallerFirst, Killed, HolderWaits, vars
  <2> QED BY <2>1, LifeStep
<1>2. Init => Life(s)
  BY InitLife
<1> QED BY <1>1, <1>2, Invariance, PTL DEF Spec

\* The writers of run_metadata.json.
LEMMA MetadataWriters ==
  ASSUME Next, metadata' # metadata
  PROVE  \/ \E s \in Supervisors :
              SmokePass(s) \/ SmokeFail(s) \/ WriteTraining(s) \/ WriteTerminal(s)
         \/ UpdateTerminalMetadata
         \/ CallerSmokePass \/ CallerSmokeFail
<1> USE DEF ledgerVars, dockerVars, supVars
<1>1. CASE Launch \/ LauncherCrash
  BY <1>1 DEF Launch, LauncherCheck, LauncherRefuses, LauncherSpawn, LauncherRegister,
              LauncherCrash
<1>2. ASSUME NEW c \in Containers, Docker(c) PROVE FALSE
  BY <1>2 DEF Docker, ContainerCreated, ContainerRefused, ContainerExits
<1>3. CASE CallerStep \/ CallerCrash
  BY <1>3 DEF CallerStep, CallerSmokePass, CallerSmokeFail, CallerSubmitEvent, CallerCrash
<1>4. CASE FinalizerStep \/ ReconcilerCrash \/ \E a \in Reconcilers \cup Supervisors : BeginReconcile(a)
  BY <1>4 DEF ReconcilerCrash, BeginReconcile, FinalizerStep, ReconcileDecides,
              ReconcileFailed, ReconcileReturns, EnsureTerminalEvent,
              EnsureTerminalEventConflict, FinalizerCleanup
<1>5. ASSUME NEW s \in Supervisors,
             SupervisorStep(s) \/ BeginFail(s) \/ SupervisorCrash(s) \/ SupervisorErrs(s)
      PROVE  SmokePass(s) \/ SmokeFail(s) \/ WriteTraining(s) \/ WriteTerminal(s)
  BY <1>5 DEF SupervisorStep, AwaitRegistration, ReadStatus, MarkSmoke, MarkPhase,
         SmokeRead, SubmitEvent, MarkTraining, TrainCheck,
         OperationRaises, RecordStarting, BootstrapFails, DockerRun,
         TrainingSucceeds, TrainingFails, RetryTraining, ForcedTimeout,
         RecordEvent, RecordEventConflict, SupervisorCleanup,
         MarkSupervisorFailed, MarkFinalized, MarkState, BeginFail, SupervisorCrash, SupervisorErrs
<1> QED BY <1>1, <1>2, <1>3, <1>4, <1>5 DEF Next, Crash

\* The ledger is written by compare-before-append only.
LEMMA OnlyAppendersWrite ==
  ASSUME Next, events' # events
  PROVE  EnsureTerminalEvent \/ \E s \in Supervisors : RecordEvent(s)
<1> USE DEF ledgerVars, dockerVars, supVars
<1>1. CASE Launch \/ LauncherCrash
  BY <1>1 DEF Launch, LauncherCheck, LauncherRefuses, LauncherSpawn, LauncherRegister,
              LauncherCrash
<1>2. ASSUME NEW c \in Containers, Docker(c) PROVE FALSE
  BY <1>2 DEF Docker, ContainerCreated, ContainerRefused, ContainerExits
<1>3. CASE CallerStep \/ CallerCrash
  BY <1>3 DEF CallerStep, CallerSmokePass, CallerSmokeFail, CallerSubmitEvent, CallerCrash
<1>4. CASE FinalizerStep \/ ReconcilerCrash \/ \E a \in Reconcilers \cup Supervisors : BeginReconcile(a)
  BY <1>4 DEF ReconcilerCrash, BeginReconcile, FinalizerStep, ReconcileDecides,
              ReconcileFailed, ReconcileReturns, UpdateTerminalMetadata,
              EnsureTerminalEventConflict, FinalizerCleanup
<1>5. ASSUME NEW s \in Supervisors,
             SupervisorStep(s) \/ BeginFail(s) \/ SupervisorCrash(s) \/ SupervisorErrs(s)
      PROVE  RecordEvent(s)
  BY <1>5 DEF SupervisorStep, AwaitRegistration, ReadStatus, MarkSmoke, MarkPhase,
         SmokeRead, SmokePass, SmokeFail, SubmitEvent, MarkTraining, TrainCheck,
         OperationRaises, WriteTraining, RecordStarting, BootstrapFails, DockerRun,
         TrainingSucceeds, TrainingFails, RetryTraining, ForcedTimeout, KilledAtTimeout,
         WriteTerminal, RecordEventConflict, SupervisorCleanup,
         MarkSupervisorFailed, MarkFinalized, MarkState, BeginFail, SupervisorCrash, SupervisorErrs
<1> QED BY <1>1, <1>2, <1>3, <1>4, <1>5 DEF Next, Crash

\* What a step appends is the metadata it finds.
LEMMA AppendedIsMetadata ==
  ASSUME Inv, LaunchedOnce, NEW s \in Supervisors, Life(s), Next, events' # events
  PROVE  events' = <<metadata>>
<1>1. CASE EnsureTerminalEvent
  BY <1>1 DEF EnsureTerminalEvent, AppendTerminal, Life, FinalizerFollows
<1>2. ASSUME NEW t \in Supervisors, RecordEvent(t) PROVE events' = <<metadata>>
  BY <1>2 DEF RecordEvent, AppendTerminal, Life, MetadataFollows, LaunchedOnce
<1> QED BY <1>1, <1>2, OnlyAppendersWrite

\* The ledger's terminal event and terminal metadata agree, classification
\* included, in a Run that is launched once and whose supervisor is not killed,
\* whichever launcher, caller or reconciler dies.
THEOREM MetadataAgrees ==
  ASSUME Undisturbed, NEW s \in Supervisors
  PROVE  Spec => []TerminalStateAgrees
<1>1. Life(s) => TerminalStateAgrees
  BY DEF Undisturbed, Killed, Life, LedgerFollows, TerminalStateAgrees
<1> QED BY <1>1, LifeInvariant, PTL DEF Undisturbed

\* Completed means validated outputs: nothing changes them after the supervisor
\* or a reconciler has looked at them, as long as the supervisor is not killed.
THEOREM CompletedMeansValid ==
  ASSUME Undisturbed, NEW s \in Supervisors
  PROVE  Spec => []CompletedIsValidated
<1>1. Life(s) => CompletedIsValidated
  BY DEF Undisturbed, Killed, Life, OutputsFollow, CompletedIsValidated
<1> QED BY <1>1, LifeInvariant, PTL DEF Undisturbed

\* Whoever appends the terminal event, supervisor or reconciler, and whatever
\* process is killed, the metadata already shows its outcome, in a Run that is
\* launched once.
THEOREM MetadataFirst ==
  ASSUME LaunchedOnce, NEW s \in Supervisors
  PROVE  Spec => EventFollowsMetadata
<1>1. Inv /\ Life(s) /\ [Next]_vars =>
        [events' # events => metadata.status = events'[Len(events')].status]_vars
  <2> SUFFICES ASSUME Inv, Life(s), Next, events' # events
               PROVE  metadata.status = events'[Len(events')].status
    OBVIOUS
  <2>1. events' = <<metadata>>
    BY AppendedIsMetadata
  <2> QED BY <2>1
<1> QED BY <1>1, LifeInvariant, Invariance, PTL DEF Spec, EventFollowsMetadata

\* An ended Run stays ended, whatever process is killed: a reconciler that
\* decided from an old reading writes another end at most.
THEOREM EndedStaysEnded ==
  ASSUME LaunchedOnce, NEW s \in Supervisors
  PROVE  Spec => TerminalIsFinal
<1>1. Inv /\ Life(s) /\ [Next]_vars =>
        [metadata.status \in TerminalStatus => metadata'.status \in TerminalStatus]_vars
  <2> SUFFICES ASSUME Inv, Life(s), Next, metadata.status \in TerminalStatus
               PROVE  metadata'.status \in TerminalStatus
    OBVIOUS
  <2>1. metadata.status \notin {"smoke_testing", "accepted", "training"}
    BY DEF TerminalStatus, EventStatus
  <2>2. ASSUME NEW t \in Supervisors, SmokePass(t) \/ SmokeFail(t) \/ WriteTraining(t) \/ WriteTerminal(t)
        PROVE  FALSE
    BY <2>1, <2>2 DEF LaunchedOnce, Life, MetadataFollows, SmokePass, SmokeFail, WriteTraining, WriteTerminal
  <2>3. CASE UpdateTerminalMetadata
    BY <2>3 DEF UpdateTerminalMetadata, Inv, Progress, TerminalStatus
  <2>4. CASE UNCHANGED metadata
    BY <2>4
  <2>5. ~CallerSmokePass /\ ~CallerSmokeFail
    BY <2>1 DEF Life, CallerFirst, CallerSmokePass, CallerSmokeFail
  <2> QED BY <2>2, <2>3, <2>4, <2>5, MetadataWriters
<1> QED BY <1>1, LifeInvariant, Invariance, PTL DEF Spec, TerminalIsFinal

-----------------------------------------------------------------------------
(* What readers of the ledger see of one Run *)

\* The outcome that the ledger gives for the Run.
Announced1 ==
  IF events = <<>> THEN "none"
  ELSE IF events[1].status = "completed" THEN "run_completed" ELSE "run_failed"

\* The one-shot announcement for this one Run.
Once == INSTANCE TerminalOnce WITH Runs <- {"run"}, announced <- [r \in {"run"} |-> Announced1]

\* A step of the Run announces its outcome, once, or leaves the ledger alone.
LEMMA OnceStep ==
  ASSUME Inv, [Next]_vars
  PROVE  [Once!Next]_([r \in {"run"} |-> Announced1])
<1>1. CASE UNCHANGED events
  BY <1>1 DEF Announced1
<1>2. ASSUME events' # events, Next PROVE Once!Next
  <2>1. PICK event \in TerminalEvent : AppendTerminal(event)
    <3>1. CASE EnsureTerminalEvent
      BY <3>1 DEF EnsureTerminalEvent, Inv, TypeOK, Progress, Finalizer, Metadata, TerminalEvent
    <3>2. ASSUME NEW s \in Supervisors, RecordEvent(s)
          PROVE  \E event \in TerminalEvent : AppendTerminal(event)
      BY <3>2 DEF RecordEvent, Inv, TypeOK, Progress, Metadata, TerminalEvent
    <3> QED BY <1>2, <3>1, <3>2, OnlyAppendersWrite
  <2>2. events = <<>> /\ events' = <<event>>
    BY <1>2, <2>1 DEF AppendTerminal
  <2>3. events' # <<>> /\ events'[1] = event
    BY <2>2
  <2> DEFINE outcome1 == IF event.status = "completed" THEN "run_completed" ELSE "run_failed"
  <2>4. Announced1 = "none" /\ Announced1' = outcome1
    BY <2>2, <2>3 DEF Announced1
  <2>5. Once!Announce("run", outcome1)
    BY <2>4 DEF Once!Announce
  <2> QED BY <2>5 DEF Once!Next, Once!TerminalEvent
<1> QED BY <1>1, <1>2 DEF vars

\* One Run's part of the ledger implements the one-shot announcement, whichever
\* processes terminalise the Run, disagree about its outcome or are killed: the
\* compare-before-append that RunLifecycle takes as one step keeps the promise
\* that TerminalLedger proves of its parts.
THEOREM RunImplementsTerminalOnce == Spec => Once!Spec
<1>1. Init => Once!Init
  BY DEF Init, Once!Init, Announced1
<1>2. Inv /\ [Next]_vars => [Once!Next]_([r \in {"run"} |-> Announced1])
  BY OnceStep
<1> QED BY <1>1, <1>2, Invariance, PTL DEF Spec, Once!Spec

-----------------------------------------------------------------------------
(* Containers: their names are recorded before they exist and used once *)

\* Cleanup removes what execution.json names: the daemon knows no other
\* container of the Run (_record_container_state comes before docker run).
ContainersAreRecorded ==
  \A c \in Containers : container[c] # "none" => c \in record.containers

Driving(s) == pc[s] \in {"dockerRun", "wait"}

\* The name that docker run is given is unused, and a supervisor that waits
\* waits for a container of its own that the daemon was asked for.
NamesAreFresh ==
  \A s \in Supervisors :
    /\ Driving(s) => work[s] \in record.containers
    /\ pc[s] = "dockerRun" => container[work[s]] = "none"
    /\ pc[s] = "wait" => container[work[s]] # "none"
    /\ \A t \in Supervisors : Driving(s) /\ Driving(t) /\ work[s] = work[t] => s = t

Named == ContainersAreRecorded /\ NamesAreFresh

\* Whatever is done to execution.json, the names in it stay.
LEMMA RecordKeepsNames ==
  ASSUME record \in ExecutionRecord, NEW state, NEW c, NEW d, NEW activeState,
         \/ record' = [record EXCEPT !.state = state]
         \/ record' = [record EXCEPT !.state = state, !.pid = c]
         \/ record' = [record EXCEPT !.state = state, !.active = c, !.activeState = activeState,
                                     !.containers = @ \cup {d}] 
  PROVE  /\ record.containers \subseteq record'.containers
         /\ record'.containers \subseteq record.containers \cup {d}
  BY DEF ExecutionRecord

\* Most steps leave the containers alone and start no attempt.
LEMMA NamedFrame ==
  ASSUME TypeOK, Named, UNCHANGED <<container, work>>,
         record.containers \subseteq record'.containers,
         \A s \in Supervisors : pc'[s] \in {"dockerRun", "wait"} => pc'[s] = pc[s]
  PROVE  Named'
  BY DEF Named, ContainersAreRecorded, NamesAreFresh, Driving, TypeOK

\* The daemon and the cleanups change the state of containers that it knows.
LEMMA NamedDaemon ==
  ASSUME TypeOK, Named, UNCHANGED work,
         record.containers \subseteq record'.containers,
         \A c \in Containers : container[c] = "none" <=> container'[c] = "none",
         \A s \in Supervisors : pc'[s] \in {"dockerRun", "wait"} => pc'[s] = pc[s],
         \A s \in Supervisors : Driving(s) => work[s] \in Containers
  PROVE  Named'
  BY DEF Named, ContainersAreRecorded, NamesAreFresh, Driving, TypeOK

\* An attempt takes a name that is not recorded and records it.
LEMMA StartingNamed ==
  ASSUME Inv, Named, NEW s \in Supervisors, RecordStarting(s)
  PROVE  Named'
<1>1. PICK c \in Containers :
        /\ container[c] = "none" /\ c \notin record.containers
        /\ record' = [record EXCEPT !.state = "container_starting", !.active = c,
                                    !.activeState = "starting", !.containers = @ \cup {c}]
        /\ work' = [work EXCEPT ![s] = c]
  BY DEF RecordStarting
<1>2. record'.containers = record.containers \cup {c}
  BY <1>1 DEF Inv, TypeOK, ExecutionRecord
<1>3. /\ UNCHANGED container
      /\ pc[s] = "attempt" /\ pc' = [pc EXCEPT ![s] = "dockerRun"]
  BY DEF RecordStarting, Goto, dockerVars
<1>4. /\ work'[s] = c /\ pc'[s] = "dockerRun" /\ container'[c] = "none"
      /\ \A t \in Supervisors \ {s} : work'[t] = work[t] /\ pc'[t] = pc[t]
  BY <1>1, <1>3 DEF Inv, TypeOK
<1>5. \A t \in Supervisors \ {s} : Driving(t) => work[t] # c
  BY <1>1 DEF Named, NamesAreFresh
<1>6. ContainersAreRecorded'
  BY <1>2, <1>3 DEF Named, ContainersAreRecorded
<1>7. ASSUME NEW t \in Supervisors
      PROVE  /\ Driving(t)' => work'[t] \in record'.containers
             /\ pc'[t] = "dockerRun" => container'[work'[t]] = "none"
             /\ pc'[t] = "wait" => container'[work'[t]] # "none"
  <2>1. CASE t = s
    BY <1>2, <1>4, <2>1
  <2>2. CASE t # s
    BY <1>2, <1>3, <1>4, <2>2 DEF Named, NamesAreFresh, Driving
  <2> QED BY <2>1, <2>2
<1>8. ASSUME NEW t \in Supervisors, NEW u \in Supervisors,
             Driving(t)', Driving(u)', work'[t] = work'[u]
      PROVE  t = u
  BY <1>4, <1>5, <1>8 DEF Named, NamesAreFresh, Driving
<1> QED BY <1>6, <1>7, <1>8 DEF Named, NamesAreFresh

\* docker run makes its own name known, and no other attempt's.
LEMMA RunNamed ==
  ASSUME Inv, Named, NEW s \in Supervisors, DockerRun(s)
  PROVE  Named'
<1>1. /\ pc[s] = "dockerRun" /\ pc' = [pc EXCEPT ![s] = "wait"]
      /\ container' = [container EXCEPT ![work[s]] = "creating"]
      /\ UNCHANGED <<record, work>>
      /\ work[s] \in Containers
  BY DEF DockerRun, Goto, Inv, Progress
<1>2. \A t \in Supervisors \ {s} : Driving(t) => work[t] # work[s]
  BY <1>1 DEF Named, NamesAreFresh, Driving
<1>3. \A t \in Supervisors : Driving(t) => work[t] \in Containers
  BY DEF Driving, Inv, Progress
<1> QED BY <1>1, <1>2, <1>3 DEF Named, ContainersAreRecorded, NamesAreFresh, Driving, Inv, TypeOK

\* Every other step of a supervisor leaves its names as they are.
LEMMA SupervisorNamed ==
  ASSUME Inv, Named, NEW s \in Supervisors,
         SupervisorStep(s) \/ BeginFail(s) \/ SupervisorCrash(s) \/ SupervisorErrs(s)
  PROVE  Named'
<1> USE DEF Inv, TypeOK, Goto, ledgerVars, dockerVars, supVars
<1>1. CASE RecordStarting(s) \/ DockerRun(s)
  BY <1>1, StartingNamed, RunNamed
<1>2. CASE \/ AwaitRegistration(s) \/ ReadStatus(s) \/ SmokeRead(s) \/ SmokePass(s)
           \/ SmokeFail(s) \/ SubmitEvent(s) \/ TrainCheck(s) \/ OperationRaises(s)
           \/ WriteTraining(s) \/ BootstrapFails(s)
  <2>1. /\ UNCHANGED <<container, work, record>>
        /\ \A t \in Supervisors : pc'[t] \in {"dockerRun", "wait"} => pc'[t] = pc[t]
    BY <1>2 DEF AwaitRegistration, ReadStatus, SmokeRead, SmokePass, SmokeFail, SubmitEvent,
                TrainCheck, OperationRaises, WriteTraining, BootstrapFails
  <2> QED BY <2>1, NamedFrame
<1>3. CASE \/ WriteTerminal(s) \/ RecordEvent(s) \/ RecordEventConflict(s)
           \/ BeginFail(s) \/ SupervisorCrash(s)
  <2>1. /\ UNCHANGED <<container, work, record>>
        /\ \A t \in Supervisors : pc'[t] \in {"dockerRun", "wait"} => pc'[t] = pc[t]
    BY <1>3 DEF WriteTerminal, RecordEvent, RecordEventConflict, BeginFail, SupervisorCrash
  <2> QED BY <2>1, NamedFrame
<1>4. CASE MarkSmoke(s) \/ MarkTraining(s) \/ MarkSupervisorFailed(s) \/ MarkFinalized(s)
  <2>1. /\ UNCHANGED <<container, work>>
        /\ \A t \in Supervisors : pc'[t] \in {"dockerRun", "wait"} => pc'[t] = pc[t]
    BY <1>4 DEF MarkSmoke, MarkTraining, MarkPhase, MarkSupervisorFailed, MarkFinalized, MarkState
  <2>2. record.containers \subseteq record'.containers
    BY <1>4, RecordKeepsNames
       DEF MarkSmoke, MarkTraining, MarkPhase, MarkSupervisorFailed, MarkFinalized, MarkState
  <2> QED BY <2>1, <2>2, NamedFrame
<1>8. ASSUME NEW suffix, RecordExit(s, suffix)
      PROVE  record.containers \subseteq record'.containers
  BY <1>8, RecordKeepsNames DEF RecordExit
<1>5. CASE TrainingSucceeds(s) \/ TrainingFails(s) \/ RetryTraining(s)
  <2>1. /\ UNCHANGED <<container, work>>
        /\ \A t \in Supervisors : pc'[t] \in {"dockerRun", "wait"} => pc'[t] = pc[t]
    BY <1>5 DEF TrainingSucceeds, TrainingFails, RetryTraining
  <2>2. record.containers \subseteq record'.containers
    BY <1>5, <1>8 DEF TrainingSucceeds, TrainingFails, RetryTraining
  <2> QED BY <2>1, <2>2, NamedFrame
<1>6. CASE ForcedTimeout(s)
  <2>1. /\ UNCHANGED work
        /\ \A t \in Supervisors : pc'[t] \in {"dockerRun", "wait"} => pc'[t] = pc[t]
        /\ \A c \in Containers : container[c] = "none" <=> container'[c] = "none"
    BY <1>6 DEF ForcedTimeout, KilledAtTimeout
  <2>2. record.containers \subseteq record'.containers
    BY <1>6, <1>8 DEF ForcedTimeout
  <2> QED BY <2>1, <2>2, NamedDaemon DEF Driving, Progress
<1>7. CASE SupervisorCleanup(s)
  <2>1. /\ UNCHANGED <<work, record>>
        /\ \A t \in Supervisors : pc'[t] \in {"dockerRun", "wait"} => pc'[t] = pc[t]
        /\ \A c \in Containers : container[c] = "none" <=> container'[c] = "none"
    BY <1>7 DEF SupervisorCleanup, RemoveRecorded
  <2> QED BY <2>1, NamedDaemon DEF Driving, Progress
<1>9. CASE SupervisorErrs(s)
  <2>1. /\ UNCHANGED <<container, work>>
        /\ \A t \in Supervisors : pc'[t] \in {"dockerRun", "wait"} => pc'[t] = pc[t]
    BY <1>9 DEF SupervisorErrs
  <2>2. record.containers \subseteq record'.containers
    BY <1>9, <1>8 DEF SupervisorErrs
  <2> QED BY <2>1, <2>2, NamedFrame
<1> QED BY <1>1, <1>2, <1>3, <1>4, <1>5, <1>6, <1>7, <1>9 DEF SupervisorStep

\* Nobody else starts a container or forgets its name.
LEMMA OthersNamed ==
  ASSUME Inv, Named,
         \/ Launch \/ LauncherCrash \/ CallerStep \/ CallerCrash \/ FinalizerStep \/ ReconcilerCrash
         \/ \E a \in Reconcilers \cup Supervisors : BeginReconcile(a)
         \/ \E c \in Containers : Docker(c)
  PROVE  Named'
<1> USE DEF Inv, TypeOK, Goto, ledgerVars, dockerVars, supVars
<1>1. CASE Launch
  <2>1. /\ UNCHANGED <<container, work>>
        /\ \A t \in Supervisors : pc'[t] \in {"dockerRun", "wait"} => pc'[t] = pc[t]
    BY <1>1 DEF Launch, LauncherCheck, LauncherRefuses, LauncherSpawn, LauncherRegister
  <2>2. record.containers \subseteq record'.containers
    <3>1. CASE LauncherRegister
      BY <3>1, RecordKeepsNames DEF LauncherRegister
    <3>2. CASE LauncherCheck \/ LauncherRefuses \/ LauncherSpawn
      BY <3>2 DEF LauncherCheck, LauncherRefuses, LauncherSpawn
    <3> QED BY <1>1, <3>1, <3>2 DEF Launch
  <2> QED BY <2>1, <2>2, NamedFrame
<1>2. CASE LauncherCrash \/ CallerStep \/ CallerCrash
  BY <1>2, NamedFrame DEF LauncherCrash, CallerStep, CallerSmokePass, CallerSmokeFail,
                          CallerSubmitEvent, CallerCrash
<1>3. CASE ReconcilerCrash \/ \E a \in Reconcilers \cup Supervisors : BeginReconcile(a)
  BY <1>3, NamedFrame DEF ReconcilerCrash, BeginReconcile
<1>4. CASE FinalizerStep
  <2>1. CASE \/ ReconcileDecides \/ ReconcileFailed \/ ReconcileReturns \/ UpdateTerminalMetadata
             \/ EnsureTerminalEvent \/ EnsureTerminalEventConflict
    <3>1. /\ UNCHANGED <<container, work, record>>
          /\ \A t \in Supervisors : pc'[t] \in {"dockerRun", "wait"} => pc'[t] = pc[t]
      BY <2>1 DEF ReconcileDecides, ReconcileFailed, ReconcileReturns, UpdateTerminalMetadata,
                  EnsureTerminalEvent, EnsureTerminalEventConflict, HolderGoes
    <3> QED BY <3>1, NamedFrame
  <2>2. CASE FinalizerCleanup
    <3>1. /\ UNCHANGED <<work, record>>
          /\ \A t \in Supervisors : pc'[t] \in {"dockerRun", "wait"} => pc'[t] = pc[t]
          /\ \A c \in Containers : container[c] = "none" <=> container'[c] = "none"
      BY <2>2 DEF FinalizerCleanup, RemoveRecorded, HolderGoes
    <3> QED BY <3>1, NamedDaemon DEF Driving, Progress
  <2> QED BY <1>4, <2>1, <2>2 DEF FinalizerStep
<1>5. ASSUME NEW c \in Containers, Docker(c) PROVE Named'
  <2>1. /\ UNCHANGED <<work, record, pc>>
        /\ \A d \in Containers : container[d] = "none" <=> container'[d] = "none"
    BY <1>5 DEF Docker, ContainerCreated, ContainerRefused, ContainerExits
  <2> QED BY <2>1, NamedDaemon DEF Driving, Progress
<1> QED BY <1>1, <1>2, <1>3, <1>4, <1>5

\* The names of the containers are an invariant of every step.
LEMMA NamesInvariant == Spec => []Named
<1>1. Init => Named
  BY DEF Init, Named, ContainersAreRecorded, NamesAreFresh, Driving
<1>2. Inv /\ Named /\ [Next]_vars => Named'
  <2> SUFFICES ASSUME Inv, Named, [Next]_vars PROVE Named'
    OBVIOUS
  <2>1. CASE UNCHANGED vars
    BY <2>1 DEF Named, ContainersAreRecorded, NamesAreFresh, Driving, vars
  <2>2. CASE Next
    BY <2>2, SupervisorNamed, OthersNamed DEF Next, Crash
  <2> QED BY <2>1, <2>2
<1> QED BY <1>1, <1>2, Invariance, PTL DEF Spec

\* Whatever dies and whoever relaunches, the daemon knows no container of the
\* Run that execution.json does not name, so none is out of a cleanup's reach.
THEOREM AllContainersRecorded == Spec => []ContainersAreRecorded
<1>1. Named => ContainersAreRecorded
  BY DEF Named
<1> QED BY <1>1, NamesInvariant, PTL

\* docker run never meets a name in use, and no two supervisors wait for one
\* container, even when two of them train the Run.
THEOREM AttemptsHaveOwnContainers == Spec => []NamesAreFresh
<1>1. Named => NamesAreFresh
  BY DEF Named
<1> QED BY <1>1, NamesInvariant, PTL

-----------------------------------------------------------------------------
(* What everyone who polls the status of a Run that is launched once sees *)

\* The promise, with a repair of the outcome only after a supervisor was killed.
Status == INSTANCE RunStatus WITH MayRevise <- Mortal, status <- metadata.status

Trained == {"training", "completed", "failed"}

\* A reconciler that read a trained Run, or takes it for completed, is right
\* that the Run has been trained.
PlanFollows ==
  /\ finalizer.pc = "observe" /\ finalizer.plan.status \in Trained => metadata.status \in Trained
  /\ finalizer.pc = "write" /\ finalizer.plan.status = "completed" => metadata.status \in Trained

\* What one step may write to the status.
LEMMA StatusStep ==
  ASSUME Inv, LaunchedOnce, NEW s \in Supervisors, Life(s), PlanFollows, Next, metadata' # metadata
  PROVE  \/ metadata.status = "smoke_testing" /\ metadata'.status \in {"accepted", "smoke_failed"}
         \/ metadata.status = "accepted" /\ metadata'.status = "training"
         \/ metadata.status = "training" /\ metadata'.status \in EventStatus
         \/ /\ metadata.status \in {"smoke_testing", "accepted", "smoke_failed"}
            /\ metadata'.status = "failed"
         \/ Mortal /\ metadata.status \in EventStatus /\ metadata'.status \in EventStatus
<1>1. ASSUME NEW t \in Supervisors, SmokePass(t) \/ SmokeFail(t)
      PROVE  metadata.status = "smoke_testing" /\ metadata'.status \in {"accepted", "smoke_failed"}
  BY <1>1 DEF SmokePass, SmokeFail, Plain, LaunchedOnce, Life, MetadataFollows
<1>2. ASSUME NEW t \in Supervisors, WriteTraining(t)
      PROVE  metadata.status = "accepted" /\ metadata'.status = "training"
  BY <1>2 DEF WriteTraining, Plain, LaunchedOnce, Life, MetadataFollows
<1>3. ASSUME NEW t \in Supervisors, WriteTerminal(t)
      PROVE  metadata.status = "training" /\ metadata'.status \in EventStatus
  BY <1>3 DEF WriteTerminal, LaunchedOnce, Life, MetadataFollows, Inv, Progress
<1>4. ASSUME CallerSmokePass \/ CallerSmokeFail
      PROVE  metadata.status = "smoke_testing" /\ metadata'.status \in {"accepted", "smoke_failed"}
  BY <1>4 DEF CallerSmokePass, CallerSmokeFail, Plain, Life, CallerFirst
<1>5. CASE UpdateTerminalMetadata
  <2>1. /\ finalizer.pc = "write" /\ metadata' = finalizer.plan
        /\ finalizer.plan.status \in EventStatus /\ finalizer.plan # metadata
    BY <1>5 DEF UpdateTerminalMetadata, Inv, Progress
  <2>2. metadata.status \in RunStatus
    BY DEF Inv, TypeOK, Metadata
  <2>3. CASE Killed(s)
    <3>1. CASE finalizer.plan.status = "completed"
      BY <2>1, <2>3, <3>1 DEF PlanFollows, Trained, Killed, EventStatus
    <3>2. CASE finalizer.plan.status = "failed"
      BY <2>1, <2>2, <2>3, <3>2 DEF RunStatus, EventStatus, Killed
    <3> QED BY <2>1, <3>1, <3>2 DEF EventStatus
  <2>4. CASE ~Killed(s)
    <3>1. /\ metadata.status \in {"smoke_testing", "accepted", "smoke_failed"}
          /\ finalizer.plan.status = "failed"
      BY <2>1, <2>4 DEF Life, FinalizerFollows
    <3> QED BY <2>1, <3>1
  <2> QED BY <2>3, <2>4
<1> QED BY <1>1, <1>2, <1>3, <1>4, <1>5, MetadataWriters

\* The steps that change what a reconciler knows of the metadata.
LEMMA PlanWriters ==
  ASSUME TypeOK, Next, finalizer' # finalizer
  PROVE  \/ finalizer'.pc \notin {"observe", "write"}
         \/ finalizer'.pc = "observe" /\ finalizer'.plan = metadata /\ UNCHANGED metadata
         \/ finalizer' = [holder |-> finalizer'.holder, pc |-> "write",
                          plan |-> Failed("harness_failure")]
         \/ ReconcileDecides
<1> USE DEF ledgerVars, dockerVars, supVars
<1>1. ASSUME Launch \/ LauncherCrash PROVE FALSE
  BY <1>1 DEF Launch, LauncherCheck, LauncherRefuses, LauncherSpawn, LauncherRegister,
              LauncherCrash
<1>2. ASSUME NEW c \in Containers, Docker(c) PROVE FALSE
  BY <1>2 DEF Docker, ContainerCreated, ContainerRefused, ContainerExits
<1>3. ASSUME CallerStep \/ CallerCrash PROVE FALSE
  BY <1>3 DEF CallerStep, CallerSmokePass, CallerSmokeFail, CallerSubmitEvent, CallerCrash
<1>4. ASSUME NEW s \in Supervisors, SupervisorStep(s) PROVE FALSE
  BY <1>4 DEF SupervisorStep, AwaitRegistration, ReadStatus, MarkSmoke, MarkPhase,
         SmokeRead, SmokePass, SmokeFail, SubmitEvent, MarkTraining, TrainCheck,
         OperationRaises, WriteTraining, RecordStarting, BootstrapFails, DockerRun,
         TrainingSucceeds, TrainingFails, RetryTraining, ForcedTimeout,
         WriteTerminal, RecordEvent, RecordEventConflict, SupervisorCleanup,
         MarkSupervisorFailed, MarkFinalized, MarkState
<1>5. CASE FinalizerStep /\ ~ReconcileDecides
  <2>1. CASE ReconcileFailed \/ UpdateTerminalMetadata \/ EnsureTerminalEvent
    <3>1. finalizer' = [finalizer EXCEPT !.pc = "ensure"] \/ finalizer' = [finalizer EXCEPT !.pc = "cleanup"]
      BY <2>1 DEF ReconcileFailed, UpdateTerminalMetadata, EnsureTerminalEvent
    <3> QED BY <3>1 DEF TypeOK, Finalizer
  <2>2. CASE ReconcileReturns \/ EnsureTerminalEventConflict \/ FinalizerCleanup
    BY <2>2 DEF ReconcileReturns, EnsureTerminalEventConflict, FinalizerCleanup, Unlocked
  <2> QED BY <1>5, <2>1, <2>2 DEF FinalizerStep
<1>6. CASE ReconcilerCrash \/ \E s \in Supervisors : SupervisorCrash(s) \/ SupervisorErrs(s)
  BY <1>6 DEF ReconcilerCrash, SupervisorCrash, SupervisorErrs, Unlocked
<1>7. CASE \E a \in Reconcilers \cup Supervisors : BeginReconcile(a)
  BY <1>7 DEF BeginReconcile
<1>8. CASE \E s \in Supervisors : BeginFail(s)
  BY <1>8 DEF BeginFail
<1> QED BY <1>1, <1>2, <1>3, <1>4, <1>5, <1>6, <1>7, <1>8 DEF Next, Crash

\* A trained Run stays trained, so an old reading of one stays right.
LEMMA PlanFollowsStep ==
  ASSUME Inv, LaunchedOnce, NEW s \in Supervisors, Life(s), PlanFollows, Next
  PROVE  PlanFollows'
<1>1. metadata.status \in Trained => metadata'.status \in Trained
  BY StatusStep DEF Trained, EventStatus
<1>2. CASE UNCHANGED finalizer
  BY <1>1, <1>2 DEF PlanFollows
<1>3. CASE finalizer'.pc \notin {"observe", "write"}
  BY <1>3 DEF PlanFollows
<1>4. CASE finalizer'.pc = "observe" /\ finalizer'.plan = metadata /\ UNCHANGED metadata
  BY <1>4 DEF PlanFollows
<1>5. CASE finalizer' = [holder |-> finalizer'.holder, pc |-> "write",
                         plan |-> Failed("harness_failure")]
  <2>1. finalizer'.plan.status = "failed" /\ finalizer'.pc = "write"
    BY <1>5 DEF Failed
  <2> QED BY <2>1 DEF PlanFollows
<1>6. CASE ReconcileDecides
  <2>1. PICK plan \in Metadata :
          /\ Decide(plan)
          /\ finalizer' = [finalizer EXCEPT !.pc = "write", !.plan = plan]
    BY <1>6 DEF ReconcileDecides
  <2>2. finalizer'.pc = "write" /\ finalizer'.plan = plan
    BY <2>1 DEF Inv, TypeOK, Finalizer
  <2>3. plan.status = "completed" => finalizer.plan.status \in Trained
    BY <2>1 DEF Decide, Failed, Trained
  <2>4. finalizer.pc = "observe" /\ UNCHANGED metadata
    BY <1>6 DEF ReconcileDecides
  <2> QED BY <2>2, <2>3, <2>4 DEF PlanFollows
<1> QED BY <1>2, <1>3, <1>4, <1>5, <1>6, PlanWriters DEF Inv

\* The status of a Run that is launched once advances from smoke test to
\* training to its end and never goes back, whatever process is killed; if the
\* supervisor is not killed, completed and failed are never exchanged either.
THEOREM RunImplementsRunStatus ==
  ASSUME LaunchedOnce, NEW s \in Supervisors
  PROVE  Spec => Status!Spec
<1>1. Init => Status!Init /\ PlanFollows
  BY DEF Init, Status!Init, Plain, PlanFollows, Unlocked
<1>2. Inv /\ Life(s) /\ PlanFollows /\ [Next]_vars => PlanFollows'
  <2>1. CASE UNCHANGED vars
    BY <2>1 DEF PlanFollows, vars
  <2>2. CASE Next
    BY <2>2, PlanFollowsStep
  <2> QED BY <2>1, <2>2
<1>3. Inv /\ Life(s) /\ PlanFollows /\ [Next]_vars => [Status!Next]_(metadata.status)
  <2> SUFFICES ASSUME Inv, Life(s), PlanFollows, Next, metadata' # metadata
               PROVE  Status!Next
    BY DEF vars
  <2>1. \/ metadata.status = "smoke_testing" /\ metadata'.status \in {"accepted", "smoke_failed"}
        \/ metadata.status = "accepted" /\ metadata'.status = "training"
        \/ metadata.status = "training" /\ metadata'.status \in EventStatus
        \/ /\ metadata.status \in {"smoke_testing", "accepted", "smoke_failed"}
           /\ metadata'.status = "failed"
        \/ Mortal /\ metadata.status \in EventStatus /\ metadata'.status \in EventStatus
    BY StatusStep
  <2> QED BY <2>1 DEF Status!Next, Status!Smoked, Status!Trains, Status!Ends, Status!GivenUp,
                      Status!Revised, Status!EventStatus, EventStatus
<1> QED BY <1>1, <1>2, <1>3, LifeInvariant, Invariance, PTL DEF Spec, Status!Spec

-----------------------------------------------------------------------------
(* What ends with the supervisor *)

Present == {"creating", "running", "exited0", "exitedN"}

\* Where the supervisor's program may have containers.
Attempting == {"attempt", "dockerRun", "wait", "writeTerminal", "recordEvent", "cleanup"}

\* A container is there only as long as its supervisor has not cleaned up.
NoContainerOutlives ==
  \A s \in Supervisors, c \in Containers : container[c] \in Present => pc[s] \in Attempting

\* The supervisor starts containers, and leaves the attempts by its cleanup.
LEMMA SupervisorTidies ==
  ASSUME Inv, Undisturbed, NEW s \in Supervisors, Life(s), Named, NoContainerOutlives, SupervisorStep(s)
  PROVE  NoContainerOutlives'
<1> USE DEF Inv, TypeOK, Undisturbed, LaunchedOnce, NoContainerOutlives, Goto, ledgerVars, dockerVars
<1>1. ~Killed(s)
  BY DEF Killed
<1>2. CASE RecordStarting(s) \/ DockerRun(s)
  BY <1>2 DEF RecordStarting, DockerRun, Attempting
<1>3. CASE \/ TrainingSucceeds(s) \/ TrainingFails(s) \/ RetryTraining(s) \/ ForcedTimeout(s)
           \/ WriteTerminal(s) \/ RecordEvent(s) \/ BootstrapFails(s)
  BY <1>3 DEF TrainingSucceeds, TrainingFails, RetryTraining, ForcedTimeout, WriteTerminal,
              RecordEvent, BootstrapFails, Attempting
<1>4. CASE RecordEventConflict(s)
  <2>1. metadata = outcome[s] /\ (events = <<>> \/ events = <<metadata>>)
    BY <1>1, <1>4 DEF RecordEventConflict, Life, MetadataFollows, LedgerFollows
  <2>2. events # <<>> /\ (Len(events) > 1 \/ events[1].status # metadata.status)
    BY <1>4, <2>1 DEF RecordEventConflict, Conflicts
  <2>3. Len(<<metadata>>) = 1 /\ <<metadata>>[1] = metadata
    OBVIOUS
  <2>4. events = <<metadata>>
    BY <2>1, <2>2
  <2>5. Len(events) = 1 /\ events[1] = metadata
    BY <2>3, <2>4
  <2>6. FALSE
    BY <2>2, <2>5
  <2> QED BY <2>6
<1>5. CASE SupervisorCleanup(s)
  <2>1. ASSUME NEW c \in Containers PROVE container'[c] \notin Present
    <3>1. container[c] # "none" => c \in record.containers
      BY DEF Named, ContainersAreRecorded
    <3>2. container[c] # "creating"
      BY <1>1, <1>5 DEF SupervisorCleanup, Life, OutputsFollow
    <3> QED BY <1>5, <3>1, <3>2 DEF SupervisorCleanup, RemoveRecorded, Present
  <2> QED BY <2>1
<1>6. CASE \/ AwaitRegistration(s) \/ ReadStatus(s) \/ MarkSmoke(s) \/ SmokeRead(s)
           \/ SmokePass(s) \/ SmokeFail(s) \/ SubmitEvent(s) \/ MarkTraining(s)
           \/ TrainCheck(s) \/ OperationRaises(s) \/ WriteTraining(s)
           \/ MarkSupervisorFailed(s) \/ MarkFinalized(s)
  <2>1. pc[s] \notin Attempting /\ UNCHANGED container
    BY <1>6 DEF AwaitRegistration, ReadStatus, MarkSmoke, MarkPhase, SmokeRead, SmokePass,
                SmokeFail, SubmitEvent, MarkTraining, TrainCheck, OperationRaises, WriteTraining,
                MarkSupervisorFailed, MarkFinalized, MarkState, Attempting
  <2> QED BY <2>1
<1> QED BY <1>2, <1>3, <1>4, <1>5, <1>6 DEF SupervisorStep

\* The daemon runs what the supervisor waits for; nobody else starts anything.
LEMMA OthersTidy ==
  ASSUME Inv, Undisturbed, NEW s \in Supervisors, Life(s), NoContainerOutlives, Next, ~SupervisorStep(s)
  PROVE  NoContainerOutlives'
<1> USE DEF Inv, TypeOK, Undisturbed, LaunchedOnce, NoContainerOutlives, Goto, ledgerVars, dockerVars, supVars
<1>1. CASE Launch \/ LauncherCrash \/ CallerStep \/ CallerCrash
  BY <1>1 DEF Launch, LauncherCheck, LauncherRefuses, LauncherSpawn, LauncherRegister,
              LauncherCrash, CallerStep, CallerSmokePass, CallerSmokeFail, CallerSubmitEvent,
              CallerCrash, Attempting
<1>2. ASSUME NEW c \in Containers, Docker(c) PROVE NoContainerOutlives'
  BY <1>2 DEF Docker, ContainerCreated, ContainerRefused, ContainerExits, Present
<1>3. CASE FinalizerStep \/ ReconcilerCrash \/ \E a \in Reconcilers \cup Supervisors : BeginReconcile(a)
  <2>1. \A c \in Containers : container'[c] \in Present => container[c] \in Present
    BY <1>3 DEF FinalizerStep, ReconcilerCrash, BeginReconcile, ReconcileDecides, ReconcileFailed,
                ReconcileReturns, UpdateTerminalMetadata, EnsureTerminalEvent,
                EnsureTerminalEventConflict, FinalizerCleanup, RemoveRecorded, Present
  <2>2. pc[s] \in Attempting => pc'[s] = pc[s]
    BY <1>3 DEF FinalizerStep, ReconcilerCrash, BeginReconcile, ReconcileDecides, ReconcileFailed,
                ReconcileReturns, UpdateTerminalMetadata, EnsureTerminalEvent,
                EnsureTerminalEventConflict, FinalizerCleanup, HolderGoes, Life, HolderWaits,
                Attempting
  <2> QED BY <2>1, <2>2
<1>4. ASSUME NEW t \in Supervisors, BeginFail(t) PROVE NoContainerOutlives'
  BY <1>4 DEF BeginFail, Attempting
<1>5. ASSUME NEW t \in Supervisors, SupervisorCrash(t) PROVE FALSE
  BY <1>5 DEF SupervisorCrash, MayCrash, Mortal
<1>6. ASSUME NEW t \in Supervisors, SupervisorErrs(t) PROVE FALSE
  BY <1>6 DEF SupervisorErrs, MayCrash
<1> QED BY <1>1, <1>2, <1>3, <1>4, <1>5, <1>6 DEF Next, Crash

\* A Run left alone leaves no container behind: once its supervisor is past its
\* cleanup the daemon holds none, finished or not, and none appears again.
THEOREM ContainersEndWithTheRun ==
  ASSUME Undisturbed, NEW s \in Supervisors
  PROVE  Spec => []NoContainerOutlives
<1>1. Init => NoContainerOutlives
  BY DEF Init, NoContainerOutlives, Present
<1>2. Inv /\ Life(s) /\ Named /\ NoContainerOutlives /\ [Next]_vars => NoContainerOutlives'
  <2>1. CASE UNCHANGED vars
    BY <2>1 DEF NoContainerOutlives, vars
  <2>2. CASE Next
    BY <2>2, SupervisorTidies, OthersTidy
  <2> QED BY <2>1, <2>2
<1> QED BY <1>1, <1>2, NamesInvariant, LifeInvariant, Invariance, PTL DEF Spec, Undisturbed

-----------------------------------------------------------------------------
(* What a lock holder and an observer can count on *)

\* reconcile_run has an answer to every status it may read, whatever it
\* observes: no reading leaves .finalization.lock held for good.
EveryReadingIsAnswered ==
  finalizer.pc = "observe" =>
    \/ \E plan \in Metadata : Decide(plan)
    \/ finalizer.plan.status \in {"failed", "smoke_failed", "accepted"}
    \/ finalizer.plan.status \in {"smoke_testing", "training"} /\ ObservedActive

\* A reconciler that holds the lock can go on, whatever it read before.
THEOREM ReconcilersAnswer == Spec => []EveryReadingIsAnswered
<1>1. TypeOK => EveryReadingIsAnswered
  <2> SUFFICES ASSUME TypeOK, finalizer.pc = "observe",
                      finalizer.plan.status \in {"smoke_testing", "training", "completed"},
                      finalizer.plan.status # "completed" => ~ObservedActive
               PROVE  \E plan \in Metadata : Decide(plan)
    BY DEF EveryReadingIsAnswered, TypeOK, Finalizer, Metadata, RunStatus
  <2>1. /\ Plain("completed") \in Metadata /\ Failed("harness_failure") \in Metadata
        /\ Failed("resource_failure") \in Metadata
    BY DEF Plain, Failed, Metadata, RunStatus, FailureClassification
  <2>2. CASE finalizer.plan.status = "smoke_testing"
    BY <2>1, <2>2 DEF Decide
  <2>3. CASE finalizer.plan.status = "training" /\ ExitFailureObserved
    BY <2>1, <2>3 DEF Decide
  <2>4. CASE \/ finalizer.plan.status = "training" /\ ~ExitFailureObserved
             \/ finalizer.plan.status = "completed"
    BY <2>1, <2>4 DEF Decide
  <2> QED BY <2>2, <2>3, <2>4
<1> QED BY TypeCorrect, <1>1, PTL

\* A Run that was put into training names its supervisor in execution.json, so
\* observers that go by the record find it, whoever has died since.
TrainedIsRegistered ==
  /\ trained # {} => record.pid # Nobody
  /\ \A s \in Supervisors : pc[s] \in {"trainCheck", "writeTraining"} => record.pid # Nobody

\* The launcher registers a process that it spawned.
Registering == TrainedIsRegistered /\ (launcher.pc = "register" => launcher.child \in Supervisors)

\* A registration is replaced, never taken back.
LEMMA PidStays ==
  ASSUME TypeOK, Registering, Next
  PROVE  /\ record.pid # Nobody => record'.pid # Nobody
         /\ \A s \in Supervisors : MarkTraining(s) => record'.pid # Nobody
<1> USE NobodyIsNoName DEF TypeOK, ledgerVars, dockerVars, supVars
<1>2. ASSUME NEW s \in Supervisors, MarkSmoke(s) \/ MarkTraining(s) PROVE record'.pid # Nobody
  BY <1>2 DEF MarkSmoke, MarkTraining, MarkPhase, ExecutionRecord
<1>1. CASE Launch
  <2>1. CASE LauncherRegister
    <3>1. record'.pid = launcher.child /\ launcher.child \in Supervisors
      BY <2>1 DEF LauncherRegister, ExecutionRecord, Registering
    <3> QED BY <3>1
  <2>2. CASE LauncherCheck \/ LauncherRefuses \/ LauncherSpawn
    <3>1. UNCHANGED record
      BY <2>2 DEF LauncherCheck, LauncherRefuses, LauncherSpawn
    <3> QED BY <1>2, <3>1
  <2> QED BY <1>1, <2>1, <2>2 DEF Launch
<1>3. ASSUME NEW s \in Supervisors, NEW suffix, RecordExit(s, suffix) PROVE record'.pid = record.pid
  BY <1>3, RecordKeepsPid DEF RecordExit
<1>4. ASSUME NEW s \in Supervisors,
             \/ TrainingSucceeds(s) \/ TrainingFails(s) \/ RetryTraining(s) \/ ForcedTimeout(s)
             \/ MarkSupervisorFailed(s) \/ MarkFinalized(s) \/ RecordStarting(s)
      PROVE  record'.pid = record.pid
  <2>1. CASE TrainingSucceeds(s) \/ TrainingFails(s) \/ RetryTraining(s) \/ ForcedTimeout(s)
    BY <1>3, <2>1 DEF TrainingSucceeds, TrainingFails, RetryTraining, ForcedTimeout
  <2>2. CASE MarkSupervisorFailed(s) \/ MarkFinalized(s)
    BY <2>2, RecordKeepsPid DEF MarkSupervisorFailed, MarkFinalized, MarkState
  <2>3. CASE RecordStarting(s)
    <3>1. PICK c \in Containers :
            record' = [record EXCEPT !.state = "container_starting", !.active = c,
                                     !.activeState = "starting", !.containers = @ \cup {c}]
      BY <2>3 DEF RecordStarting
    <3> QED BY <3>1, RecordKeepsPid
  <2> QED BY <1>4, <2>1, <2>2, <2>3
<1>5. ASSUME NEW s \in Supervisors,
             \/ SupervisorStep(s) \/ BeginFail(s) \/ SupervisorCrash(s),
             ~MarkSmoke(s), ~MarkTraining(s), ~TrainingSucceeds(s), ~TrainingFails(s),
             ~RetryTraining(s), ~ForcedTimeout(s), ~MarkSupervisorFailed(s), ~MarkFinalized(s),
             ~RecordStarting(s)
      PROVE  UNCHANGED record
  BY <1>5 DEF SupervisorStep, AwaitRegistration, ReadStatus, SmokeRead, SmokePass, SmokeFail,
         SubmitEvent, TrainCheck, OperationRaises, WriteTraining, BootstrapFails, DockerRun,
         WriteTerminal, RecordEvent, RecordEventConflict, SupervisorCleanup, BeginFail,
         SupervisorCrash
<1>8. ASSUME NEW s \in Supervisors, SupervisorErrs(s) PROVE record'.pid = record.pid
  BY <1>3, <1>8 DEF SupervisorErrs
<1>6. CASE \/ FinalizerStep \/ ReconcilerCrash \/ LauncherCrash \/ CallerStep \/ CallerCrash
           \/ \E a \in Reconcilers \cup Supervisors : BeginReconcile(a)
           \/ \E c \in Containers : Docker(c)
  <2>1. UNCHANGED record
    BY <1>6 DEF FinalizerStep, ReconcilerCrash, BeginReconcile, ReconcileDecides, ReconcileFailed,
                ReconcileReturns, UpdateTerminalMetadata, EnsureTerminalEvent,
                EnsureTerminalEventConflict, FinalizerCleanup, LauncherCrash, CallerStep,
                CallerSmokePass, CallerSmokeFail, CallerSubmitEvent, CallerCrash, Docker,
                ContainerCreated, ContainerRefused, ContainerExits
  <2> QED BY <2>1, <1>2
<1>7. CASE \E s \in Supervisors :
             SupervisorStep(s) \/ BeginFail(s) \/ SupervisorCrash(s) \/ SupervisorErrs(s)
  <2>1. record'.pid = record.pid \/ record'.pid # Nobody
    BY <1>2, <1>4, <1>5, <1>7, <1>8
  <2> QED BY <1>2, <2>1
<1> QED BY <1>1, <1>6, <1>7, <1>2 DEF Next, Crash

\* Who is put into training, and who is on the way there.
LEMMA RegisteringStep ==
  ASSUME TypeOK, Registering, Next
  PROVE  /\ trained' = trained \/ \E s \in Supervisors : pc[s] = "writeTraining"
         /\ \A s \in Supervisors : pc'[s] \in {"trainCheck", "writeTraining"} =>
              pc[s] \in {"trainCheck", "writeTraining"} \/ MarkTraining(s)
         /\ launcher'.pc = "register" => launcher'.child \in Supervisors
<1> USE DEF TypeOK, ledgerVars, dockerVars, supVars, Goto
<1>1. CASE Launch
  BY <1>1 DEF Launch, LauncherCheck, LauncherRefuses, LauncherSpawn, LauncherRegister,
              Registering
<1>2. ASSUME NEW s \in Supervisors, SupervisorStep(s)
      PROVE  /\ trained' = trained \/ pc[s] = "writeTraining"
             /\ UNCHANGED launcher
             /\ \A u \in Supervisors : u # s => pc'[u] = pc[u]
             /\ pc'[s] \in {"trainCheck", "writeTraining"} =>
                  pc[s] \in {"trainCheck", "writeTraining"} \/ MarkTraining(s)
  <2>1. CASE MarkSmoke(s) \/ MarkTraining(s)
    BY <2>1 DEF MarkSmoke, MarkTraining, MarkPhase
  <2>2. CASE \/ TrainingSucceeds(s) \/ TrainingFails(s) \/ RetryTraining(s) \/ ForcedTimeout(s)
             \/ MarkSupervisorFailed(s) \/ MarkFinalized(s) \/ RecordStarting(s)
    BY <2>2 DEF TrainingSucceeds, TrainingFails, RetryTraining, ForcedTimeout,
                MarkSupervisorFailed, MarkFinalized, MarkState, RecordStarting
  <2>3. CASE \/ AwaitRegistration(s) \/ ReadStatus(s) \/ SmokeRead(s) \/ SmokePass(s)
             \/ SmokeFail(s) \/ SubmitEvent(s) \/ TrainCheck(s) \/ OperationRaises(s)
             \/ WriteTraining(s) \/ BootstrapFails(s) \/ DockerRun(s) \/ WriteTerminal(s)
             \/ RecordEvent(s) \/ RecordEventConflict(s) \/ SupervisorCleanup(s)
    BY <2>3 DEF AwaitRegistration, ReadStatus, SmokeRead, SmokePass, SmokeFail, SubmitEvent,
                TrainCheck, OperationRaises, WriteTraining, BootstrapFails, DockerRun,
                WriteTerminal, RecordEvent, RecordEventConflict, SupervisorCleanup
  <2> QED BY <1>2, <2>1, <2>2, <2>3 DEF SupervisorStep
<1>3. CASE \/ FinalizerStep \/ Crash \/ CallerStep
           \/ \E s \in Supervisors : BeginFail(s)
           \/ \E a \in Reconcilers \cup Supervisors : BeginReconcile(a)
           \/ \E c \in Containers : Docker(c)
  <2>1. CASE \/ CallerStep \/ ReconcilerCrash \/ LauncherCrash \/ CallerCrash
             \/ \E a \in Reconcilers \cup Supervisors : BeginReconcile(a)
             \/ \E c \in Containers : Docker(c)
    BY <2>1 DEF BeginReconcile, ReconcilerCrash, LauncherCrash, CallerCrash, CallerStep,
                CallerSmokePass, CallerSmokeFail, CallerSubmitEvent, Docker,
                ContainerCreated, ContainerRefused, ContainerExits, Registering
  <2>2. CASE \E s \in Supervisors : BeginFail(s) \/ SupervisorCrash(s) \/ SupervisorErrs(s)
    BY <2>2 DEF BeginFail, SupervisorCrash, SupervisorErrs, Registering
  <2>3. CASE FinalizerStep
    <3>1. UNCHANGED <<trained, launcher>>
      BY <2>3 DEF FinalizerStep, ReconcileDecides, ReconcileFailed, ReconcileReturns,
                  UpdateTerminalMetadata, EnsureTerminalEvent, EnsureTerminalEventConflict,
                  FinalizerCleanup
    <3>2. \A s \in Supervisors : pc'[s] \in {"trainCheck", "writeTraining"} => pc'[s] = pc[s]
      BY <2>3 DEF FinalizerStep, ReconcileDecides, ReconcileFailed, ReconcileReturns,
                  UpdateTerminalMetadata, EnsureTerminalEvent, EnsureTerminalEventConflict,
                  FinalizerCleanup, HolderGoes
    <3> QED BY <3>1, <3>2 DEF Registering
  <2> QED BY <1>3, <2>1, <2>2, <2>3 DEF Crash
<1> QED BY <1>1, <1>2, <1>3 DEF Next, Registering

\* A training Run has a registered supervisor, whatever dies and whoever
\* observes: read_execution_record can always tell that it is over.
THEOREM TrainingRunsAreRegistered == Spec => []TrainedIsRegistered
<1>1. Init => Registering
  BY DEF Init, Registering, TrainedIsRegistered
<1>2. ASSUME TypeOK, Registering, [Next]_vars PROVE Registering'
  <2>1. CASE UNCHANGED vars
    BY <1>2, <2>1 DEF vars, Registering, TrainedIsRegistered
  <2>2. CASE Next
    <3>1. /\ trained' # {} => record'.pid # Nobody
          /\ \A s \in Supervisors : pc'[s] \in {"trainCheck", "writeTraining"} =>
               record'.pid # Nobody
      BY <1>2, <2>2, PidStays, RegisteringStep DEF Registering, TrainedIsRegistered
    <3> QED BY <1>2, <2>2, <3>1, RegisteringStep DEF Registering, TrainedIsRegistered
  <2> QED BY <1>2, <2>1, <2>2
<1>3. Registering => TrainedIsRegistered
  BY DEF Registering
<1> QED BY TypeCorrect, <1>1, <1>2, <1>3, PTL DEF Spec
=============================================================================
