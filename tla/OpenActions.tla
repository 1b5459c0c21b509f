----------------------------- MODULE OpenActions -----------------------------
(***************************************************************************)
(* Which Harness-owned action runs next, and recovery when a foreground    *)
(* command dies (autonomy_step.py, research_loop_operations.py,            *)
(* evaluation_requests.py, batches.py).  Three commands execute ingested   *)
(* handoffs: autonomy-step (the one it just ingested), execute-next-action *)
(* (the one of the last result file) and execute-open-actions (whatever    *)
(* the Research Ledger says is open, in ledger order).                     *)
(*                                                                         *)
(* Nothing locks a command out of another.  A Run that was started goes on *)
(* under its own supervisor (module RunLifecycle) and ends with a terminal *)
(* event.  Runs that are rejected or smoke_failed are never looked up      *)
(* again: they give their identity back, so that RunIds can stay small.    *)
(***************************************************************************)
EXTENDS Naturals, Sequences, FiniteSets, SequencesExt

CONSTANTS
  Sessions,                           \* shells that run commands
  Candidates, Evaluations, Batches,   \* ids of the handoffs of each type
  RunIds, BatchIds,                   \* ids the Harness may generate
  None,
  CommandsUsed,      \* which of the three commands the operator runs
  SubmissionEnds,    \* how validation and smoke of a Candidate may end
  MayRaise,          \* whether checks of configuration and inputs may fail
  MaxKills           \* bound on the number of commands and supervisors killed

Handoffs == Candidates \cup Evaluations \cup Batches
CommandKinds == {"step", "next", "open"}

ASSUME NoneIsNoId == None \notin Handoffs \cup RunIds \cup BatchIds
ASSUME TypesAreDisjoint ==
  /\ Candidates \cap Evaluations = {} /\ Candidates \cap Batches = {}
  /\ Evaluations \cap Batches = {}
ASSUME GeneratedIdsAreNew == Handoffs \cap BatchIds = {}
ASSUME ParametersAreChoices ==
  /\ CommandsUsed \subseteq CommandKinds
  /\ SubmissionEnds \subseteq {"accepted", "rejected", "smoke_failed"}
  /\ MayRaise \in BOOLEAN
  /\ MaxKills \in Nat

VARIABLES
  ingested,       \* agent_handoff_ingested events, in ledger order
  submitted,      \* the Run of the last candidate_submitted event of each Candidate
  terminal,       \* Runs with a run_completed or run_failed event
  evaluated,      \* number of evaluation_completed events of each request
  batchesDone,    \* batch ids with an experiment_batch_completed event
  run,            \* run_metadata.json of each Run
  evaluationDir,  \* the evaluation directory of each Evaluation Request
  batchSource,    \* batch_metadata.json: the handoff each batch id was made for
  result,         \* autonomy_step_result.json
  command,        \* the foreground command of each session and its progress
  kills           \* number of commands and supervisors killed so far

ledgerVars == <<ingested, submitted, terminal, evaluated, batchesDone>>
artifactVars == <<run, evaluationDir, batchSource>>
vars == <<ledgerVars, artifactVars, result, command, kills>>

-----------------------------------------------------------------------------
\* "training": the Run has a supervisor.  Its metadata says "accepted" until that
\* supervisor gets to the training.
RunStatus == {"none", "smoke_testing", "accepted", "training", "ended"}
ReturnedStatus == RunStatus \cup {"rejected", "smoke_failed", "completed"}
Actions == {"run_candidate", "reconcile_run", "run_post_run_evaluation",
            "run_experiment_batch"}

Pcs == {"idle", "pick", "execute", "smoke", "announce", "start", "wait",
        "evaluate", "record", "batch"}
Ids == RunIds \cup BatchIds \cup {None}
ResultRecord ==
  [handoff : Handoffs \cup {None}, action : Actions \cup {"none"},
   run : RunIds \cup {None}, status : ReturnedStatus, executed : BOOLEAN]
\* "seen": what the result file said, or would have said, when the action began.
CommandRecord ==
  [kind : CommandKinds \cup {"none"}, pc : Pcs, handoff : Handoffs \cup {None},
   action : Actions \cup {"none"}, id : Ids, left : Nat, seen : ResultRecord]

NoRun == [candidate |-> None, status |-> "none"]
\* A next action the result file leaves outstanding.
Outstanding(h, action) ==
  [handoff |-> h, action |-> action, run |-> None, status |-> "none", executed |-> FALSE]
NoResult == Outstanding(None, "none")
Idle == [kind |-> "none", pc |-> "idle", handoff |-> None, action |-> "none",
         id |-> None, left |-> 0, seen |-> NoResult]

\* Mutant: a Candidate whose Run is announced but not terminal is run again.
OpenActionResubmits(h) ==
  CASE h \in Candidates /\ submitted[h] \notin terminal -> "run_candidate"
    [] h \in Evaluations /\ evaluated[h] = 0 -> "run_post_run_evaluation"
    [] h \in Batches /\ h \notin batchesDone -> "run_experiment_batch"
    [] OTHER -> "none"

\* Mutant: a Candidate is closed by its announcement.
OpenActionForgets(h) ==
  CASE h \in Candidates /\ submitted[h] = None -> "run_candidate"
    [] h \in Evaluations /\ evaluated[h] = 0 -> "run_post_run_evaluation"
    [] h \in Batches /\ h \notin batchesDone -> "run_experiment_batch"
    [] OTHER -> "none"

\* The action still open for an ingested handoff.
OpenAction(h) ==
  CASE h \in Candidates /\ submitted[h] = None -> "run_candidate"
    [] h \in Candidates /\ submitted[h] \in RunIds \ terminal -> "reconcile_run"
    [] h \in Evaluations /\ evaluated[h] = 0 -> "run_post_run_evaluation"
    [] h \in Batches /\ h \notin batchesDone -> "run_experiment_batch"
    [] OTHER -> "none"

\* find_open_executable_actions: the ledger positions of the open handoffs.
Open == {i \in DOMAIN ingested : OpenAction(ingested[i]) # "none"}

\* The artifact of an executed next action is still there.
ArtifactExists ==
  CASE result.action = "run_candidate" ->
         result.status \in {"ended", "rejected", "smoke_failed"}
    [] result.action = "reconcile_run" -> result.status = "ended"
    [] result.action = "run_post_run_evaluation" -> evaluationDir[result.handoff] = "complete"
    [] OTHER -> TRUE

-----------------------------------------------------------------------------
Init ==
  /\ ingested = <<>>
  /\ submitted = [c \in Candidates |-> None]
  /\ terminal = {} /\ batchesDone = {}
  /\ evaluated = [e \in Evaluations |-> 0]
  /\ run = [r \in RunIds |-> NoRun]
  /\ evaluationDir = [e \in Evaluations |-> "absent"]
  /\ batchSource = [b \in BatchIds |-> None]
  /\ result = NoResult
  /\ command = [s \in Sessions |-> Idle]
  /\ kills = 0

Begin(s, kind, h, action, id, left, seen) ==
  command' = [command EXCEPT ![s] = [kind |-> kind, pc |-> "execute", handoff |-> h,
                                     action |-> action, id |-> id, left |-> left,
                                     seen |-> seen]]

Goto(s, pc, id) == command' = [command EXCEPT ![s].pc = pc, ![s].id = id]

Picking(left) == [kind |-> "open", pc |-> "pick", handoff |-> None, action |-> "none",
                  id |-> None, left |-> left, seen |-> NoResult]

\* The action returned: the loop of execute-open-actions goes on; the other
\* commands write the result file and keep an unfinished Candidate action
\* attached to its Run.
Return(s, r, status) ==
  IF command[s].kind = "open"
    THEN /\ command' = [command EXCEPT ![s] = Picking(command[s].left - 1)]
         /\ UNCHANGED result
    ELSE /\ command' = [command EXCEPT ![s] = Idle]
         /\ result' = [handoff |-> command[s].handoff,
                       action |-> IF status = "training" THEN "reconcile_run"
                                  ELSE command[s].action,
                       run |-> r, status |-> status, executed |-> TRUE]

\* The action raised: execute-open-actions stops, autonomy-step records an
\* action not executed, execute-next-action writes back what it read when it
\* began, whatever the file says by now.
Raise(s) ==
  /\ command' = [command EXCEPT ![s] = Idle]
  /\ result' = IF command[s].kind = "open" THEN result ELSE command[s].seen

-----------------------------------------------------------------------------
(* The commands *)

FirstAction(h) == CASE h \in Candidates -> "run_candidate"
                    [] h \in Evaluations -> "run_post_run_evaluation"
                    [] h \in Batches -> "run_experiment_batch"

\* autonomy-step: the stale result file goes first, the agent runs, its
\* handoff is ingested and, with --execute-next-action, executed.
AutonomyStep(s, h) ==
  /\ "step" \in CommandsUsed
  /\ command[s] = Idle
  /\ h \notin ToSet(ingested)
  /\ ingested' = Append(ingested, h)
  /\ \/ /\ Begin(s, "step", h, FirstAction(h), None, 1, Outstanding(h, FirstAction(h)))
        /\ result' = NoResult
     \/ /\ result' = Outstanding(h, FirstAction(h))
        /\ UNCHANGED command
  /\ UNCHANGED <<submitted, terminal, evaluated, batchesDone, artifactVars, kills>>

\* autonomy-step when the agent fails or hands nothing off.
AutonomyStepWithoutHandoff(s) ==
  /\ "step" \in CommandsUsed
  /\ command[s] = Idle
  /\ result' = NoResult
  /\ UNCHANGED <<ledgerVars, artifactVars, command, kills>>

\* execute-next-action: refuses while anything else is open, skips what was
\* executed and left its artifact.
ExecuteNextAction(s) ==
  /\ "next" \in CommandsUsed
  /\ command[s] = Idle
  /\ result.handoff # None
  /\ \A i \in Open :
       /\ Open = {i}
       /\ ingested[i] = result.handoff
       /\ OpenAction(ingested[i]) = result.action
  /\ ~(result.executed /\ ArtifactExists)
  /\ Begin(s, "next", result.handoff, result.action, result.run, 1, result)
  /\ UNCHANGED <<ledgerVars, artifactVars, result, kills>>

\* execute-open-actions: as many rounds as there are open actions now.
ExecuteOpenActions(s) ==
  /\ "open" \in CommandsUsed
  /\ command[s] = Idle
  /\ Open # {}
  /\ command' = [command EXCEPT ![s] = Picking(Cardinality(Open))]
  /\ UNCHANGED <<ledgerVars, artifactVars, result, kills>>

BeginOpen(s, h) ==
  Begin(s, "open", h, OpenAction(h),
        IF OpenAction(h) = "reconcile_run" THEN submitted[h] ELSE None, command[s].left,
        NoResult)

\* Mutant: the rounds are not counted.
PickOpenActionForever(s) ==
  /\ command[s].pc = "pick"
  /\ IF Open = {}
       THEN command' = [command EXCEPT ![s] = Idle]
       ELSE \E i \in Open :
              /\ \A j \in Open : i <= j
              /\ BeginOpen(s, ingested[i])
  /\ UNCHANGED <<ledgerVars, artifactVars, result, kills>>

\* Each round reads the ledger again and takes the oldest open action.
PickOpenAction(s) ==
  /\ command[s].pc = "pick"
  /\ IF command[s].left = 0 \/ Open = {}
       THEN command' = [command EXCEPT ![s] = Idle]
       ELSE \E i \in Open :
              /\ \A j \in Open : i <= j
              /\ BeginOpen(s, ingested[i])
  /\ UNCHANGED <<ledgerVars, artifactVars, result, kills>>

-----------------------------------------------------------------------------
(* Executing a Candidate action *)

Executing(s, action) == command[s].pc = "execute" /\ command[s].action = action

\* A check that precedes every durable effect of the action fails.
CheckFails(s) ==
  /\ MayRaise
  /\ command[s].pc = "execute"
  /\ Raise(s)
  /\ UNCHANGED <<ledgerVars, artifactVars, kills>>

\* Validation rejects the Candidate, or a Run is prepared and its smoke starts.
PrepareRun(s) ==
  /\ Executing(s, "run_candidate") /\ command[s].id = None
  /\ \/ /\ "rejected" \in SubmissionEnds
        /\ Return(s, None, "rejected")
        /\ UNCHANGED run
     \/ \E r \in RunIds :
          /\ run[r].status = "none"
          /\ run' = [run EXCEPT ![r] = [candidate |-> command[s].handoff,
                                        status |-> "smoke_testing"]]
          /\ Goto(s, "smoke", r)
          /\ UNCHANGED result
  /\ UNCHANGED <<ledgerVars, evaluationDir, batchSource, kills>>

\* Mutant: training starts before the announcement.
FinishSmokeStarts(s) ==
  LET r == command[s].id
  IN /\ command[s].pc = "smoke"
     /\ \/ /\ "accepted" \in SubmissionEnds
           /\ run' = [run EXCEPT ![r].status = "accepted"]
           /\ Goto(s, "start", r)
           /\ UNCHANGED result
        \/ /\ "smoke_failed" \in SubmissionEnds
           /\ run' = [run EXCEPT ![r] = NoRun]
           /\ Return(s, None, "smoke_failed")
     /\ UNCHANGED <<ledgerVars, evaluationDir, batchSource, kills>>

FinishSmoke(s) ==
  LET r == command[s].id
  IN /\ command[s].pc = "smoke"
     /\ \/ /\ "accepted" \in SubmissionEnds
           /\ run' = [run EXCEPT ![r].status = "accepted"]
           /\ Goto(s, "announce", r)
           /\ UNCHANGED result
        \/ /\ "smoke_failed" \in SubmissionEnds
           /\ run' = [run EXCEPT ![r] = NoRun]
           /\ Return(s, None, "smoke_failed")
     /\ UNCHANGED <<ledgerVars, evaluationDir, batchSource, kills>>

\* candidate_submitted reaches the ledger after the accepted metadata.
Announce(s) ==
  /\ command[s].pc = "announce"
  /\ submitted' = [submitted EXCEPT ![command[s].handoff] = command[s].id]
  /\ Goto(s, "start", command[s].id)
  /\ UNCHANGED <<ingested, terminal, evaluated, batchesDone, artifactVars, result, kills>>

\* The Run the result file or the ledger names: one whose metadata says accepted
\* is started, any other is only observed (reconcile_run changes nothing while
\* its supervisor is active, and nothing more once it is terminal).
ContinueRun(s) ==
  LET r == command[s].id
  IN /\ command[s].pc = "execute" /\ r # None
     /\ \/ /\ run[r].status \in {"accepted", "training"}
           /\ Goto(s, "start", r)
           /\ UNCHANGED result
        \/ /\ run[r].status # "accepted"
           /\ Return(s, r, run[r].status)
     /\ UNCHANGED <<ledgerVars, artifactVars, kills>>

\* Start the detached supervisor, or observe the one that is active: that one is
\* not a child to wait for, and as long as it has not begun the training the
\* command takes the Run for accepted and returns.
StartSupervisor(s) ==
  LET r == command[s].id
  IN /\ command[s].pc = "start"
     /\ \/ /\ run[r].status = "accepted"
           /\ run' = [run EXCEPT ![r].status = "training"]
           /\ Goto(s, "wait", r)
           /\ UNCHANGED result
        \/ /\ run[r].status = "training"
           /\ \/ Goto(s, "wait", r) /\ UNCHANGED result
              \/ Return(s, r, "accepted")
           /\ UNCHANGED run
        \/ /\ run[r].status \notin {"accepted", "training"}
           /\ Raise(s)
           /\ UNCHANGED run
     /\ UNCHANGED <<ledgerVars, evaluationDir, batchSource, kills>>

\* The caller follows the supervisor until the Run is terminal, or until the
\* supervisor is gone and has left the Run accepted.
RunIsOver(s) ==
  LET r == command[s].id
  IN /\ command[s].pc = "wait"
     /\ run[r].status \in {"ended", "accepted"}
     /\ Return(s, r, run[r].status)
     /\ UNCHANGED <<ledgerVars, artifactVars, kills>>

-----------------------------------------------------------------------------
(* Executing the other actions *)

\* Mutant: an evaluation directory left by an earlier attempt is reused.
StartEvaluationAnyway(s) ==
  /\ Executing(s, "run_post_run_evaluation")
  /\ evaluationDir' = [evaluationDir EXCEPT ![command[s].handoff] = "created"]
  /\ Goto(s, "evaluate", None)
  /\ UNCHANGED <<ledgerVars, run, batchSource, result, kills>>

\* The directory of an evaluation is created once: any later attempt raises.
StartEvaluation(s) ==
  /\ Executing(s, "run_post_run_evaluation")
  /\ IF evaluationDir[command[s].handoff] # "absent"
       THEN Raise(s) /\ UNCHANGED evaluationDir
       ELSE /\ evaluationDir' = [evaluationDir EXCEPT ![command[s].handoff] = "created"]
            /\ Goto(s, "evaluate", None)
            /\ UNCHANGED result
  /\ UNCHANGED <<ledgerVars, run, batchSource, kills>>

\* The diagnostics raise, or the metadata is written.
FinishEvaluation(s) ==
  /\ command[s].pc = "evaluate"
  /\ \/ MayRaise /\ Raise(s) /\ UNCHANGED evaluationDir
     \/ /\ evaluationDir' = [evaluationDir EXCEPT ![command[s].handoff] = "complete"]
        /\ Goto(s, "record", None)
        /\ UNCHANGED result
  /\ UNCHANGED <<ledgerVars, run, batchSource, kills>>

RecordEvaluation(s) ==
  /\ command[s].pc = "record"
  /\ evaluated' = [evaluated EXCEPT ![command[s].handoff] = @ + 1]
  /\ Return(s, None, "completed")
  /\ UNCHANGED <<ingested, submitted, terminal, batchesDone, artifactVars, kills>>

\* A batch runs under a freshly generated id.
StartBatch(s) ==
  /\ Executing(s, "run_experiment_batch")
  /\ \E b \in BatchIds :
       /\ batchSource[b] = None
       /\ batchSource' = [batchSource EXCEPT ![b] = command[s].handoff]
       /\ Goto(s, "batch", b)
  /\ UNCHANGED <<ledgerVars, run, evaluationDir, result, kills>>

\* The completed event carries the generated id, as the directory does.
FinishBatch(s) ==
  /\ command[s].pc = "batch"
  /\ batchesDone' = batchesDone \cup {command[s].id}
  /\ Return(s, None, "completed")
  /\ UNCHANGED <<ingested, submitted, terminal, evaluated, artifactVars, kills>>

-----------------------------------------------------------------------------
\* The supervisor of a started Run, or a reconciliation, makes it terminal.
SupervisedRunEnds(r) ==
  /\ run[r].status = "training"
  /\ run' = [run EXCEPT ![r].status = "ended"]
  /\ terminal' = terminal \cup {r}
  /\ UNCHANGED <<ingested, submitted, evaluated, batchesDone, evaluationDir, batchSource,
                 result, command, kills>>

\* A supervisor is killed before its training began: the Run is still accepted
\* and reconcile_run leaves it so.
SupervisorDies(r) ==
  /\ kills < MaxKills
  /\ run[r].status = "training"
  /\ run' = [run EXCEPT ![r].status = "accepted"]
  /\ kills' = kills + 1
  /\ UNCHANGED <<ledgerVars, evaluationDir, batchSource, result, command>>

\* A foreground command is killed: only what it wrote survives.
Kill(s) ==
  /\ kills < MaxKills
  /\ command[s] # Idle
  /\ command' = [command EXCEPT ![s] = Idle]
  /\ kills' = kills + 1
  /\ UNCHANGED <<ledgerVars, artifactVars, result>>

CommandStep(s) ==
  \/ PickOpenAction(s) \/ CheckFails(s)
  \/ PrepareRun(s) \/ FinishSmoke(s) \/ Announce(s)
  \/ ContinueRun(s) \/ StartSupervisor(s) \/ RunIsOver(s)
  \/ StartEvaluation(s) \/ FinishEvaluation(s) \/ RecordEvaluation(s)
  \/ StartBatch(s) \/ FinishBatch(s)

Next ==
  \/ \E s \in Sessions :
       \/ \E h \in Handoffs : AutonomyStep(s, h)
       \/ AutonomyStepWithoutHandoff(s)
       \/ ExecuteNextAction(s) \/ ExecuteOpenActions(s)
       \/ CommandStep(s) \/ Kill(s)
  \/ \E r \in RunIds : SupervisedRunEnds(r) \/ SupervisorDies(r)

Spec == Init /\ [][Next]_vars

\* A command that runs goes on, a supervised Run ends, and the operator keeps
\* running the recovery command while it finds something open.
LiveSpec ==
  /\ Spec
  /\ \A s \in Sessions : WF_vars(CommandStep(s)) /\ WF_vars(ExecuteOpenActions(s))
  /\ \A r \in RunIds : WF_vars(SupervisedRunEnds(r))
-----------------------------------------------------------------------------
(* Properties *)

\* Every variable holds what the code may write to it, and a command works on
\* the kind of handoff its action is for: a command is never left with a
\* negative number of rounds or with the action of another handoff type.
TypeOK ==
  /\ ingested \in Seq(Handoffs) /\ IsInjective(ingested)
  /\ submitted \in [Candidates -> RunIds \cup {None}]
  /\ terminal \subseteq RunIds
  /\ evaluated \in [Evaluations -> Nat]
  /\ batchesDone \subseteq BatchIds
  /\ run \in [RunIds -> [candidate : Candidates \cup {None}, status : RunStatus]]
  /\ evaluationDir \in [Evaluations -> {"absent", "created", "complete"}]
  /\ batchSource \in [BatchIds -> Batches \cup {None}]
  /\ result \in ResultRecord
  /\ command \in [Sessions -> CommandRecord]
  /\ kills \in 0..MaxKills

\* Once a Candidate's Run is announced no other Run is prepared for it: the
\* recovery command maps the handoff to the Run it has, whenever and however
\* often the earlier commands were killed.
SubmittedOnce ==
  [][\A r \in RunIds :
       run[r].status = "none" /\ run'[r].status # "none" =>
         submitted[run'[r].candidate] = None]_vars

\* What trains is what the ledger says of the Candidate.  A Run accepted by a
\* command that died before candidate_submitted is stranded: it must never
\* reach a supervisor, or the Candidate would train twice.
TrainedRunIsAnnounced ==
  \A r \in RunIds : run[r].status \in {"training", "ended"} =>
    submitted[run[r].candidate] = r

\* An Evaluation Request is recorded as completed at most once, with any number
\* of commands executing it at once and killed anywhere: no lock orders them,
\* only the creation of the evaluation directory does.
EvaluatedOnce == \A e \in Evaluations : evaluated[e] <= 1

\* However often commands are killed, the recovery command brings every ingested
\* Candidate to a terminal Run: no kill leaves a Candidate that is neither open
\* nor terminal, or open under a Run nothing can finish.
CandidatesEnd == \A c \in Candidates : c \in ToSet(ingested) ~> submitted[c] \in terminal

\* A batch handoff whose batch has completed is no longer open (the docstring of
\* find_open_executable_actions).  The code compares the generated batch id of
\* the event with the id of the handoff.
CompletedBatchIsClosed == \A b \in batchesDone : OpenAction(batchSource[b]) = "none"
=============================================================================
