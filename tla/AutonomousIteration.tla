------------------------- MODULE AutonomousIteration -------------------------
(***************************************************************************)
(* The bounded autonomous loop (autonomous_iteration.py), the single       *)
(* Autonomy Step it repeats (autonomy_step.py run_autonomy_step) and the   *)
(* operator's pause and resume (campaign_controls.py), over the ingestion  *)
(* of module HandoffIngestion.  What a next action does is in module       *)
(* OpenActions; here it ends in one of the ways the loop tells apart.      *)
(***************************************************************************)
EXTENDS HandoffIngestion, Sequences

CONSTANTS
  Loopers,       \* sessions that run the loop or a single step
  Collectors,    \* sessions that run ingest-agent-handoff
  MaxSteps,      \* --max-steps of a session that has that limit
  MaxWritten,    \* bound on the artifacts one agent invocation leaves
  MaxControls,   \* bound on the pause and resume events
  MaxStarts      \* bound on the commands started

ASSUME SessionsHaveCommands == Loopers \cup Collectors = Sessions
ASSUME LoopBounds ==
  /\ MaxSteps \in Nat \ {0}
  /\ MaxWritten \in Nat /\ MaxControls \in Nat /\ MaxStarts \in Nat

VARIABLES
  controls,     \* campaign_paused and campaign_resumed events, in order
  loop,         \* the command each session runs
  starts,       \* number of commands started so far
  resultFile,   \* the notification status in autonomous-iteration-result.json
  fresh,        \* history: what the agent of the current step wrote
  trail,        \* history: how the completed steps of the command ended
  shared,       \* history: sessions whose command overlapped another one
  pausedRuns    \* history: agent invocations since the active pause, and
                \* whether the command began under it

historyVars == <<fresh, trail, shared, pausedRuns>>
loopVars == <<controls, loop, starts, resultFile, historyVars>>
vars == <<ingestionVars, loopVars>>

-----------------------------------------------------------------------------
StepStatus == {"none", "agent_failed", "no_handoff", "ingestion_failed",
               "execution_failed", "ingested"}
Execution == {"none", "skipped", "completed", "incomplete"}
StopReasons ==
  {"none", "agent_failed", "ingestion_failed", "execution_failed", "no_handoff",
   "capability_request", "human_review_requested", "non_executable_next_action",
   "campaign_paused", "step_limit_reached", "time_limit_reached"}
LoopPcs == {"idle", "top", "begin", "agent", "collect", "ingest", "execute",
            "endStep", "stop", "notify"}

Loop == [kind : {"none", "iteration", "step", "collect"}, pc : LoopPcs,
         stepLimit : BOOLEAN, timeLimit : BOOLEAN, expired : BOOLEAN,
         executes : BOOLEAN, started : Nat, completed : Nat,
         status : StepStatus, execution : Execution, stop : StopReasons]

AtRest ==
  [kind |-> "none", pc |-> "idle", stepLimit |-> FALSE, timeLimit |-> FALSE,
   expired |-> FALSE, executes |-> FALSE, started |-> 0, completed |-> 0,
   status |-> "none", execution |-> "none", stop |-> "none"]

Init ==
  /\ IngestionInit
  /\ controls = <<>>
  /\ loop = [s \in Sessions |-> AtRest]
  /\ starts = 0
  /\ resultFile = "absent"
  /\ fresh = [s \in Sessions |-> {}]
  /\ trail = [s \in Sessions |-> {}]
  /\ shared = {}
  /\ pausedRuns = [s \in Sessions |-> [count |-> 0, fromStart |-> FALSE]]

-----------------------------------------------------------------------------
(* What the loop looks at *)

\* Mutant: a resume event anywhere in the ledger clears every pause.
AnyResumeClears ==
  /\ \E i \in DOMAIN controls : controls[i] = "campaign_paused"
  /\ \A j \in DOMAIN controls : controls[j] # "campaign_resumed"

\* latest_campaign_pause_state: a pause is active until a newer resume.
OperatorPauseActive ==
  \E i \in DOMAIN controls :
    /\ controls[i] = "campaign_paused"
    /\ \A j \in DOMAIN controls : j > i => controls[j] # "campaign_resumed"

\* What the operator last said; the history variables go by it.
Paused == controls # <<>> /\ controls[Len(controls)] = "campaign_paused"

\* Mutant: one step too many.
StepLimitOffByOne(l) == l.stepLimit /\ l.completed > MaxSteps

StepLimitReached(l) == l.stepLimit /\ l.completed >= MaxSteps
TimeLimitReached(s) == loop[s].timeLimit /\ loop[s].expired

\* The type of the handoff the step ingested.
Handoff(s) ==
  IF loop[s].status \in {"ingested", "execution_failed"} THEN HandoffType(Artifact(s)) ELSE "none"

\* Mutant: a submission counts as done once its action was executed at all.
StopReasonIgnoresOutcome(s) ==
  IF loop[s].status # "ingested" THEN loop[s].status
  ELSE CASE Handoff(s) = "capability_request" -> "capability_request"
         [] Handoff(s) = "campaign_report" -> "human_review_requested"
         [] Handoff(s) = "research_note" -> "none"
         [] Handoff(s) \in {"candidate_submission", "evaluation_request"} -> "none"
         [] OTHER -> "non_executable_next_action"

\* _stop_reason_from_step; "none" lets the loop go on.
StopReason(s) ==
  IF loop[s].status # "ingested" THEN loop[s].status
  ELSE CASE Handoff(s) = "capability_request" -> "capability_request"
         [] Handoff(s) = "campaign_report" -> "human_review_requested"
         [] Handoff(s) = "research_note" -> "none"
         [] /\ Handoff(s) \in {"candidate_submission", "evaluation_request"}
            /\ loop[s].execution = "completed" -> "none"
         [] OTHER -> "non_executable_next_action"

Goes(s, pc) == loop' = [loop EXCEPT ![s].pc = pc]
Stops(s, reason) == loop' = [loop EXCEPT ![s] = [@ EXCEPT !.pc = "stop", !.stop = reason]]
Ends(s) == loop' = [loop EXCEPT ![s] = AtRest]

-----------------------------------------------------------------------------
(* The operator *)

Active == {s \in Sessions : loop[s].pc # "idle"}

\* A command as it starts, with clean history.
Command(kind, pc, stepLimit, timeLimit, executes) ==
  [AtRest EXCEPT !.kind = kind, !.pc = pc, !.stepLimit = stepLimit,
                 !.timeLimit = timeLimit, !.executes = executes]

Starts(s, command) ==
  /\ loop[s].pc = "idle"
  /\ starts < MaxStarts
  /\ starts' = starts + 1
  /\ loop' = [loop EXCEPT ![s] = command]
  /\ fresh' = [fresh EXCEPT ![s] = {}]
  /\ trail' = [trail EXCEPT ![s] = {}]
  /\ shared' = IF Active = {} THEN shared \ {s} ELSE shared \cup Active \cup {s}
  /\ pausedRuns' = [pausedRuns EXCEPT ![s] = [count |-> 0, fromStart |-> Paused]]
  /\ UNCHANGED <<ingestionVars, controls, resultFile>>

\* Mutant: the workspace is not looked at before the first step.
StartIterationDirty(s) ==
  \E stepLimit, timeLimit \in BOOLEAN :
    /\ stepLimit \/ timeLimit
    /\ Starts(s, Command("iteration", "top", stepLimit, timeLimit, TRUE))

\* run-autonomous-iteration: at least one limit, and a workspace without
\* un-ingested handoffs; otherwise it raises and changes nothing.
StartIteration(s) ==
  /\ Uningested = {}
  /\ \E stepLimit, timeLimit \in BOOLEAN :
       /\ stepLimit \/ timeLimit
       /\ Starts(s, Command("iteration", "top", stepLimit, timeLimit, TRUE))

\* autonomy-step, with or without --execute-next-action, asks for neither.
StartStep(s) ==
  \E executes \in BOOLEAN :
    Starts(s, Command("step", "begin", FALSE, FALSE, executes))

\* ingest-agent-handoff collects what lies in the workspace.
StartCollect(s) == Starts(s, Command("collect", "collect", FALSE, FALSE, FALSE))

Pause ==
  /\ Len(controls) < MaxControls
  /\ controls' = Append(controls, "campaign_paused")
  /\ UNCHANGED <<ingestionVars, loop, starts, resultFile, historyVars>>

Resume ==
  /\ Len(controls) < MaxControls
  /\ controls' = Append(controls, "campaign_resumed")
  /\ pausedRuns' = [s \in Sessions |-> [count |-> 0, fromStart |-> FALSE]]
  /\ UNCHANGED <<ingestionVars, loop, starts, resultFile, fresh, trail, shared>>

-----------------------------------------------------------------------------
(* The loop *)

ClockExpires(s) ==
  /\ loop[s].timeLimit /\ ~loop[s].expired
  /\ loop' = [loop EXCEPT ![s].expired = TRUE]
  /\ UNCHANGED <<ingestionVars, controls, starts, resultFile, historyVars>>

LoopTop(s) ==
  /\ loop[s].pc = "top"
  /\ \/ StepLimitReached(loop[s]) /\ Stops(s, "step_limit_reached")
     \/ /\ ~StepLimitReached(loop[s]) /\ TimeLimitReached(s)
        /\ Stops(s, "time_limit_reached")
     \/ /\ ~StepLimitReached(loop[s]) /\ ~TimeLimitReached(s) /\ OperatorPauseActive
        /\ Stops(s, "campaign_paused")
     \/ /\ ~StepLimitReached(loop[s]) /\ ~TimeLimitReached(s) /\ ~OperatorPauseActive
        /\ Goes(s, "begin")
  /\ UNCHANGED <<ingestionVars, controls, starts, resultFile, historyVars>>

\* The boundary is prepared, stale result files are removed, the agent starts.
BeginStep(s) ==
  /\ loop[s].pc = "begin"
  /\ resultFile' = "absent"
  /\ loop' = [loop EXCEPT ![s] = [@ EXCEPT !.pc = "agent", !.started = loop[s].started + 1,
                                           !.status = "none", !.execution = "none"]]
  /\ fresh' = [fresh EXCEPT ![s] = {}]
  /\ pausedRuns' = [pausedRuns EXCEPT ![s].count =
                      IF Paused THEN @ + 1 ELSE @]
  /\ UNCHANGED <<ingestionVars, controls, starts, trail, shared>>

\* Preparing the boundary or starting the agent's command raises: the loop
\* ends without a result file and without a notification.
StepRaises(s) ==
  /\ loop[s].pc \in {"begin", "agent"}
  /\ Ends(s)
  /\ UNCHANGED <<ingestionVars, controls, starts, resultFile, historyVars>>

AgentEnds(s) ==
  /\ loop[s].pc = "agent"
  /\ \E written \in SUBSET {a \in Artifacts : workspace[a] = "absent"} :
       /\ Cardinality(written) <= MaxWritten
       /\ Write(written)
       /\ fresh' = [fresh EXCEPT ![s] = written]
  /\ \/ loop' = [loop EXCEPT ![s] = [@ EXCEPT !.pc = "endStep", !.status = "agent_failed"]]
     \/ Goes(s, "collect")
  /\ UNCHANGED <<canonical, indexFile, indexed, handoffEvents, artifactEvents, ingest, kills>>
  /\ UNCHANGED <<controls, starts, resultFile, trail, shared, pausedRuns>>

Collect(s) ==
  /\ loop[s].pc = "collect"
  /\ Begin(s)
  /\ Goes(s, "ingest")
  /\ UNCHANGED <<controls, starts, resultFile, historyVars>>

\* collect_agent_handoff returned, or an error passed through it.
Collected(s) ==
  /\ loop[s].pc = "ingest"
  /\ At(s, "idle")
  /\ \/ /\ ingest[s].status = "raised" \/ loop[s].kind = "collect"
        /\ Ends(s)
     \/ /\ ingest[s].status # "raised" /\ loop[s].kind # "collect"
        /\ loop' = [loop EXCEPT ![s] =
             [@ EXCEPT !.status = ingest[s].status,
                       !.pc = IF ingest[s].status = "ingested" /\ loop[s].executes
                                THEN "execute" ELSE "endStep"]]
  /\ UNCHANGED <<ingestionVars, controls, starts, resultFile, historyVars>>

\* execute_ingested_next_action: nothing to do for notes, requests and reports.
ExecuteNextAction(s) ==
  /\ loop[s].pc = "execute"
  /\ \/ /\ Artifact(s) \in Announced
        /\ loop' = [loop EXCEPT ![s] = [@ EXCEPT !.pc = "endStep", !.execution = "skipped"]]
     \/ /\ Artifact(s) \notin Announced
        /\ \E how \in {"completed", "incomplete"} :
             loop' = [loop EXCEPT ![s] = [@ EXCEPT !.pc = "endStep", !.execution = how]]
     \/ /\ Artifact(s) \notin Announced
        /\ loop' = [loop EXCEPT ![s] = [@ EXCEPT !.pc = "endStep", !.status = "execution_failed"]]
  /\ UNCHANGED <<ingestionVars, controls, starts, resultFile, historyVars>>

\* The step is completed; the loop looks for reasons to stop, in this order.
EndStep(s) ==
  LET done == [loop[s] EXCEPT !.completed = loop[s].completed + 1]
      reason == IF StopReason(s) # "none" THEN StopReason(s)
                ELSE IF OperatorPauseActive THEN "campaign_paused"
                ELSE IF StepLimitReached(done) THEN "step_limit_reached"
                ELSE IF TimeLimitReached(s) THEN "time_limit_reached" ELSE "none" IN
  /\ loop[s].pc = "endStep"
  /\ \/ loop[s].kind = "step" /\ Ends(s)
     \/ /\ loop[s].kind = "iteration"
        /\ loop' = [loop EXCEPT ![s] = [done EXCEPT !.stop = reason,
                      !.pc = IF reason = "none" THEN "top" ELSE "stop"]]
  /\ trail' = [trail EXCEPT ![s] = @ \cup
                 {<<Handoff(s), loop[s].status, loop[s].execution>>}]
  /\ UNCHANGED <<ingestionVars, controls, starts, resultFile, fresh, shared, pausedRuns>>

WriteResult(s) ==
  /\ loop[s].pc = "stop"
  /\ resultFile' = "pending"
  /\ Goes(s, "notify")
  /\ UNCHANGED <<ingestionVars, controls, starts, historyVars>>

\* Mutant: the status of a failed mail is one no reader knows.
NotifyRetrying(s) ==
  /\ loop[s].pc = "notify"
  /\ resultFile' \in {"sent", "retrying"}
  /\ Ends(s)
  /\ UNCHANGED <<ingestionVars, controls, starts, historyVars>>

\* The mail is sent or not, and the result file says so.
Notify(s) ==
  /\ loop[s].pc = "notify"
  /\ resultFile' \in {"sent", "failed"}
  /\ Ends(s)
  /\ UNCHANGED <<ingestionVars, controls, starts, historyVars>>

LoopStep(s) ==
  \/ LoopTop(s) \/ BeginStep(s) \/ AgentEnds(s) \/ Collect(s)
  \/ Collected(s) \/ ExecuteNextAction(s) \/ EndStep(s) \/ WriteResult(s) \/ Notify(s)

\* A killed command ends its ingestion too.
KillCommand(s) ==
  /\ loop[s].pc # "idle"
  /\ Kill(s)
  /\ Ends(s)
  /\ UNCHANGED <<controls, starts, resultFile, historyVars>>

Next ==
  \/ \E s \in Loopers : StartIteration(s) \/ StartStep(s)
  \/ \E s \in Collectors : StartCollect(s)
  \/ \E s \in Sessions :
       \/ LoopStep(s) \/ StepRaises(s) \/ ClockExpires(s) \/ KillCommand(s)
       \/ IngestStep(s) /\ UNCHANGED loopVars
  \/ Pause \/ Resume
  \/ \E a \in Artifacts :
       /\ Discard(a)
       /\ \A s \in Sessions : loop[s].pc = "idle"
       /\ UNCHANGED loopVars

Spec == Init /\ [][Next]_vars

-----------------------------------------------------------------------------
\* Type invariant.
TypeOK ==
  /\ IngestionTypeOK
  /\ controls \in Seq({"campaign_paused", "campaign_resumed"})
  /\ loop \in [Sessions -> Loop]
  /\ starts \in 0..MaxStarts
  /\ resultFile \in {"absent", "pending", "sent", "failed"}
  /\ fresh \in [Sessions -> SUBSET Artifacts]
  /\ shared \subseteq Sessions
  /\ pausedRuns \in [Sessions -> [count : Nat, fromStart : BOOLEAN]]

\* A pause is honoured: a loop that begins under it runs no agent, and one that
\* it reaches runs at most the agent it was about to start.
PauseHonoured ==
  \A s \in Sessions :
    loop[s].kind = "iteration" =>
      pausedRuns[s].count <= IF pausedRuns[s].fromStart THEN 0 ELSE 1

\* The loop goes on only after a Research Note, a completed Candidate Run or a
\* completed Post-Run Evaluation.
StopsForHuman ==
  \A s \in Sessions :
    loop[s].kind = "iteration" /\ loop[s].pc \in {"top", "begin", "agent", "collect", "ingest", "execute"} =>
      \A step \in trail[s] :
        \/ step[1] = "research_note" /\ step[2] = "ingested"
        \/ step[1] \in {"candidate_submission", "evaluation_request"} /\ step[3] = "completed"

\* The loop ingests what its own agent wrote in this step, unless another
\* command runs beside it: nothing that an earlier, failed or killed step left
\* in the workspace.
HandoffIsFresh ==
  \A s \in Sessions \ shared :
    loop[s].kind = "iteration" /\ ingest[s].pc \notin {"idle", "discover"} =>
      Artifact(s) \in fresh[s]

\* The step limit counts agent invocations, however the steps end.
StepLimitKept ==
  \A s \in Sessions : loop[s].stepLimit => loop[s].started <= MaxSteps
=============================================================================
