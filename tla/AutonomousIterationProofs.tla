---------------------- MODULE AutonomousIterationProofs ----------------------
(***************************************************************************)
(* Proofs about AutonomousIteration, for any sessions, limits and numbers  *)
(* of starts, kills and controls.  Its ingestion is that of module         *)
(* HandoffIngestion, so the theorems about ingestion hold of it too.  Each  *)
(* property has an invariant of its own about a session that runs the loop: *)
(* Counted for the step limit, PausedOf for the pause, OngoingOf for the    *)
(* reasons to stop, and Quiet, Alone and FreshOf for what the step ingests. *)
(***************************************************************************)
EXTENDS AutonomousIteration, HandoffIngestionProofs

\* A step of the commands or of the operator is a step of the ingestion or
\* leaves its state alone.
LEMMA IngestsOrStutters ==
  ASSUME [Next]_vars
  PROVE  [IngestionNext]_ingestionVars
<1> USE DEF IngestionNext
<1>1. ASSUME NEW s \in Sessions, StartIteration(s) \/ StartStep(s) \/ StartCollect(s)
      PROVE  UNCHANGED ingestionVars
  BY <1>1 DEF StartIteration, StartStep, StartCollect, Starts
<1>2. ASSUME NEW s \in Sessions, LoopStep(s) PROVE [IngestionNext]_ingestionVars
  <2>1. CASE LoopTop(s) \/ BeginStep(s) \/ Collected(s) \/ ExecuteNextAction(s)
             \/ EndStep(s) \/ WriteResult(s) \/ Notify(s)
    BY <2>1 DEF LoopTop, BeginStep, Collected, ExecuteNextAction, EndStep, WriteResult, Notify
  <2>2. CASE AgentEnds(s)
    BY <2>2 DEF AgentEnds
  <2>3. CASE Collect(s)
    BY <2>3 DEF Collect
  <2> QED BY <1>2, <2>1, <2>2, <2>3 DEF LoopStep
<1>3. ASSUME NEW s \in Sessions, StepRaises(s) \/ ClockExpires(s)
      PROVE  UNCHANGED ingestionVars
  BY <1>3 DEF StepRaises, ClockExpires
<1>4. ASSUME NEW s \in Sessions, KillCommand(s) PROVE IngestionNext
  BY <1>4 DEF KillCommand
<1>5. CASE Pause \/ Resume
  BY <1>5 DEF Pause, Resume
<1>6. CASE UNCHANGED vars
  BY <1>6 DEF vars
<1> QED
  BY <1>1, <1>2, <1>3, <1>4, <1>5, <1>6, SessionsHaveCommands DEF Next

\* The loop, the single step and ingest-agent-handoff all go through
\* collect_agent_handoff: AutonomousIteration implements HandoffIngestion.
THEOREM LoopImplementsIngestion == Spec => IngestionSpec
<1>1. Init => IngestionInit
  BY DEF Init
<1>2. [Next]_vars => [IngestionNext]_ingestionVars
  BY IngestsOrStutters
<1> QED BY <1>1, <1>2, PTL DEF Spec, IngestionSpec

\* Hence a submission is recorded as ingested once, whatever the loops do.
THEOREM OneIngestionOfTheLoop == Spec => []SubmissionIngestedOnce
  BY LoopImplementsIngestion, OneIngestion, PTL

\* Nor does any artifact get more events than there are sessions, and an ingestion
\* that a killed command left half done is not made up for by a later command.
THEOREM IngestionsOfTheLoop ==
  ASSUME IsFiniteSet(Sessions)
  PROVE  Spec => []EventsAreRationed /\ LostForEver
  BY LoopImplementsIngestion, OneEventPerProcess, LostIngestionsStayLost, PTL

-----------------------------------------------------------------------------
(* Types *)

\* The part of TypeOK that is not the ingestion's.
LoopTypeOK ==
  /\ controls \in Seq({"campaign_paused", "campaign_resumed"})
  /\ loop \in [Sessions -> Loop]
  /\ starts \in 0..MaxStarts
  /\ resultFile \in {"absent", "pending", "sent", "failed"}
  /\ fresh \in [Sessions -> SUBSET Artifacts]
  /\ shared \subseteq Sessions
  /\ pausedRuns \in [Sessions -> [count : Nat, fromStart : BOOLEAN]]

\* A command at rest, or as it starts, is a command.
LEMMA CommandsAreTyped ==
  /\ AtRest \in Loop
  /\ \A kind \in {"iteration", "step", "collect"}, pc \in LoopPcs,
       stepLimit, timeLimit, executes \in BOOLEAN :
       Command(kind, pc, stepLimit, timeLimit, executes) \in Loop
<1> USE DEF Loop, LoopPcs, StepStatus, Execution, StopReasons, AtRest
<1>1. AtRest \in Loop
  OBVIOUS
<1>2. ASSUME NEW kind \in {"iteration", "step", "collect"}, NEW pc \in LoopPcs,
             NEW stepLimit \in BOOLEAN, NEW timeLimit \in BOOLEAN, NEW executes \in BOOLEAN
      PROVE  Command(kind, pc, stepLimit, timeLimit, executes) \in Loop
  BY DEF Command
<1> QED BY <1>1, <1>2

\* What the loop stops for is a stop reason.
LEMMA StopReasonIsTyped ==
  ASSUME NEW s \in Sessions, loop[s] \in Loop
  PROVE  StopReason(s) \in StopReasons
  BY DEF StopReason, StopReasons, Loop, StepStatus

\* Starting a command keeps the types.
LEMMA StartTypeStep ==
  ASSUME LoopTypeOK, NEW s \in Sessions, NEW command \in Loop, Starts(s, command)
  PROVE  LoopTypeOK'
  BY LoopBounds DEF LoopTypeOK, Starts, Paused, Active

\* The updates the loop makes to its fields keep their types.
LEMMA FieldsTyped ==
  ASSUME NEW l \in Loop, NEW pc \in LoopPcs, NEW stop \in StopReasons,
         NEW status \in StepStatus, NEW execution \in Execution
  PROVE  /\ [l EXCEPT !.pc = pc] \in Loop
         /\ [l EXCEPT !.pc = pc, !.stop = stop] \in Loop
         /\ [l EXCEPT !.stop = stop, !.pc = pc] \in Loop
         /\ [l EXCEPT !.pc = pc, !.status = status] \in Loop
         /\ [l EXCEPT !.status = status, !.pc = pc] \in Loop
         /\ [l EXCEPT !.pc = pc, !.execution = execution] \in Loop
         /\ [l EXCEPT !.completed = l.completed + 1] \in Loop
         /\ [l EXCEPT !.expired = TRUE] \in Loop
         /\ [l EXCEPT !.pc = pc, !.started = l.started + 1, !.status = status,
                      !.execution = execution] \in Loop
<1>1. [l EXCEPT !.pc = pc] \in Loop
  BY DEF Loop
<1>2. [l EXCEPT !.pc = pc, !.stop = stop] \in Loop
  BY DEF Loop
<1>3. [l EXCEPT !.stop = stop, !.pc = pc] \in Loop
  BY DEF Loop
<1>4. [l EXCEPT !.pc = pc, !.status = status] \in Loop
  BY DEF Loop
<1>5. [l EXCEPT !.status = status, !.pc = pc] \in Loop
  BY DEF Loop
<1>6. [l EXCEPT !.pc = pc, !.execution = execution] \in Loop
  BY DEF Loop
<1>7. [l EXCEPT !.completed = l.completed + 1] \in Loop
  BY DEF Loop
<1>8. [l EXCEPT !.expired = TRUE] \in Loop
  BY DEF Loop
<1>9. [l EXCEPT !.pc = pc, !.started = l.started + 1, !.status = status,
                !.execution = execution] \in Loop
  <2>1. ASSUME NEW m \in Loop
        PROVE  [m EXCEPT !.status = status, !.execution = execution] \in Loop
    BY DEF Loop
  <2>2. [l EXCEPT !.pc = pc, !.started = l.started + 1] \in Loop
    <3>1. ASSUME NEW n \in Nat PROVE [l EXCEPT !.pc = pc, !.started = n] \in Loop
      BY DEF Loop
    <3>2. l.started + 1 \in Nat
      BY DEF Loop
    <3> QED BY <3>1, <3>2
  <2>3. [[l EXCEPT !.pc = pc, !.started = l.started + 1]
           EXCEPT !.status = status, !.execution = execution] \in Loop
    BY <2>1, <2>2
  <2> QED BY <2>3, Zenon
<1> QED BY <1>1, <1>2, <1>3, <1>4, <1>5, <1>6, <1>7, <1>8, <1>9

\* Moving to another place of the loop keeps the types.
LEMMA MoveTyped ==
  ASSUME LoopTypeOK, NEW s \in Sessions, NEW pc \in LoopPcs, NEW reason \in StopReasons
  PROVE  /\ Goes(s, pc) => loop' \in [Sessions -> Loop]
         /\ Stops(s, reason) => loop' \in [Sessions -> Loop]
<1>1. loop[s] \in Loop /\ "stop" \in LoopPcs /\ "none" \in StepStatus /\ "none" \in Execution
  BY DEF LoopTypeOK, LoopPcs, StepStatus, Execution
<1>2. [loop[s] EXCEPT !.pc = pc] \in Loop /\ [loop[s] EXCEPT !.pc = "stop", !.stop = reason] \in Loop
  BY <1>1, FieldsTyped
<1> QED BY <1>2 DEF LoopTypeOK, Goes, Stops

\* Every step keeps the types of the loop.
LEMMA LoopTypeStep ==
  ASSUME LoopTypeOK, IngestionTypeOK, [Next]_vars
  PROVE  LoopTypeOK'
<1> USE DEF LoopPcs
<1>a. \A s \in Sessions : loop[s] \in Loop
  BY DEF LoopTypeOK
<1>b. /\ {"none", "agent_failed", "execution_failed"} \subseteq StepStatus
      /\ "none" \in Execution /\ "none" \in StopReasons
  BY DEF StepStatus, Execution, StopReasons
<1>1. ASSUME NEW s \in Sessions, StartIteration(s) PROVE LoopTypeOK'
  BY <1>1, StartTypeStep, CommandsAreTyped DEF StartIteration
<1>2. ASSUME NEW s \in Sessions, StartStep(s) PROVE LoopTypeOK'
  BY <1>2, StartTypeStep, CommandsAreTyped DEF StartStep
<1>3. ASSUME NEW s \in Sessions, StartCollect(s) PROVE LoopTypeOK'
  BY <1>3, StartTypeStep, CommandsAreTyped DEF StartCollect
<1>4. ASSUME NEW s \in Sessions, LoopTop(s) PROVE LoopTypeOK'
  <2>1. loop' \in [Sessions -> Loop]
    BY <1>4, MoveTyped DEF LoopTop, StopReasons
  <2> QED BY <1>4, <2>1 DEF LoopTop, LoopTypeOK, historyVars
<1>5. ASSUME NEW s \in Sessions, BeginStep(s) PROVE LoopTypeOK'
  <2>1. [loop[s] EXCEPT !.pc = "agent", !.started = loop[s].started + 1,
                        !.status = "none", !.execution = "none"] \in Loop
    BY <1>a, <1>b, FieldsTyped
  <2>2. loop' \in [Sessions -> Loop]
    BY <1>5, <2>1 DEF BeginStep, LoopTypeOK
  <2>3. pausedRuns' \in [Sessions -> [count : Nat, fromStart : BOOLEAN]]
    <3>1. CASE Paused
      <4>1. pausedRuns' = [pausedRuns EXCEPT ![s].count = @ + 1]
        BY <1>5, <3>1 DEF BeginStep
      <4>2. pausedRuns[s] \in [count : Nat, fromStart : BOOLEAN]
        BY DEF LoopTypeOK
      <4>3. [pausedRuns[s] EXCEPT !.count = pausedRuns[s].count + 1]
              \in [count : Nat, fromStart : BOOLEAN]
        BY <4>2
      <4> QED BY <4>1, <4>3 DEF LoopTypeOK
    <3>2. CASE ~Paused
      <4>1. pausedRuns' = [pausedRuns EXCEPT ![s].count = @]
        BY <1>5, <3>2 DEF BeginStep
      <4> QED BY <4>1 DEF LoopTypeOK
    <3> QED BY <3>1, <3>2
  <2> QED BY <1>5, <2>2, <2>3 DEF BeginStep, LoopTypeOK
<1>6. ASSUME NEW s \in Sessions, StepRaises(s) PROVE LoopTypeOK'
  BY <1>6, CommandsAreTyped DEF StepRaises, LoopTypeOK, Ends, historyVars
<1>7. ASSUME NEW s \in Sessions, AgentEnds(s) PROVE LoopTypeOK'
  <2>1. [loop[s] EXCEPT !.pc = "endStep", !.status = "agent_failed"] \in Loop
    BY <1>a, <1>b, FieldsTyped
  <2>2. loop' \in [Sessions -> Loop]
    BY <1>7, <2>1, MoveTyped DEF AgentEnds, LoopTypeOK, StopReasons
  <2> QED BY <1>7, <2>2 DEF AgentEnds, LoopTypeOK
<1>8. ASSUME NEW s \in Sessions, Collect(s) PROVE LoopTypeOK'
  <2>1. loop' \in [Sessions -> Loop]
    BY <1>8, MoveTyped DEF Collect, StopReasons
  <2> QED BY <1>8, <2>1 DEF Collect, LoopTypeOK, historyVars
<1>9. ASSUME NEW s \in Sessions, Collected(s) PROVE LoopTypeOK'
  <2>1. ingest[s].status # "raised" => ingest[s].status \in StepStatus
    BY DEF IngestionTypeOK, Ingestion, IngestStatus, StepStatus
  <2>2. ASSUME NEW pc \in LoopPcs, ingest[s].status # "raised"
        PROVE  [loop[s] EXCEPT !.status = ingest[s].status, !.pc = pc] \in Loop
    <3>1. ASSUME NEW l \in Loop, NEW status \in StepStatus
          PROVE  [l EXCEPT !.status = status, !.pc = pc] \in Loop
      BY DEF Loop
    <3> QED BY <1>a, <2>1, <2>2, <3>1
  <2>3. (IF ingest[s].status = "ingested" /\ loop[s].executes THEN "execute" ELSE "endStep") \in LoopPcs
    OBVIOUS
  <2>4. loop' \in [Sessions -> Loop]
    BY <1>9, <2>2, <2>3, CommandsAreTyped DEF Collected, LoopTypeOK, Ends
  <2> QED BY <1>9, <2>4 DEF Collected, LoopTypeOK, historyVars
<1>10. ASSUME NEW s \in Sessions, ExecuteNextAction(s) PROVE LoopTypeOK'
  <2>1. ASSUME NEW execution \in Execution
        PROVE  [loop[s] EXCEPT !.pc = "endStep", !.execution = execution] \in Loop
    BY <1>a, <1>b, FieldsTyped
  <2>2. [loop[s] EXCEPT !.pc = "endStep", !.status = "execution_failed"] \in Loop
    BY <1>a, <1>b, FieldsTyped
  <2>3. loop' \in [Sessions -> Loop]
    BY <1>10, <2>1, <2>2 DEF ExecuteNextAction, LoopTypeOK, Execution
  <2> QED BY <1>10, <2>3 DEF ExecuteNextAction, LoopTypeOK, historyVars
<1>11. ASSUME NEW s \in Sessions, EndStep(s) PROVE LoopTypeOK'
  <2>1. StopReason(s) \in StopReasons
    BY StopReasonIsTyped DEF LoopTypeOK
  <2>2. [loop[s] EXCEPT !.completed = loop[s].completed + 1] \in Loop
    BY <1>a, <1>b, FieldsTyped
  <2>3. ASSUME NEW done \in Loop, NEW reason \in StopReasons
        PROVE  [done EXCEPT !.stop = reason,
                            !.pc = IF reason = "none" THEN "top" ELSE "stop"] \in Loop
    BY <1>b, FieldsTyped
  <2>4. loop' \in [Sessions -> Loop]
    <3>1. CASE Ends(s)
      BY <3>1, CommandsAreTyped DEF Ends, LoopTypeOK
    <3>2. CASE ~Ends(s)
      <4>1. PICK done \in Loop, reason \in StopReasons :
              loop' = [loop EXCEPT ![s] = [done EXCEPT !.stop = reason,
                         !.pc = IF reason = "none" THEN "top" ELSE "stop"]]
        BY <1>11, <2>1, <2>2, <3>2 DEF EndStep, StopReasons
      <4> QED BY <2>3, <4>1 DEF LoopTypeOK
    <3> QED BY <3>1, <3>2
  <2> QED BY <1>11, <2>4 DEF EndStep, LoopTypeOK
<1>12. ASSUME NEW s \in Sessions, WriteResult(s) PROVE LoopTypeOK'
  <2>1. loop' \in [Sessions -> Loop]
    BY <1>12, MoveTyped DEF WriteResult, StopReasons
  <2> QED BY <1>12, <2>1 DEF WriteResult, LoopTypeOK, historyVars
<1>13. ASSUME NEW s \in Sessions, Notify(s) PROVE LoopTypeOK'
  BY <1>13, CommandsAreTyped DEF Notify, LoopTypeOK, Ends, historyVars
<1>14. ASSUME NEW s \in Sessions, ClockExpires(s) PROVE LoopTypeOK'
  <2>1. [loop[s] EXCEPT !.expired = TRUE] \in Loop
    BY <1>a, <1>b, FieldsTyped
  <2>2. loop' \in [Sessions -> Loop]
    BY <1>14, <2>1 DEF ClockExpires, LoopTypeOK
  <2> QED BY <1>14, <2>2 DEF ClockExpires, LoopTypeOK, historyVars
<1>15. ASSUME NEW s \in Sessions, KillCommand(s) PROVE LoopTypeOK'
  BY <1>15, CommandsAreTyped DEF KillCommand, LoopTypeOK, Ends, historyVars
<1>16. CASE Pause
  BY <1>16 DEF Pause, LoopTypeOK, historyVars
<1>17. CASE Resume
  BY <1>17 DEF Resume, LoopTypeOK
<1>18. CASE UNCHANGED loopVars
  BY <1>18 DEF loopVars, historyVars, LoopTypeOK
<1>19. CASE UNCHANGED vars
  BY <1>18, <1>19 DEF vars
<1> QED
  BY <1>1, <1>2, <1>3, <1>4, <1>5, <1>6, <1>7, <1>8, <1>9, <1>10, <1>11, <1>12, <1>13,
     <1>14, <1>15, <1>16, <1>17, <1>18, <1>19, SessionsHaveCommands
  DEF Next, LoopStep

\* Type correctness of the commands and of the ingestion they run.
THEOREM TypeCorrect == Spec => []TypeOK
<1>1. Init => LoopTypeOK
  <2>1. SUFFICES ASSUME Init PROVE LoopTypeOK
    OBVIOUS
  <2>2. controls \in Seq({"campaign_paused", "campaign_resumed"})
    BY <2>1 DEF Init
  <2> QED BY <2>1, <2>2, CommandsAreTyped, LoopBounds DEF Init, LoopTypeOK
<1>2. LoopTypeOK /\ IngestionTypeOK /\ [Next]_vars => LoopTypeOK'
  BY LoopTypeStep
<1>3. Spec => []IngestionTypeOK
  BY LoopImplementsIngestion, IngestionTypeCorrect, PTL
<1>4. TypeOK <=> IngestionTypeOK /\ LoopTypeOK
  BY DEF TypeOK, LoopTypeOK
<1> QED BY <1>1, <1>2, <1>3, <1>4, PTL DEF Spec

-----------------------------------------------------------------------------
(* The step limit *)

InStep == {"agent", "collect", "ingest", "execute", "endStep"}

\* Where the agent invocations of an iteration stand to its completed steps.
CountedOf(l) ==
  /\ l.kind = "iteration" /\ l.pc \in {"top", "begin"} => l.started = l.completed
  /\ l.kind = "iteration" /\ l.pc \in InStep => l.started = l.completed + 1
  /\ l.stepLimit => l.kind = "iteration" /\ l.started <= MaxSteps
  /\ l.stepLimit /\ l.pc = "begin" => l.completed < MaxSteps

Counted == \A s \in Sessions : CountedOf(loop[s])

\* Session s now runs command l.
Becomes(s, l) == CountedOf(l) /\ loop' = [loop EXCEPT ![s] = l]

\* Only one session's command changes at a time.
LEMMA CountedOneByOne ==
  ASSUME LoopTypeOK, Counted, NEW s \in Sessions, NEW l, Becomes(s, l)
  PROVE  Counted'
  BY DEF LoopTypeOK, Counted, Becomes, CountedOf

\* Commands are counted at rest and as they start.
LEMMA StartsCounted ==
  /\ CountedOf(AtRest)
  /\ \A stepLimit, timeLimit \in BOOLEAN :
       CountedOf(Command("iteration", "top", stepLimit, timeLimit, TRUE))
  /\ \A executes \in BOOLEAN : CountedOf(Command("step", "begin", FALSE, FALSE, executes))
  /\ CountedOf(Command("collect", "collect", FALSE, FALSE, FALSE))
  BY LoopBounds DEF CountedOf, Command, AtRest, InStep

\* The counts of a command after each of the loop's updates.
LEMMA UpdatesCounted ==
  ASSUME NEW l \in Loop, CountedOf(l)
  PROVE  /\ \A stop \in StopReasons : CountedOf([l EXCEPT !.pc = "stop", !.stop = stop])
         /\ CountedOf([l EXCEPT !.pc = "notify"])
         /\ l.pc \in InStep => \A pc \in InStep : CountedOf([l EXCEPT !.pc = pc])
         /\ l.pc \in InStep => \A pc \in InStep, status \in StepStatus :
              /\ CountedOf([l EXCEPT !.pc = pc, !.status = status])
              /\ CountedOf([l EXCEPT !.status = status, !.pc = pc])
         /\ l.pc \in InStep => \A pc \in InStep, execution \in Execution :
              CountedOf([l EXCEPT !.pc = pc, !.execution = execution])
         /\ CountedOf([l EXCEPT !.expired = TRUE])
         /\ l.pc = "top" /\ ~StepLimitReached(l) => CountedOf([l EXCEPT !.pc = "begin"])
<1> USE LoopBounds DEF Loop, CountedOf, InStep
<1>1. ASSUME NEW stop \in StopReasons PROVE CountedOf([l EXCEPT !.pc = "stop", !.stop = stop])
  OBVIOUS
<1>2. CountedOf([l EXCEPT !.pc = "notify"])
  OBVIOUS
<1>3. ASSUME l.pc \in InStep, NEW pc \in InStep PROVE CountedOf([l EXCEPT !.pc = pc])
  BY <1>3
<1>4. ASSUME l.pc \in InStep, NEW pc \in InStep, NEW status \in StepStatus
      PROVE  /\ CountedOf([l EXCEPT !.pc = pc, !.status = status])
             /\ CountedOf([l EXCEPT !.status = status, !.pc = pc])
  BY <1>4
<1>5. ASSUME l.pc \in InStep, NEW pc \in InStep, NEW execution \in Execution
      PROVE  CountedOf([l EXCEPT !.pc = pc, !.execution = execution])
  BY <1>5
<1>6. CountedOf([l EXCEPT !.expired = TRUE])
  OBVIOUS
<1>7. ASSUME l.pc = "top", ~StepLimitReached(l) PROVE CountedOf([l EXCEPT !.pc = "begin"])
  BY <1>7 DEF StepLimitReached
<1> HIDE DEF CountedOf
<1> QED BY <1>1, <1>2, <1>3, <1>4, <1>5, <1>6, <1>7

\* Beginning a step adds an invocation; ending it makes up for that.
LEMMA StepsCounted ==
  ASSUME NEW l \in Loop, CountedOf(l)
  PROVE  /\ l.pc = "begin" =>
              CountedOf([l EXCEPT !.pc = "agent", !.started = l.started + 1,
                                  !.status = "none", !.execution = "none"])
         /\ l.pc = "endStep" /\ l.kind = "iteration" =>
              \A stop \in StopReasons, pc \in {"top", "stop"} :
                CountedOf([[l EXCEPT !.completed = l.completed + 1]
                             EXCEPT !.stop = stop, !.pc = pc])
<1> USE LoopBounds DEF Loop, CountedOf, InStep
<1>1. ASSUME l.pc = "begin", NEW m,
             m = [l EXCEPT !.pc = "agent", !.started = l.started + 1,
                           !.status = "none", !.execution = "none"]
      PROVE  CountedOf(m)
  <2>1. /\ m.pc = "agent" /\ m.started = l.started + 1 /\ m.kind = l.kind
        /\ m.completed = l.completed /\ m.stepLimit = l.stepLimit
    BY <1>1
  <2> QED BY <1>1, <2>1
<1>2. ASSUME l.pc = "endStep", l.kind = "iteration", NEW stop \in StopReasons,
             NEW pc \in {"top", "stop"}, NEW m,
             m = [[l EXCEPT !.completed = l.completed + 1] EXCEPT !.stop = stop, !.pc = pc]
      PROVE  CountedOf(m)
  <2>1. /\ m.pc = pc /\ m.started = l.started /\ m.kind = l.kind
        /\ m.completed = l.completed + 1 /\ m.stepLimit = l.stepLimit
    BY <1>2
  <2> QED BY <1>2, <2>1
<1> HIDE DEF CountedOf
<1> QED BY <1>1, <1>2

\* Every step keeps the counts.
LEMMA CountedStep ==
  ASSUME LoopTypeOK, IngestionTypeOK, Counted, [Next]_vars
  PROVE  Counted'
<1>a. \A s \in Sessions : loop[s] \in Loop /\ CountedOf(loop[s])
  BY DEF LoopTypeOK, Counted
<1>b. ASSUME NEW s \in Sessions, \E l : Becomes(s, l) PROVE Counted'
  BY <1>b, CountedOneByOne
<1>1. ASSUME NEW s \in Sessions, StartIteration(s) PROVE Counted'
  BY <1>1, <1>b, StartsCounted DEF StartIteration, Starts, Becomes
<1>2. ASSUME NEW s \in Sessions, StartStep(s) PROVE Counted'
  BY <1>2, <1>b, StartsCounted DEF StartStep, Starts, Becomes
<1>3. ASSUME NEW s \in Sessions, StartCollect(s) PROVE Counted'
  BY <1>3, <1>b, StartsCounted DEF StartCollect, Starts, Becomes
<1>4. ASSUME NEW s \in Sessions, LoopTop(s) PROVE Counted'
  <2>1. CASE Goes(s, "begin")
    <3>1. CountedOf([loop[s] EXCEPT !.pc = "begin"])
      <4>1. loop[s].pc = "top" /\ ~StepLimitReached(loop[s])
        <5>1. ~Stops(s, "step_limit_reached")
          <6>1. loop'[s].pc = "begin"
            BY <1>a, <2>1 DEF Goes, LoopTypeOK, Loop
          <6>2. [loop[s] EXCEPT !.pc = "stop", !.stop = "step_limit_reached"].pc = "stop"
            BY <1>a DEF Loop
          <6> QED BY <6>1, <6>2 DEF Stops, LoopTypeOK
        <5> QED BY <1>4, <2>1, <5>1 DEF LoopTop
      <4> QED BY <1>a, <4>1, UpdatesCounted
    <3> QED BY <1>b, <2>1, <3>1 DEF Goes, Becomes
  <2>2. CASE \E reason \in StopReasons : Stops(s, reason)
    BY <1>a, <1>b, <2>2, UpdatesCounted DEF Stops, Becomes
  <2> QED BY <1>4, <2>1, <2>2 DEF LoopTop, StopReasons
<1>5. ASSUME NEW s \in Sessions, BeginStep(s) PROVE Counted'
  BY <1>5, <1>a, <1>b, StepsCounted DEF BeginStep, Becomes
<1>6. ASSUME NEW s \in Sessions, Ends(s) PROVE Counted'
  BY <1>6, <1>b, StartsCounted DEF Ends, Becomes
<1>7. ASSUME NEW s \in Sessions, StepRaises(s) \/ Notify(s) \/ KillCommand(s) PROVE Counted'
  BY <1>6, <1>7 DEF StepRaises, Notify, KillCommand
<1>8. ASSUME NEW s \in Sessions, AgentEnds(s) PROVE Counted'
  <2>1. loop[s].pc \in InStep /\ {"endStep", "collect"} \subseteq InStep
        /\ "agent_failed" \in StepStatus
    BY <1>8 DEF AgentEnds, InStep, StepStatus
  <2> QED BY <1>8, <1>a, <1>b, <2>1, UpdatesCounted DEF AgentEnds, Goes, Becomes
<1>9. ASSUME NEW s \in Sessions, Collect(s) PROVE Counted'
  <2>1. loop[s].pc \in InStep /\ "ingest" \in InStep
    BY <1>9 DEF Collect, InStep
  <2> QED BY <1>9, <1>a, <1>b, <2>1, UpdatesCounted DEF Collect, Goes, Becomes
<1>10. ASSUME NEW s \in Sessions, Collected(s) PROVE Counted'
  <2>1. loop[s].pc \in InStep /\ {"execute", "endStep"} \subseteq InStep
    BY <1>10 DEF Collected, InStep
  <2>2. ingest[s].status # "raised" => ingest[s].status \in StepStatus
    BY DEF IngestionTypeOK, Ingestion, IngestStatus, StepStatus
  <2>3. CASE Ends(s)
    BY <1>6, <2>3
  <2>4. CASE ~Ends(s)
    BY <1>10, <1>a, <1>b, <2>1, <2>2, <2>4, UpdatesCounted DEF Collected, Becomes
  <2> QED BY <2>3, <2>4
<1>11. ASSUME NEW s \in Sessions, ExecuteNextAction(s) PROVE Counted'
  <2>1. loop[s].pc \in InStep /\ "endStep" \in InStep /\ "execution_failed" \in StepStatus
        /\ {"skipped", "completed", "incomplete"} \subseteq Execution
    BY <1>11 DEF ExecuteNextAction, InStep, StepStatus, Execution
  <2> QED BY <1>11, <1>a, <1>b, <2>1, UpdatesCounted DEF ExecuteNextAction, Becomes
<1>12. ASSUME NEW s \in Sessions, EndStep(s) PROVE Counted'
  <2>1. CASE Ends(s)
    BY <1>6, <2>1
  <2>2. CASE ~Ends(s)
    <3>1. StopReason(s) \in StopReasons
      BY StopReasonIsTyped DEF LoopTypeOK
    <3>2. PICK stop \in StopReasons, pc \in {"top", "stop"} :
            loop' = [loop EXCEPT ![s] = [[loop[s] EXCEPT !.completed = loop[s].completed + 1]
                                           EXCEPT !.stop = stop, !.pc = pc]]
      BY <1>12, <2>2, <3>1 DEF EndStep, StopReasons
    <3>3. loop[s].pc = "endStep" /\ loop[s].kind = "iteration"
      BY <1>12, <2>2 DEF EndStep
    <3> QED BY <1>a, <1>b, <3>2, <3>3, StepsCounted DEF Becomes
  <2> QED BY <2>1, <2>2
<1>13. ASSUME NEW s \in Sessions, WriteResult(s) PROVE Counted'
  BY <1>13, <1>a, <1>b, UpdatesCounted DEF WriteResult, Goes, Becomes
<1>14. ASSUME NEW s \in Sessions, ClockExpires(s) PROVE Counted'
  BY <1>14, <1>a, <1>b, UpdatesCounted DEF ClockExpires, Becomes
<1>15. CASE UNCHANGED loop
  BY <1>15 DEF Counted
<1>16. CASE Pause \/ Resume \/ UNCHANGED loopVars \/ UNCHANGED vars
  BY <1>15, <1>16 DEF Pause, Resume, loopVars, vars
<1> QED
  BY <1>1, <1>2, <1>3, <1>4, <1>5, <1>7, <1>8, <1>9, <1>10, <1>11, <1>12, <1>13,
     <1>14, <1>16, SessionsHaveCommands
  DEF Next, LoopStep

\* run_autonomous_iteration with --max-steps invokes the agent at most that
\* often, however its steps end and whatever runs beside it.
THEOREM StepLimit == Spec => []StepLimitKept
<1>1. Init => Counted
  BY StartsCounted DEF Init, Counted
<1>2. TypeOK /\ Counted /\ [Next]_vars => Counted'
  BY CountedStep DEF TypeOK, LoopTypeOK
<1>3. Counted => StepLimitKept
  BY DEF Counted, CountedOf, StepLimitKept
<1> QED BY <1>1, <1>2, <1>3, TypeCorrect, PTL DEF Spec

-----------------------------------------------------------------------------
(* The moves of an iteration *)

Place(l) == <<l.kind, l.pc, l.status, l.execution>>

\* Where one step takes a session that runs the loop.
Moves(s) ==
  LET l == loop[s]
      m == loop'[s]
  IN \/ LoopTop(s) /\ l.pc = "top" /\ (m.pc = "stop" \/ (m.pc = "begin" /\ ~OperatorPauseActive))
     \/ BeginStep(s) /\ l.pc = "begin" /\ m.pc = "agent"
     \/ AgentEnds(s) /\ l.pc = "agent" /\
          (m.pc = "collect" \/ (m.pc = "endStep" /\ m.status = "agent_failed"))
     \/ Collect(s) /\ l.pc = "collect" /\ m.pc = "ingest"
     \/ Collected(s) /\ l.pc = "ingest" /\ At(s, "idle") /\ m.status = ingest[s].status /\
          (m.pc = "endStep" \/ (m.pc = "execute" /\ m.status = "ingested"))
     \/ ExecuteNextAction(s) /\ l.pc = "execute" /\ m.pc = "endStep" /\
          m.status \in {l.status, "execution_failed"}
     \/ EndStep(s) /\ l.pc = "endStep" /\
          (m.pc = "stop" \/ (m.pc = "top" /\ StopReason(s) = "none" /\ ~OperatorPauseActive))
     \/ WriteResult(s) /\ l.pc = "stop" /\ m.pc = "notify"

\* trail has a value for each session; TypeOK does not say so.
TrailShape == trail = [s \in Sessions |-> trail[s]]

\* Session s stays where it is, whoever acts.
Stays(s) ==
  /\ Place(loop'[s]) = Place(loop[s])
  /\ fresh'[s] = fresh[s] /\ trail'[s] = trail[s]
  /\ Resume \/ (pausedRuns'[s] = pausedRuns[s] /\ (Pause \/ controls' = controls))

\* What a step of session t leaves alone of session s.
LEMMA OthersStay ==
  ASSUME LoopTypeOK, TrailShape, NEW s \in Sessions, NEW t \in Sessions, t # s,
         \/ LoopStep(t) \/ StepRaises(t) \/ ClockExpires(t) \/ KillCommand(t)
         \/ \E command : Starts(t, command)
  PROVE  Stays(s)
<1>0. /\ loop \in [Sessions -> Loop] /\ fresh \in [Sessions -> SUBSET Artifacts]
      /\ pausedRuns \in [Sessions -> [count : Nat, fromStart : BOOLEAN]]
      /\ DOMAIN trail = Sessions
  BY DEF LoopTypeOK, TrailShape
<1>1. ASSUME NEW l, loop' = [loop EXCEPT ![t] = l] PROVE loop'[s] = loop[s]
  BY <1>0, <1>1
<1>2. ASSUME UNCHANGED <<controls, historyVars>>, \E l : loop' = [loop EXCEPT ![t] = l] PROVE Stays(s)
  BY <1>1, <1>2 DEF Stays, historyVars
<1>3. CASE LoopTop(t)
  BY <1>2, <1>3 DEF LoopTop, Goes, Stops
<1>4. CASE BeginStep(t)
  <2>1. loop'[s] = loop[s]
    BY <1>1, <1>4 DEF BeginStep
  <2>2. fresh'[s] = fresh[s]
    BY <1>0, <1>4 DEF BeginStep
  <2>3. pausedRuns'[s] = pausedRuns[s]
    <3>1. CASE Paused
      <4>1. pausedRuns' = [pausedRuns EXCEPT ![t].count = @ + 1]
        BY <1>4, <3>1 DEF BeginStep
      <4> QED BY <1>0, <4>1
    <3>2. CASE ~Paused
      <4>1. pausedRuns' = [pausedRuns EXCEPT ![t].count = @]
        BY <1>4, <3>2 DEF BeginStep
      <4> QED BY <1>0, <4>1
    <3> QED BY <3>1, <3>2
  <2>4. UNCHANGED <<controls, trail>>
    BY <1>4 DEF BeginStep
  <2> QED BY <2>1, <2>2, <2>3, <2>4 DEF Stays
<1>5. CASE AgentEnds(t)
  <2>1. loop'[s] = loop[s]
    BY <1>1, <1>5 DEF AgentEnds, Goes
  <2>2. fresh'[s] = fresh[s]
    BY <1>0, <1>5 DEF AgentEnds
  <2>3. UNCHANGED <<controls, trail, pausedRuns>>
    BY <1>5 DEF AgentEnds
  <2> QED BY <2>1, <2>2, <2>3 DEF Stays
<1>6. CASE Collect(t)
  BY <1>2, <1>6 DEF Collect, Goes
<1>7. CASE Collected(t)
  BY <1>2, <1>7 DEF Collected, Ends
<1>8. CASE ExecuteNextAction(t)
  BY <1>2, <1>8 DEF ExecuteNextAction
<1>9. CASE EndStep(t)
  <2>1. loop'[s] = loop[s]
    BY <1>1, <1>9 DEF EndStep, Ends
  <2>2. trail'[s] = trail[s]
    BY <1>0, <1>9 DEF EndStep
  <2>3. UNCHANGED <<controls, fresh, pausedRuns>>
    BY <1>9 DEF EndStep
  <2> QED BY <2>1, <2>2, <2>3 DEF Stays
<1>10. CASE WriteResult(t)
  BY <1>2, <1>10 DEF WriteResult, Goes
<1>11. CASE Notify(t) \/ StepRaises(t) \/ KillCommand(t)
  BY <1>2, <1>11 DEF Notify, StepRaises, KillCommand, Ends
<1>12. CASE ClockExpires(t)
  <2>1. PICK l : loop' = [loop EXCEPT ![t] = l]
    BY <1>12 DEF ClockExpires
  <2>2. UNCHANGED <<controls, historyVars>>
    BY <1>12 DEF ClockExpires
  <2> QED BY <1>2, <2>1, <2>2
<1>13. CASE \E command : Starts(t, command)
  BY <1>0, <1>1, <1>13 DEF Starts, Stays
<1> QED BY <1>3, <1>4, <1>5, <1>6, <1>7, <1>8, <1>9, <1>10, <1>11, <1>12, <1>13 DEF LoopStep

\* Every step keeps trail a function on the sessions.
LEMMA TrailShapeStep ==
  ASSUME TrailShape, [Next]_vars
  PROVE  TrailShape'
<1>1. ASSUME NEW s \in Sessions, NEW command, Starts(s, command) PROVE TrailShape'
  BY <1>1 DEF Starts, TrailShape
<1>2. ASSUME NEW s \in Sessions, EndStep(s) PROVE TrailShape'
  <2>1. PICK steps : trail' = [trail EXCEPT ![s] = steps]
    BY <1>2 DEF EndStep
  <2> QED BY <2>1 DEF TrailShape
<1>3. ASSUME NEW s \in Sessions, LoopStep(s) \/ StepRaises(s) \/ ClockExpires(s) \/ KillCommand(s),
             ~EndStep(s)
      PROVE  UNCHANGED trail
  BY <1>3 DEF LoopStep, LoopTop, BeginStep, AgentEnds, Collect, Collected, ExecuteNextAction,
     WriteResult, Notify, StepRaises, ClockExpires, KillCommand, historyVars
<1>4. ASSUME Pause \/ Resume \/ UNCHANGED loopVars \/ UNCHANGED vars PROVE UNCHANGED trail
  BY <1>4 DEF Pause, Resume, loopVars, vars, historyVars
<1>5. CASE UNCHANGED trail
  BY <1>5 DEF TrailShape
<1>6. CASE Next
  <2>1. \/ \E s \in Sessions : \E command : Starts(s, command)
        \/ \E s \in Sessions : LoopStep(s) \/ StepRaises(s) \/ ClockExpires(s) \/ KillCommand(s)
        \/ Pause \/ Resume \/ UNCHANGED loopVars
    BY <1>6, SessionsHaveCommands DEF Next, StartIteration, StartStep, StartCollect
  <2> QED BY <1>1, <1>2, <1>3, <1>4, <1>5, <2>1
<1> QED BY <1>4, <1>5, <1>6

\* A session that runs the loop has just started it, moves in it, or stays.
LEMMA IterationMoves ==
  ASSUME LoopTypeOK, TrailShape, [Next]_vars, NEW s \in Sessions, loop'[s].kind = "iteration"
  PROVE  \/ Stays(s)
         \/ StartIteration(s) /\ Place(loop'[s]) = <<"iteration", "top", "none", "none">>
         \/ loop[s].kind = "iteration" /\ Moves(s)
<1> DEFINE Begun == StartIteration(s) /\ Place(loop'[s]) = <<"iteration", "top", "none", "none">>
           Moved == loop[s].kind = "iteration" /\ Moves(s)
<1>0. /\ loop \in [Sessions -> Loop] /\ loop[s] \in Loop
      /\ AtRest.kind = "none"
  BY DEF LoopTypeOK, AtRest
<1>1. ASSUME NEW t \in Sessions, NEW command, Starts(t, command), t # s PROVE Stays(s)
  BY <1>1, OthersStay
<1>2. ASSUME StartIteration(s) PROVE Begun
  <2>1. PICK stepLimit \in BOOLEAN, timeLimit \in BOOLEAN :
          Starts(s, Command("iteration", "top", stepLimit, timeLimit, TRUE))
    BY <1>2 DEF StartIteration
  <2>2. Place(Command("iteration", "top", stepLimit, timeLimit, TRUE)) = <<"iteration", "top", "none", "none">>
    BY DEF Command, AtRest, Place
  <2>3. loop'[s] = Command("iteration", "top", stepLimit, timeLimit, TRUE)
    BY <1>0, <2>1 DEF Starts
  <2> QED BY <1>2, <2>2, <2>3
<1>3. ASSUME StartStep(s) \/ StartCollect(s) PROVE FALSE
  <2>1. \A executes \in BOOLEAN : Command("step", "begin", FALSE, FALSE, executes).kind = "step"
    BY DEF Command, AtRest
  <2>2. Command("collect", "collect", FALSE, FALSE, FALSE).kind = "collect"
    BY DEF Command, AtRest
  <2> QED BY <1>0, <1>3, <2>1, <2>2 DEF StartStep, StartCollect, Starts
<1>4. ASSUME NEW t \in Sessions, StartIteration(t) \/ StartStep(t) \/ StartCollect(t)
      PROVE  Stays(s) \/ Begun
  BY <1>1, <1>2, <1>3, <1>4 DEF StartIteration, StartStep, StartCollect
<1>6. ASSUME NEW t \in Sessions, t # s, LoopStep(t) \/ StepRaises(t) \/ ClockExpires(t) \/ KillCommand(t)
      PROVE  Stays(s)
  BY <1>6, OthersStay
<1>7. ASSUME NEW l, loop' = [loop EXCEPT ![s] = l] PROVE loop'[s] = l
  BY <1>0, <1>7
<1>8. ASSUME StepRaises(s) \/ KillCommand(s) \/ Notify(s) PROVE FALSE
  BY <1>0, <1>7, <1>8 DEF StepRaises, KillCommand, Notify, Ends
<1>9. ASSUME ClockExpires(s) PROVE Stays(s)
  <2>1. loop'[s] = [loop[s] EXCEPT !.expired = TRUE]
    BY <1>0, <1>9 DEF ClockExpires
  <2>2. Place([loop[s] EXCEPT !.expired = TRUE]) = Place(loop[s])
    BY <1>0 DEF Place, Loop
  <2> QED BY <1>9, <2>1, <2>2 DEF ClockExpires, Stays, historyVars
<1>10. ASSUME LoopTop(s) PROVE Moved
  <2>1. CASE Goes(s, "begin") /\ ~OperatorPauseActive
    <3>1. loop'[s] = [loop[s] EXCEPT !.pc = "begin"]
      BY <1>0, <2>1 DEF Goes
    <3>2. loop'[s].pc = "begin" /\ loop'[s].kind = loop[s].kind
      BY <1>0, <3>1 DEF Loop
    <3> QED BY <1>10, <2>1, <3>2 DEF LoopTop, Moves
  <2>2. CASE \E reason \in StopReasons : Stops(s, reason)
    <3>1. PICK reason \in StopReasons : loop'[s] = [loop[s] EXCEPT !.pc = "stop", !.stop = reason]
      BY <1>0, <2>2 DEF Stops
    <3>2. loop'[s].pc = "stop" /\ loop'[s].kind = loop[s].kind
      BY <1>0, <3>1 DEF Loop
    <3> QED BY <1>10, <3>2 DEF LoopTop, Moves
  <2> QED BY <1>10, <2>1, <2>2 DEF LoopTop, StopReasons
<1>11. ASSUME BeginStep(s) PROVE Moved
  <2>1. loop'[s] = [loop[s] EXCEPT !.pc = "agent", !.started = loop[s].started + 1,
                                   !.status = "none", !.execution = "none"]
    BY <1>0, <1>11 DEF BeginStep
  <2>2. loop'[s].pc = "agent" /\ loop'[s].kind = loop[s].kind
    BY <1>0, <2>1 DEF Loop
  <2> QED BY <1>11, <2>2 DEF BeginStep, Moves
<1>12. ASSUME AgentEnds(s) PROVE Moved
  <2>1. \/ loop'[s] = [loop[s] EXCEPT !.pc = "endStep", !.status = "agent_failed"]
        \/ loop'[s] = [loop[s] EXCEPT !.pc = "collect"]
    BY <1>0, <1>12 DEF AgentEnds, Goes
  <2>2. /\ loop'[s].kind = loop[s].kind
        /\ loop'[s].pc = "collect" \/ (loop'[s].pc = "endStep" /\ loop'[s].status = "agent_failed")
    BY <1>0, <2>1 DEF Loop
  <2> QED BY <1>12, <2>2 DEF AgentEnds, Moves
<1>13. ASSUME Collect(s) PROVE Moved
  <2>1. loop'[s] = [loop[s] EXCEPT !.pc = "ingest"]
    BY <1>0, <1>13 DEF Collect, Goes
  <2>2. loop'[s].pc = "ingest" /\ loop'[s].kind = loop[s].kind
    BY <1>0, <2>1 DEF Loop
  <2> QED BY <1>13, <2>2 DEF Collect, Moves
<1>14. ASSUME Collected(s) PROVE Moved
  <2>1. loop'[s] = [loop[s] EXCEPT !.status = ingest[s].status,
                      !.pc = IF ingest[s].status = "ingested" /\ loop[s].executes
                               THEN "execute" ELSE "endStep"]
    BY <1>0, <1>7, <1>14 DEF Collected, Ends
  <2>2. /\ loop'[s].kind = loop[s].kind /\ loop'[s].status = ingest[s].status
        /\ loop'[s].pc = "endStep" \/ (loop'[s].pc = "execute" /\ ingest[s].status = "ingested")
    BY <1>0, <2>1 DEF Loop
  <2> QED BY <1>14, <2>2 DEF Collected, Moves
<1>15. ASSUME ExecuteNextAction(s) PROVE Moved
  <2>1. \/ \E how \in {"skipped", "completed", "incomplete"} :
             loop'[s] = [loop[s] EXCEPT !.pc = "endStep", !.execution = how]
        \/ loop'[s] = [loop[s] EXCEPT !.pc = "endStep", !.status = "execution_failed"]
    BY <1>0, <1>15 DEF ExecuteNextAction
  <2>2. /\ loop'[s].kind = loop[s].kind /\ loop'[s].pc = "endStep"
        /\ loop'[s].status \in {loop[s].status, "execution_failed"}
    BY <1>0, <2>1 DEF Loop
  <2> QED BY <1>15, <2>2 DEF ExecuteNextAction, Moves
<1>16. ASSUME EndStep(s) PROVE Moved
  <2>1. /\ loop[s].pc = "endStep" /\ loop[s].kind = "iteration"
        /\ \E stop \in StopReasons, pc \in {"top", "stop"} :
             /\ loop'[s] = [[loop[s] EXCEPT !.completed = loop[s].completed + 1]
                              EXCEPT !.stop = stop, !.pc = pc]
             /\ pc = "top" => StopReason(s) = "none" /\ ~OperatorPauseActive
    <3>1. ~Ends(s)
      BY <1>0, <1>7 DEF Ends
    <3>2. StopReason(s) \in StopReasons
      BY <1>0, StopReasonIsTyped
    <3> QED BY <1>0, <1>16, <3>1, <3>2 DEF EndStep, StopReasons
  <2>2. /\ loop'[s].kind = loop[s].kind
        /\ loop'[s].pc = "stop" \/ (loop'[s].pc = "top" /\ StopReason(s) = "none" /\ ~OperatorPauseActive)
    BY <1>0, <2>1 DEF Loop
  <2> QED BY <1>16, <2>1, <2>2 DEF Moves
<1>17. ASSUME WriteResult(s) PROVE Moved
  <2>1. loop'[s] = [loop[s] EXCEPT !.pc = "notify"]
    BY <1>0, <1>17 DEF WriteResult, Goes
  <2>2. loop'[s].pc = "notify" /\ loop'[s].kind = loop[s].kind
    BY <1>0, <2>1 DEF Loop
  <2> QED BY <1>17, <2>2 DEF WriteResult, Moves
<1>18. ASSUME Pause \/ Resume \/ UNCHANGED loopVars \/ UNCHANGED vars PROVE Stays(s)
  <2>1. UNCHANGED <<loop, fresh, trail>> /\ (Resume \/ (pausedRuns' = pausedRuns /\ (Pause \/ controls' = controls)))
    BY <1>18 DEF Pause, Resume, loopVars, vars, historyVars
  <2> QED BY <2>1 DEF Stays
<1> HIDE DEF Begun, Moved
<1>19. ASSUME NEW t \in Sessions, LoopStep(t) \/ StepRaises(t) \/ ClockExpires(t) \/ KillCommand(t)
       PROVE  Stays(s) \/ Moved
  <2>1. CASE t # s
    BY <1>6, <1>19, <2>1
  <2>2. CASE t = s
    BY <1>8, <1>9, <1>10, <1>11, <1>12, <1>13, <1>14, <1>15, <1>16, <1>17, <1>19, <2>2 DEF LoopStep
  <2> QED BY <2>1, <2>2
<1>20. Stays(s) \/ Begun \/ Moved
  <2>1. CASE \E t \in Sessions : StartIteration(t) \/ StartStep(t) \/ StartCollect(t)
    BY <1>4, <2>1
  <2>2. CASE \E t \in Sessions : LoopStep(t) \/ StepRaises(t) \/ ClockExpires(t) \/ KillCommand(t)
    BY <1>19, <2>2
  <2>3. CASE Pause \/ Resume \/ UNCHANGED loopVars \/ UNCHANGED vars
    BY <1>18, <2>3
  <2>4. CASE Next
    <3>1. \/ \E t \in Loopers : StartIteration(t) \/ StartStep(t)
          \/ \E t \in Collectors : StartCollect(t)
          \/ \E t \in Sessions : LoopStep(t) \/ StepRaises(t) \/ ClockExpires(t) \/ KillCommand(t)
          \/ Pause \/ Resume \/ UNCHANGED loopVars
      BY <2>4 DEF Next
    <3> QED BY <2>1, <2>2, <2>3, <3>1, SessionsHaveCommands
  <2> QED BY <2>3, <2>4
<1> QED BY <1>20 DEF Begun, Moved

-----------------------------------------------------------------------------
(* The operator's pause *)

\* latest_campaign_pause_state finds what the operator last said.
LEMMA PauseIsTheLast ==
  ASSUME controls \in Seq({"campaign_paused", "campaign_resumed"})
  PROVE  OperatorPauseActive <=> Paused
<1>1. ASSUME Paused PROVE OperatorPauseActive
  <2>1. Len(controls) \in DOMAIN controls /\ \A j \in DOMAIN controls : ~(j > Len(controls))
    BY <1>1 DEF Paused
  <2> QED BY <1>1, <2>1 DEF Paused, OperatorPauseActive
<1>2. ASSUME OperatorPauseActive PROVE Paused
  <2>1. PICK i \in DOMAIN controls :
          /\ controls[i] = "campaign_paused"
          /\ \A j \in DOMAIN controls : j > i => controls[j] # "campaign_resumed"
    BY <1>2 DEF OperatorPauseActive
  <2>2. /\ controls # <<>> /\ Len(controls) \in DOMAIN controls
        /\ i = Len(controls) \/ Len(controls) > i
    BY <2>1
  <2>3. controls[Len(controls)] \in {"campaign_paused", "campaign_resumed"}
    BY <2>2
  <2>4. controls[Len(controls)] # "campaign_resumed"
    BY <2>1, <2>2
  <2> QED BY <2>2, <2>3, <2>4 DEF Paused
<1> QED BY <1>1, <1>2

\* What the agents started under the active pause say of the loop's place.
PausedOf(s) ==
  loop[s].kind = "iteration" =>
    /\ ~Paused => pausedRuns[s].count = 0 /\ ~pausedRuns[s].fromStart
    /\ loop[s].pc \in {"top", "begin"} => pausedRuns[s].count = 0
    /\ pausedRuns[s].fromStart =>
         pausedRuns[s].count = 0 /\ loop[s].pc \in {"top", "stop", "notify"}
    /\ pausedRuns[s].count \in {0, 1}

\* Every step keeps it.
LEMMA PausedStep ==
  ASSUME LoopTypeOK, TrailShape, [Next]_vars, NEW s \in Sessions, PausedOf(s)
  PROVE  PausedOf(s)'
<1> SUFFICES ASSUME loop'[s].kind = "iteration" PROVE PausedOf(s)'
  BY DEF PausedOf
<1>0. /\ OperatorPauseActive <=> Paused
      /\ pausedRuns \in [Sessions -> [count : Nat, fromStart : BOOLEAN]]
  BY PauseIsTheLast DEF LoopTypeOK
<1>1. CASE Stays(s)
  <2>0. loop[s].kind = "iteration" /\ loop'[s].pc = loop[s].pc
    BY <1>1 DEF Stays, Place
  <2>1. CASE Resume
    <3>1. pausedRuns'[s].count = 0 /\ pausedRuns'[s].fromStart = FALSE
      BY <2>1 DEF Resume
    <3> QED BY <3>1 DEF PausedOf
  <2>2. CASE pausedRuns'[s] = pausedRuns[s] /\ controls' = controls
    BY <2>0, <2>2 DEF PausedOf, Paused
  <2>3. CASE pausedRuns'[s] = pausedRuns[s] /\ Pause
    <3>1. Paused'
      <4>1. /\ controls \in Seq({"campaign_paused", "campaign_resumed"})
            /\ controls' = Append(controls, "campaign_paused")
        BY <2>3 DEF Pause, LoopTypeOK
      <4>2. Len(controls') = Len(controls) + 1 /\ controls'[Len(controls) + 1] = "campaign_paused"
        BY <4>1
      <4>3. controls' # <<>>
        BY <4>1
      <4> QED BY <4>2, <4>3 DEF Paused
    <3> QED BY <2>0, <2>3, <3>1 DEF PausedOf
  <2> QED BY <1>1, <2>1, <2>2, <2>3 DEF Stays
<1>2. CASE StartIteration(s) /\ Place(loop'[s]) = <<"iteration", "top", "none", "none">>
  <2>1. pausedRuns'[s] = [count |-> 0, fromStart |-> Paused] /\ controls' = controls
    BY <1>0, <1>2 DEF StartIteration, Starts
  <2>2. loop'[s].pc = "top"
    BY <1>2 DEF Place
  <2>3. Paused' <=> Paused
    BY <2>1 DEF Paused
  <2>4. pausedRuns'[s].count = 0 /\ pausedRuns'[s].fromStart = Paused
    BY <2>1
  <2>5. ~Paused => ~pausedRuns'[s].fromStart
    BY <2>4
  <2> QED BY <2>2, <2>3, <2>4, <2>5 DEF PausedOf
<1>3. CASE loop[s].kind = "iteration" /\ BeginStep(s) /\ loop[s].pc = "begin" /\ loop'[s].pc = "agent"
  <2>1. Paused' <=> Paused
    BY <1>3 DEF BeginStep, Paused
  <2>2. /\ pausedRuns'[s].count = IF Paused THEN 1 ELSE 0
        /\ pausedRuns'[s].fromStart = pausedRuns[s].fromStart
    <3>1. CASE Paused
      <4>1. pausedRuns' = [pausedRuns EXCEPT ![s].count = @ + 1]
        BY <1>3, <3>1 DEF BeginStep
      <4>2. pausedRuns[s].count = 0
        BY <1>3 DEF PausedOf
      <4>3. /\ pausedRuns'[s].count = pausedRuns[s].count + 1
            /\ pausedRuns'[s].fromStart = pausedRuns[s].fromStart
        BY <1>0, <4>1
      <4> QED BY <3>1, <4>2, <4>3
    <3>2. CASE ~Paused
      <4>1. pausedRuns' = [pausedRuns EXCEPT ![s].count = @]
        BY <1>3, <3>2 DEF BeginStep
      <4>2. pausedRuns[s].count = 0
        BY <1>3 DEF PausedOf
      <4> QED BY <1>0, <3>2, <4>1, <4>2
    <3> QED BY <3>1, <3>2
  <2>3. ~pausedRuns[s].fromStart
    BY <1>3 DEF PausedOf
  <2> QED BY <1>3, <2>1, <2>2, <2>3 DEF PausedOf
<1>4. ASSUME loop[s].kind = "iteration", Moves(s), ~BeginStep(s) PROVE PausedOf(s)'
  <2>1. UNCHANGED <<controls, pausedRuns>>
    BY <1>4 DEF Moves, LoopTop, AgentEnds, Collect, Collected, ExecuteNextAction, EndStep,
       WriteResult, historyVars
  <2>2. /\ loop'[s].pc = "begin" => loop[s].pc = "top" /\ ~Paused
        /\ loop'[s].pc = "top" => loop[s].pc = "endStep" /\ ~Paused
        /\ loop[s].pc = "top" /\ Paused => loop'[s].pc = "stop"
        /\ loop[s].pc = "stop" => loop'[s].pc = "notify"
        /\ loop[s].pc # "notify"
    BY <1>0, <1>4 DEF Moves
  <2>3. Paused' <=> Paused
    BY <2>1 DEF Paused
  <2> QED BY <1>4, <2>1, <2>2, <2>3 DEF PausedOf
<1>5. loop[s].kind = "iteration" /\ BeginStep(s) /\ Moves(s) => loop[s].pc = "begin" /\ loop'[s].pc = "agent"
  BY DEF Moves, BeginStep, LoopTop, AgentEnds, Collect, Collected, ExecuteNextAction, EndStep, WriteResult
<1> QED BY <1>1, <1>2, <1>3, <1>4, <1>5, IterationMoves

\* A pause is honoured: run_autonomous_iteration runs no agent under a pause it
\* began under, and at most one after a pause that reaches it.
THEOREM Pauses == Spec => []PauseHonoured
<1> DEFINE PauseInv == TrailShape /\ \A s \in Sessions : PausedOf(s)
<1>1. Init => PauseInv
  BY DEF Init, TrailShape, PausedOf, AtRest
<1>2. TypeOK /\ PauseInv /\ [Next]_vars => PauseInv'
  BY TrailShapeStep, PausedStep DEF TypeOK, LoopTypeOK
<1>3. TypeOK /\ PauseInv => PauseHonoured
  BY DEF TypeOK, PausedOf, PauseHonoured
<1> QED BY <1>1, <1>2, <1>3, TypeCorrect, PTL DEF Spec

-----------------------------------------------------------------------------
(* The reasons to stop *)

\* What a step does to the ingestion of session s.
LEMMA IngestMoves ==
  ASSUME IngestionTypeOK, [Next]_vars, NEW s \in Sessions
  PROVE  \/ ingest'[s] = ingest[s]
         \/ IngestStep(s) /\ UNCHANGED loopVars
         \/ Collect(s)
         \/ KillCommand(s)
<1>0. ingest \in [Sessions -> Ingestion]
  BY DEF IngestionTypeOK
<1>1. ASSUME NEW t \in Sessions, t # s, NEW i, ingest' = [ingest EXCEPT ![t] = i]
      PROVE  ingest'[s] = ingest[s]
  BY <1>0, <1>1
<1>2. ASSUME NEW t \in Sessions, t # s, Collect(t) \/ KillCommand(t)
      PROVE  ingest'[s] = ingest[s]
  BY <1>1, <1>2 DEF Collect, Begin, KillCommand, Kill, Returns
<1>3. ASSUME NEW t \in Sessions, t # s, IngestStep(t) PROVE ingest'[s] = ingest[s]
  <2>1. ASSUME NEW pc, To(t, pc) PROVE ingest'[s] = ingest[s]
    BY <1>0, <1>3, <2>1 DEF To
  <2>2. ASSUME NEW status, Returns(t, status) PROVE ingest'[s] = ingest[s]
    BY <1>1, <1>3, <2>2 DEF Returns
  <2>3. CASE Discover(t)
    BY <1>1, <1>3, <2>2, <2>3 DEF Discover
  <2>4. CASE Check(t)
    BY <1>1, <1>3, <2>2, <2>4 DEF Check
  <2>5. CASE Copy(t)
    BY <2>1, <2>2, <2>5 DEF Copy
  <2>6. CASE CopyEnds(t)
    BY <2>1, <2>6 DEF CopyEnds
  <2>7. CASE Index(t)
    BY <2>1, <2>2, <2>7 DEF Index
  <2>8. CASE Record(t) \/ Announce(t)
    BY <2>1, <2>8 DEF Record, Announce
  <2>9. CASE Mark(t)
    BY <1>1, <1>3, <2>9 DEF Mark
  <2> QED BY <1>3, <2>3, <2>4, <2>5, <2>6, <2>7, <2>8, <2>9 DEF IngestStep
<1>4. ASSUME NEW t \in Sessions,
             \/ StartIteration(t) \/ StartStep(t) \/ StartCollect(t) \/ LoopTop(t) \/ BeginStep(t)
             \/ AgentEnds(t) \/ Collected(t) \/ ExecuteNextAction(t) \/ EndStep(t)
             \/ WriteResult(t) \/ Notify(t) \/ StepRaises(t) \/ ClockExpires(t)
      PROVE  UNCHANGED ingest
  BY <1>4 DEF StartIteration, StartStep, StartCollect, Starts, LoopTop, BeginStep, AgentEnds,
     Collected, ExecuteNextAction, EndStep, WriteResult, Notify, StepRaises, ClockExpires, ingestionVars
<1>5. ASSUME Pause \/ Resume \/ (\E a \in Artifacts : Discard(a)) \/ UNCHANGED vars
      PROVE  UNCHANGED ingest
  BY <1>5 DEF Pause, Resume, Discard, vars, ingestionVars
<1>6. CASE Next
  <2>1. \/ \E t \in Sessions :
             \/ StartIteration(t) \/ StartStep(t) \/ StartCollect(t) \/ LoopTop(t) \/ BeginStep(t)
             \/ AgentEnds(t) \/ Collected(t) \/ ExecuteNextAction(t) \/ EndStep(t)
             \/ WriteResult(t) \/ Notify(t) \/ StepRaises(t) \/ ClockExpires(t)
        \/ \E t \in Sessions : Collect(t) \/ KillCommand(t)
        \/ \E t \in Sessions : IngestStep(t) /\ UNCHANGED loopVars
        \/ Pause \/ Resume \/ (\E a \in Artifacts : Discard(a))
    BY <1>6, SessionsHaveCommands DEF Next, LoopStep
  <2>2. CASE \E t \in Sessions : Collect(t) \/ KillCommand(t)
    BY <1>2, <2>2
  <2>3. CASE \E t \in Sessions : IngestStep(t) /\ UNCHANGED loopVars
    BY <1>3, <2>3
  <2> QED BY <1>4, <1>5, <2>1, <2>2, <2>3
<1> QED BY <1>5, <1>6

\* collect_agent_handoff ends by saying how.
LEMMA IngestionSaysHow ==
  ASSUME IngestionTypeOK, NEW s \in Sessions, IngestStep(s)
  PROVE  /\ ingest[s].pc # "idle"
         /\ ingest'[s].pc = "idle" => ingest'[s].status # "none"
<1>0. ingest \in [Sessions -> Ingestion] /\ ingest[s] \in Ingestion
  BY DEF IngestionTypeOK
<1>1. ingest[s].pc # "idle"
  BY DEF IngestStep, Discover, Check, Copy, CopyEnds, Index, Record, Announce, Mark, At
<1> SUFFICES ingest'[s].pc = "idle" => ingest'[s].status # "none"
  BY <1>1
<1>2. ASSUME NEW pc \in IngestPcs \ {"idle"}, To(s, pc) PROVE ingest'[s].pc # "idle"
  BY <1>0, <1>2 DEF To
<1>3. ASSUME NEW pc, NEW a, NEW status, status # "none" \/ pc # "idle",
             ingest' = [ingest EXCEPT ![s] = Stage(pc, a, status)]
      PROVE  ingest'[s].pc = "idle" => ingest'[s].status # "none"
  <2>1. ingest'[s].pc = pc /\ ingest'[s].status = status
    BY <1>0, <1>3 DEF Stage
  <2> QED BY <1>3, <2>1
<1>4. ASSUME NEW status, status # "none", Returns(s, status)
      PROVE  ingest'[s].pc = "idle" => ingest'[s].status # "none"
  BY <1>3, <1>4 DEF Returns, Resting
<1>5. CASE Discover(s)
  BY <1>3, <1>4, <1>5 DEF Discover
<1>6. CASE Check(s)
  BY <1>3, <1>4, <1>6 DEF Check
<1>7. CASE Copy(s)
  BY <1>2, <1>4, <1>7 DEF Copy, IngestPcs
<1>8. CASE CopyEnds(s)
  BY <1>2, <1>8 DEF CopyEnds, IngestPcs
<1>9. CASE Index(s)
  BY <1>2, <1>4, <1>9 DEF Index, IngestPcs
<1>10. CASE Record(s) \/ Announce(s)
  BY <1>2, <1>10 DEF Record, Announce, IngestPcs
<1>11. CASE Mark(s)
  BY <1>3, <1>11 DEF Mark
<1> QED BY <1>5, <1>6, <1>7, <1>8, <1>9, <1>10, <1>11 DEF IngestStep

\* A step after which the loop may go on.
Harmless(step) ==
  \/ step[1] = "research_note" /\ step[2] = "ingested"
  \/ step[1] \in {"candidate_submission", "evaluation_request"} /\ step[3] = "completed"

\* Within a step nothing has stopped the loop yet, and a step that is over says
\* how it went.
OngoingOf(s) ==
  loop[s].kind = "iteration" =>
    /\ loop[s].pc \in {"top", "begin"} \cup InStep => \A step \in trail[s] : Harmless(step)
    /\ loop[s].pc = "ingest" /\ ingest[s].pc = "idle" => ingest[s].status # "none"
    /\ loop[s].pc = "execute" => loop[s].status = "ingested"
    /\ loop[s].pc = "endStep" => loop[s].status # "none"

\* _stop_reason_from_step lets the loop go on after a harmless step only.
LEMMA GoesOnAfterHarmless ==
  ASSUME NEW s \in Sessions, StopReason(s) = "none", loop[s].status # "none"
  PROVE  /\ loop[s].status = "ingested"
         /\ Harmless(<<Handoff(s), loop[s].status, loop[s].execution>>)
<1>1. loop[s].status = "ingested"
  BY DEF StopReason
<1>2. \/ Handoff(s) = "research_note"
      \/ Handoff(s) \in {"candidate_submission", "evaluation_request"} /\ loop[s].execution = "completed"
  BY <1>1 DEF StopReason
<1> QED BY <1>1, <1>2 DEF Harmless

\* A session whose loop stays may ingest, or be where nothing is ingested.
LEMMA StayingIngests ==
  ASSUME IngestionTypeOK, LoopTypeOK, [Next]_vars, NEW s \in Sessions, Stays(s),
         loop[s].kind = "iteration"
  PROVE  ingest'[s] = ingest[s] \/ (IngestStep(s) /\ UNCHANGED loopVars)
<1>0. loop \in [Sessions -> Loop] /\ loop[s] \in Loop
  BY DEF LoopTypeOK
<1>1. ASSUME Collect(s) PROVE FALSE
  <2>1. loop'[s].pc = "ingest" /\ loop[s].pc = "collect"
    BY <1>0, <1>1 DEF Collect, Goes, Loop
  <2> QED BY <2>1 DEF Stays, Place
<1>2. ASSUME KillCommand(s) PROVE FALSE
  <2>1. loop'[s].kind = "none"
    BY <1>0, <1>2 DEF KillCommand, Ends, AtRest
  <2> QED BY <2>1 DEF Stays, Place
<1> QED BY <1>1, <1>2, IngestMoves

\* Every step keeps it.
LEMMA OngoingStep ==
  ASSUME IngestionTypeOK, LoopTypeOK, TrailShape, [Next]_vars, NEW s \in Sessions, OngoingOf(s)
  PROVE  OngoingOf(s)'
<1> SUFFICES ASSUME loop'[s].kind = "iteration" PROVE OngoingOf(s)'
  BY DEF OngoingOf
<1>0. /\ ingest \in [Sessions -> Ingestion] /\ ingest[s] \in Ingestion
      /\ DOMAIN trail = Sessions
  BY DEF IngestionTypeOK, TrailShape
<1>1. CASE Stays(s)
  <2>1. /\ loop[s].kind = "iteration" /\ loop'[s].pc = loop[s].pc
        /\ loop'[s].status = loop[s].status /\ trail'[s] = trail[s]
    BY <1>1 DEF Stays, Place
  <2>2. ingest'[s].pc = "idle" => ingest'[s] = ingest[s] \/ ingest'[s].status # "none"
    BY <1>1, <2>1, StayingIngests, IngestionSaysHow
  <2> QED BY <2>1, <2>2 DEF OngoingOf
<1>2. CASE StartIteration(s) /\ Place(loop'[s]) = <<"iteration", "top", "none", "none">>
  <2>1. loop'[s].pc = "top"
    BY <1>2 DEF Place
  <2>2. trail'[s] = {}
    BY <1>0, <1>2 DEF StartIteration, Starts
  <2> QED BY <2>1, <2>2 DEF OngoingOf
<1>3. CASE loop[s].kind = "iteration" /\ Moves(s)
  <2>1. CASE LoopTop(s) /\ loop[s].pc = "top" /\ loop'[s].pc \in {"stop", "begin"}
    <3>1. UNCHANGED trail
      BY <2>1 DEF LoopTop, historyVars
    <3> QED BY <1>3, <2>1, <3>1 DEF OngoingOf, InStep
  <2>2. CASE BeginStep(s) /\ loop[s].pc = "begin" /\ loop'[s].pc = "agent"
    <3>1. UNCHANGED trail
      BY <2>2 DEF BeginStep
    <3> QED BY <1>3, <2>2, <3>1 DEF OngoingOf, InStep
  <2>3. CASE AgentEnds(s) /\ loop[s].pc = "agent" /\
               (loop'[s].pc = "collect" \/ (loop'[s].pc = "endStep" /\ loop'[s].status = "agent_failed"))
    <3>1. UNCHANGED trail
      BY <2>3 DEF AgentEnds
    <3> QED BY <1>3, <2>3, <3>1 DEF OngoingOf, InStep
  <2>4. CASE Collect(s) /\ loop[s].pc = "collect" /\ loop'[s].pc = "ingest"
    <3>1. UNCHANGED trail
      BY <2>4 DEF Collect, historyVars
    <3>2. ingest'[s].pc = "discover"
      BY <1>0, <2>4 DEF Collect, Begin, Stage
    <3> QED BY <1>3, <2>4, <3>1, <3>2 DEF OngoingOf, InStep
  <2>5. CASE Collected(s) /\ loop[s].pc = "ingest" /\ At(s, "idle")
             /\ loop'[s].status = ingest[s].status /\
               (loop'[s].pc = "endStep" \/ (loop'[s].pc = "execute" /\ loop'[s].status = "ingested"))
    <3>1. UNCHANGED trail
      BY <2>5 DEF Collected, historyVars
    <3>2. ingest[s].status # "none"
      BY <1>3, <2>5 DEF OngoingOf, At
    <3> QED BY <1>3, <2>5, <3>1, <3>2 DEF OngoingOf, InStep
  <2>6. CASE ExecuteNextAction(s) /\ loop[s].pc = "execute" /\ loop'[s].pc = "endStep"
             /\ loop'[s].status \in {loop[s].status, "execution_failed"}
    <3>1. UNCHANGED trail
      BY <2>6 DEF ExecuteNextAction, historyVars
    <3>2. loop'[s].status # "none"
      BY <1>3, <2>6 DEF OngoingOf
    <3> QED BY <1>3, <2>6, <3>1, <3>2 DEF OngoingOf, InStep
  <2>7. CASE EndStep(s) /\ loop[s].pc = "endStep" /\
               (loop'[s].pc = "stop" \/ (loop'[s].pc = "top" /\ StopReason(s) = "none"))
    <3>1. CASE loop'[s].pc = "stop"
      BY <3>1 DEF OngoingOf, InStep
    <3>2. CASE loop'[s].pc = "top" /\ StopReason(s) = "none"
      <4>1. loop[s].status # "none" /\ \A step \in trail[s] : Harmless(step)
        BY <1>3, <2>7 DEF OngoingOf, InStep
      <4>2. trail'[s] = trail[s] \cup {<<Handoff(s), loop[s].status, loop[s].execution>>}
        BY <1>0, <2>7 DEF EndStep
      <4>3. \A step \in trail'[s] : Harmless(step)
        BY <3>2, <4>1, <4>2, GoesOnAfterHarmless
      <4> QED BY <3>2, <4>3 DEF OngoingOf
    <3> QED BY <2>7, <3>1, <3>2
  <2>8. CASE WriteResult(s) /\ loop'[s].pc = "notify"
    BY <2>8 DEF OngoingOf, InStep
  <2> QED BY <1>3, <2>1, <2>2, <2>3, <2>4, <2>5, <2>6, <2>7, <2>8 DEF Moves
<1> QED BY <1>1, <1>2, <1>3, IterationMoves

\* The loop goes on only after a Research Note, a completed Candidate Run or a
\* completed Post-Run Evaluation: everything else waits for a human.
THEOREM HumanDecides == Spec => []StopsForHuman
<1> DEFINE Ongoing == TrailShape /\ \A s \in Sessions : OngoingOf(s)
<1>1. Init => Ongoing
  BY DEF Init, TrailShape, OngoingOf, AtRest
<1>2. TypeOK /\ Ongoing /\ [Next]_vars => Ongoing'
  BY TrailShapeStep, OngoingStep DEF TypeOK, LoopTypeOK
<1>3. Ongoing => StopsForHuman
  BY DEF OngoingOf, StopsForHuman, Harmless, InStep
<1> QED BY <1>1, <1>2, <1>3, TypeCorrect, PTL DEF Spec

-----------------------------------------------------------------------------
(* The handoff of the step *)

\* Only a command at its ingestion ingests, and a loop in progress is not at rest.
Quiet ==
  \A s \in Sessions :
    /\ loop[s].pc # "ingest" => ingest[s].pc = "idle"
    /\ loop[s].kind = "iteration" => loop[s].pc # "idle"

\* A command that no other one overlapped is alone.
Alone ==
  \A s \in Sessions \ shared, t \in Sessions :
    loop[s].pc # "idle" /\ loop[t].pc # "idle" => t = s

\* What an iteration alone in the workspace finds there.
FreshOf(s) ==
  loop[s].kind = "iteration" /\ s \notin shared =>
    /\ loop[s].pc \in {"top", "begin", "agent"} => Uningested = {}
    /\ loop[s].pc \in {"collect", "ingest"} => Uningested \subseteq fresh[s]
    /\ loop[s].pc = "ingest" /\ ingest[s].pc \notin {"idle", "discover"} =>
         Uningested = {Artifact(s)}
    /\ loop[s].pc = "ingest" /\ ingest[s].pc = "idle" /\ ingest[s].status = "ingested" =>
         Uningested = {}
    /\ loop[s].pc \in {"execute", "endStep"} /\ loop[s].status = "ingested" => Uningested = {}

\* A command leaves its ingestion when that is over, or is killed in it.
LEMMA LeavesIngestion ==
  ASSUME LoopTypeOK, TrailShape, [Next]_vars, NEW s \in Sessions,
         loop[s].pc = "ingest", loop'[s].pc # "ingest"
  PROVE  Collected(s) \/ KillCommand(s)
<1>0. loop \in [Sessions -> Loop] /\ loop[s] \in Loop
  BY DEF LoopTypeOK
<1>1. ~Stays(s)
  BY DEF Stays, Place
<1>2. ASSUME NEW t \in Sessions, LoopStep(t) \/ StepRaises(t) \/ ClockExpires(t) \/ KillCommand(t)
      PROVE  t = s
  BY <1>1, <1>2, OthersStay
<1>3. ASSUME NEW t \in Sessions, NEW command, Starts(t, command) PROVE FALSE
  <2>1. t # s
    BY <1>3 DEF Starts
  <2> QED BY <1>1, <1>3, <2>1, OthersStay
<1>4. ASSUME LoopStep(s) PROVE Collected(s)
  BY <1>4 DEF LoopStep, LoopTop, BeginStep, AgentEnds, Collect, ExecuteNextAction, EndStep,
     WriteResult, Notify
<1>5. ~StepRaises(s)
  BY DEF StepRaises
<1>6. ~ClockExpires(s)
  <2>1. loop' = [loop EXCEPT ![s].expired = TRUE] => loop'[s].pc = loop[s].pc
    BY <1>0 DEF Loop
  <2> QED BY <2>1 DEF ClockExpires
<1>7. ~(Pause \/ Resume \/ UNCHANGED loopVars \/ UNCHANGED vars)
  BY DEF Pause, Resume, loopVars, vars
<1> QED
  <2>1. \/ \E t \in Sessions : \E command : Starts(t, command)
        \/ \E t \in Sessions : LoopStep(t) \/ StepRaises(t) \/ ClockExpires(t) \/ KillCommand(t)
        \/ Pause \/ Resume \/ UNCHANGED loopVars \/ UNCHANGED vars
    BY SessionsHaveCommands DEF Next, StartIteration, StartStep, StartCollect
  <2> QED BY <1>2, <1>3, <1>4, <1>5, <1>6, <1>7, <2>1

\* Every step keeps Quiet.
LEMMA QuietStep ==
  ASSUME IngestionTypeOK, LoopTypeOK, TrailShape, [Next]_vars, Quiet
  PROVE  Quiet'
<1> SUFFICES ASSUME NEW s \in Sessions
             PROVE  /\ loop'[s].pc # "ingest" => ingest'[s].pc = "idle"
                    /\ loop'[s].kind = "iteration" => loop'[s].pc # "idle"
  BY DEF Quiet
<1>0. /\ loop \in [Sessions -> Loop] /\ loop[s] \in Loop
      /\ ingest \in [Sessions -> Ingestion]
  BY DEF LoopTypeOK, IngestionTypeOK
<1>1. ASSUME loop'[s].pc # "ingest" PROVE ingest'[s].pc = "idle"
  <2>1. CASE KillCommand(s)
    BY <1>0, <2>1 DEF KillCommand, Kill, Returns, Resting, Stage
  <2>2. CASE Collect(s)
    <3>1. loop'[s].pc = "ingest"
      BY <1>0, <2>2 DEF Collect, Goes, Loop
    <3> QED BY <1>1, <3>1
  <2>3. CASE IngestStep(s) /\ UNCHANGED loopVars
    <3>1. ingest[s].pc # "idle" /\ loop' = loop
      BY <2>3, IngestionSaysHow DEF loopVars
    <3> QED BY <1>1, <3>1 DEF Quiet
  <2>4. CASE ingest'[s] = ingest[s] /\ ~KillCommand(s)
    <3>1. CASE loop[s].pc # "ingest"
      BY <2>4, <3>1 DEF Quiet
    <3>2. CASE loop[s].pc = "ingest"
      BY <1>1, <2>4, <3>2, LeavesIngestion DEF Collected, At
    <3> QED BY <3>1, <3>2
  <2> QED BY <2>1, <2>2, <2>3, <2>4, IngestMoves
<1>2. ASSUME loop'[s].kind = "iteration" PROVE loop'[s].pc # "idle"
  <2>1. CASE Stays(s)
    BY <1>2, <2>1 DEF Stays, Place, Quiet
  <2>2. CASE Place(loop'[s]) = <<"iteration", "top", "none", "none">>
    BY <2>2 DEF Place
  <2>3. CASE Moves(s)
    BY <2>3 DEF Moves
  <2> QED BY <1>2, <2>1, <2>2, <2>3, IterationMoves
<1> QED BY <1>1, <1>2

\* Every step keeps Alone: a command that starts beside another one is shared.
LEMMA AloneStep ==
  ASSUME LoopTypeOK, [Next]_vars, Alone
  PROVE  Alone'
<1>0. loop \in [Sessions -> Loop]
  BY DEF LoopTypeOK
<1>1. ASSUME NEW t \in Sessions, NEW command, Starts(t, command) PROVE Alone'
  <2>1. CASE Active = {}
    BY <1>0, <1>1, <2>1 DEF Starts, Active, Alone
  <2>2. CASE Active # {}
    BY <1>0, <1>1, <2>2 DEF Starts, Active, Alone
  <2> QED BY <2>1, <2>2
<1>2. ASSUME UNCHANGED shared, \A u \in Sessions : loop'[u].pc # "idle" => loop[u].pc # "idle"
      PROVE  Alone'
  BY <1>2 DEF Alone
<1>3. ASSUME NEW t \in Sessions, NEW l, loop' = [loop EXCEPT ![t] = l],
             UNCHANGED shared, loop[t].pc # "idle"
      PROVE  Alone'
  BY <1>0, <1>2, <1>3
<1>4. ASSUME NEW t \in Sessions, LoopStep(t) \/ StepRaises(t) \/ KillCommand(t) PROVE Alone'
  <2>1. UNCHANGED shared /\ loop[t].pc # "idle"
    BY <1>4 DEF LoopStep, LoopTop, BeginStep, AgentEnds, Collect, Collected, ExecuteNextAction,
       EndStep, WriteResult, Notify, StepRaises, KillCommand, historyVars
  <2>2. ASSUME NEW l, loop' = [loop EXCEPT ![t] = l] PROVE Alone'
    BY <1>3, <2>1, <2>2
  <2>3. ASSUME LoopTop(t) \/ Collect(t) \/ Collected(t) \/ WriteResult(t) \/ Notify(t)
               \/ StepRaises(t) \/ KillCommand(t)
        PROVE  Alone'
    BY <2>2, <2>3 DEF LoopTop, Collect, Collected, WriteResult, Notify, StepRaises, KillCommand,
       Goes, Stops, Ends
  <2>4. ASSUME BeginStep(t) PROVE Alone'
    BY <2>2, <2>4 DEF BeginStep
  <2>5. ASSUME AgentEnds(t) \/ ExecuteNextAction(t) PROVE Alone'
    BY <2>2, <2>5 DEF AgentEnds, ExecuteNextAction, Goes
  <2>6. ASSUME EndStep(t) PROVE Alone'
    BY <2>2, <2>6 DEF EndStep, Ends
  <2> QED BY <1>4, <2>3, <2>4, <2>5, <2>6 DEF LoopStep
<1>5. ASSUME NEW t \in Sessions, ClockExpires(t) PROVE Alone'
  <2>1. loop' = [loop EXCEPT ![t].expired = TRUE] => \A u \in Sessions : loop'[u].pc = loop[u].pc
    BY <1>0 DEF Loop
  <2>2. UNCHANGED shared /\ loop' = [loop EXCEPT ![t].expired = TRUE]
    BY <1>5 DEF ClockExpires, historyVars
  <2> QED BY <1>2, <2>1, <2>2
<1>6. ASSUME Pause \/ Resume \/ UNCHANGED loopVars \/ UNCHANGED vars PROVE Alone'
  BY <1>2, <1>6 DEF Pause, Resume, loopVars, vars, historyVars
<1> QED
  <2>1. \/ \E t \in Sessions : \E command : Starts(t, command)
        \/ \E t \in Sessions : LoopStep(t) \/ StepRaises(t) \/ ClockExpires(t) \/ KillCommand(t)
        \/ Pause \/ Resume \/ UNCHANGED loopVars \/ UNCHANGED vars
    BY SessionsHaveCommands DEF Next, StartIteration, StartStep, StartCollect
  <2> QED BY <1>1, <1>4, <1>5, <1>6, <2>1

\* A command that is alone is the only one to change the workspace.
LEMMA AloneWorks ==
  ASSUME IngestionTypeOK, LoopTypeOK, [Next]_vars, Quiet, Alone, NEW s \in Sessions,
         s \notin shared', loop[s].pc # "idle", loop'[s].pc # "idle"
  PROVE  /\ s \notin shared
         /\ \/ workspace' = workspace /\ ingest'[s] = ingest[s]
            \/ AgentEnds(s)
            \/ Collect(s)
            \/ IngestStep(s) /\ UNCHANGED loopVars
<1>0. loop \in [Sessions -> Loop] /\ AtRest.pc = "idle"
  BY DEF LoopTypeOK, AtRest
<1>1. ASSUME NEW t \in Sessions, NEW command, Starts(t, command) PROVE FALSE
  BY <1>1 DEF Starts, Active
<1>2. ASSUME s \notin shared, NEW t \in Sessions, loop[t].pc # "idle" PROVE t = s
  BY <1>2 DEF Alone
<1>3. ASSUME NEW t \in Sessions,
             \/ LoopTop(t) \/ BeginStep(t) \/ Collected(t) \/ ExecuteNextAction(t) \/ EndStep(t)
             \/ WriteResult(t) \/ Notify(t) \/ StepRaises(t) \/ ClockExpires(t)
      PROVE  UNCHANGED <<shared, workspace, ingest>>
  BY <1>3 DEF LoopTop, BeginStep, Collected, ExecuteNextAction, EndStep, WriteResult, Notify,
     StepRaises, ClockExpires, ingestionVars, historyVars
<1>4. ASSUME NEW t \in Sessions, AgentEnds(t) \/ Collect(t)
      PROVE  UNCHANGED shared /\ t = s
  <2>1. UNCHANGED shared /\ loop[t].pc # "idle"
    BY <1>4 DEF AgentEnds, Collect, historyVars
  <2> QED BY <1>2, <2>1
<1>5. ASSUME NEW t \in Sessions, KillCommand(t) PROVE FALSE
  <2>1. UNCHANGED shared /\ loop[t].pc # "idle" /\ loop' = [loop EXCEPT ![t] = AtRest]
    BY <1>5 DEF KillCommand, Ends, historyVars
  <2> QED BY <1>0, <1>2, <2>1
<1>6. ASSUME NEW t \in Sessions, IngestStep(t), UNCHANGED loopVars
      PROVE  UNCHANGED shared /\ t = s
  <2>1. UNCHANGED shared /\ ingest[t].pc # "idle"
    BY <1>6, IngestionSaysHow DEF loopVars, historyVars
  <2>2. loop[t].pc # "idle"
    BY <2>1 DEF Quiet
  <2> QED BY <1>2, <2>1, <2>2
<1>7. ASSUME Pause \/ Resume \/ UNCHANGED vars PROVE UNCHANGED <<shared, workspace, ingest>>
  BY <1>7 DEF Pause, Resume, vars, loopVars, historyVars, ingestionVars
<1>8. CASE Next
  <2>1. \/ \E t \in Sessions : \E command : Starts(t, command)
        \/ \E t \in Sessions :
             \/ LoopTop(t) \/ BeginStep(t) \/ Collected(t) \/ ExecuteNextAction(t) \/ EndStep(t)
             \/ WriteResult(t) \/ Notify(t) \/ StepRaises(t) \/ ClockExpires(t)
        \/ \E t \in Sessions : AgentEnds(t) \/ Collect(t)
        \/ \E t \in Sessions : KillCommand(t)
        \/ \E t \in Sessions : IngestStep(t) /\ UNCHANGED loopVars
        \/ Pause \/ Resume
        \/ \A t \in Sessions : loop[t].pc = "idle"
    BY <1>8, SessionsHaveCommands DEF Next, LoopStep, StartIteration, StartStep, StartCollect
  <2> QED BY <1>1, <1>3, <1>4, <1>5, <1>6, <1>7, <2>1
<1> QED BY <1>7, <1>8

\* collect_agent_handoff takes the one artifact there is.
LEMMA IngestsTheOne ==
  ASSUME IngestionTypeOK, NEW s \in Sessions, NEW written, IngestStep(s),
         Uningested \subseteq written,
         ingest[s].pc \notin {"idle", "discover"} => Uningested = {Artifact(s)}
  PROVE  /\ Uningested' \subseteq written
         /\ ingest'[s].pc \notin {"idle", "discover"} => Uningested' = {ingest'[s].artifact}
         /\ ingest'[s].pc = "idle" /\ ingest'[s].status = "ingested" => Uningested' = {}
<1>0. /\ ingest \in [Sessions -> Ingestion] /\ ingest[s] \in Ingestion
      /\ workspace \in [Artifacts -> {"absent", "present", "marked"}]
      /\ ingest[s].pc \notin {"idle", "discover"} => Artifact(s) \in Artifacts
  BY DEF IngestionTypeOK, At
<1>1. ASSUME NEW pc, NEW a, NEW status, ingest' = [ingest EXCEPT ![s] = Stage(pc, a, status)]
      PROVE  ingest'[s].pc = pc /\ ingest'[s].artifact = a /\ ingest'[s].status = status
  BY <1>0, <1>1 DEF Stage
<1>2. ASSUME workspace' = workspace, NEW status \in {"no_handoff", "ingestion_failed", "raised"},
             Returns(s, status)
      PROVE  /\ Uningested' = Uningested
             /\ ingest'[s].pc = "idle" /\ ingest'[s].status # "ingested"
  <2>1. ingest'[s].pc = "idle" /\ ingest'[s].status = status
    BY <1>1, <1>2 DEF Returns, Resting
  <2> QED BY <1>2, <2>1 DEF Uningested
<1>3. ASSUME workspace' = workspace, NEW pc \in IngestPcs \ {"idle"}, To(s, pc),
             ingest[s].pc \notin {"idle", "discover"}
      PROVE  /\ Uningested' = Uningested
             /\ ingest'[s].pc # "idle" /\ ingest'[s].artifact = Artifact(s)
  <2>1. ingest'[s].pc = pc /\ ingest'[s].artifact = ingest[s].artifact
    BY <1>0, <1>3 DEF To, Ingestion
  <2> QED BY <1>3, <2>1 DEF Uningested, Artifact
<1>4. CASE Discover(s)
  <2>1. workspace' = workspace /\ Uningested' = Uningested
    BY <1>4 DEF Discover, Uningested
  <2>2. \/ Returns(s, "no_handoff") \/ Returns(s, "ingestion_failed")
        \/ \E a \in Artifacts :
             Uningested = {a} /\ ingest' = [ingest EXCEPT ![s] = Stage("check", a, "none")]
    BY <1>4 DEF Discover
  <2> QED BY <1>1, <1>2, <2>1, <2>2
<1>5. CASE Check(s)
  <2>1. workspace' = workspace /\ Uningested' = Uningested /\ Uningested = {Artifact(s)}
    BY <1>5 DEF Check, Uningested, At
  <2>2. \/ Returns(s, "ingestion_failed") \/ Returns(s, "raised")
        \/ \E a \in Uningested : ingest' = [ingest EXCEPT ![s] = Stage("copy", a, "none")]
    BY <1>5 DEF Check
  <2>3. ASSUME NEW a \in Uningested, ingest' = [ingest EXCEPT ![s] = Stage("copy", a, "none")]
        PROVE  ingest'[s].pc = "copy" /\ ingest'[s].artifact = Artifact(s)
    BY <1>1, <2>1, <2>3
  <2> QED BY <1>2, <2>1, <2>2, <2>3
<1>6. CASE Copy(s) \/ CopyEnds(s) \/ Index(s) \/ Record(s) \/ Announce(s)
  <2>1. workspace' = workspace /\ ingest[s].pc \notin {"idle", "discover"}
    BY <1>6 DEF Copy, CopyEnds, Index, Record, Announce, At
  <2>2. \/ \E status \in {"ingestion_failed", "raised"} : Returns(s, status)
        \/ \E pc \in IngestPcs \ {"idle"} : To(s, pc)
    BY <1>6 DEF Copy, CopyEnds, Index, Record, Announce, IngestPcs
  <2> QED BY <1>2, <1>3, <2>1, <2>2
<1>7. CASE Mark(s)
  <2>1. /\ Uningested = {Artifact(s)} /\ Artifact(s) \in Artifacts
        /\ workspace' = [workspace EXCEPT ![Artifact(s)] = "marked"]
    BY <1>0, <1>7 DEF Mark, At
  <2>2. Uningested' = {}
    BY <1>0, <2>1 DEF Uningested
  <2>3. ingest'[s].pc = "idle"
    BY <1>1, <1>7 DEF Mark
  <2> QED BY <2>2, <2>3
<1> QED BY <1>4, <1>5, <1>6, <1>7 DEF IngestStep

\* Every step keeps it.
LEMMA FreshStep ==
  ASSUME IngestionTypeOK, LoopTypeOK, TrailShape, [Next]_vars, Quiet, Quiet', Alone,
         NEW s \in Sessions, OngoingOf(s), FreshOf(s)
  PROVE  FreshOf(s)'
<1> SUFFICES ASSUME loop'[s].kind = "iteration", s \notin shared' PROVE FreshOf(s)'
  BY DEF FreshOf
<1>0. /\ loop'[s].pc # "idle" /\ loop \in [Sessions -> Loop] /\ loop[s] \in Loop
      /\ ingest \in [Sessions -> Ingestion] /\ fresh \in [Sessions -> SUBSET Artifacts]
      /\ loop'[s].pc # "ingest" => ingest'[s].pc = "idle"
  BY DEF Quiet, LoopTypeOK, IngestionTypeOK
<1>1. CASE StartIteration(s) /\ Place(loop'[s]) = <<"iteration", "top", "none", "none">>
  <2>1. Uningested = {} /\ workspace' = workspace
    BY <1>1 DEF StartIteration, Starts, ingestionVars
  <2>2. loop'[s].pc = "top" /\ Uningested' = {}
    BY <1>1, <2>1 DEF Place, Uningested
  <2> QED BY <2>2 DEF FreshOf
<1>2. ASSUME loop[s].kind = "iteration"
      PROVE  /\ s \notin shared
             /\ \/ workspace' = workspace /\ ingest'[s] = ingest[s]
                \/ AgentEnds(s)
                \/ Collect(s)
                \/ IngestStep(s) /\ UNCHANGED loopVars
  BY <1>0, <1>2, AloneWorks DEF Quiet
<1>3. CASE Stays(s)
  <2>1. /\ loop[s].kind = "iteration" /\ loop'[s].pc = loop[s].pc
        /\ loop'[s].status = loop[s].status /\ fresh'[s] = fresh[s]
    BY <1>3 DEF Stays, Place
  <2>2. s \notin shared
    BY <1>2, <2>1
  <2>3. ASSUME AgentEnds(s) PROVE FALSE
    <3>1. \/ loop'[s] = [loop[s] EXCEPT !.pc = "endStep", !.status = "agent_failed"]
          \/ loop'[s] = [loop[s] EXCEPT !.pc = "collect"]
      BY <1>0, <2>3 DEF AgentEnds, Goes
    <3>2. loop'[s].pc # "agent"
      BY <1>0, <3>1 DEF Loop
    <3> QED BY <2>1, <2>3, <3>2 DEF AgentEnds
  <2>4. \/ ingest'[s] = ingest[s] /\ workspace' = workspace
        \/ IngestStep(s) /\ UNCHANGED loopVars
    <3>1. Collect(s) => workspace' = workspace
      BY DEF Collect, Begin
    <3> QED BY <1>2, <1>3, <2>1, <2>3, <3>1, StayingIngests
  <2>5. CASE workspace' = workspace /\ ingest'[s] = ingest[s]
    BY <2>1, <2>2, <2>5 DEF FreshOf, Uningested, Artifact
  <2>6. CASE IngestStep(s) /\ UNCHANGED loopVars
    <3>1. loop[s].pc = "ingest" /\ loop'[s].pc = "ingest"
      BY <2>1, <2>6, IngestionSaysHow DEF Quiet
    <3>2. /\ Uningested' \subseteq fresh[s]
          /\ ingest'[s].pc \notin {"idle", "discover"} => Uningested' = {ingest'[s].artifact}
          /\ ingest'[s].pc = "idle" /\ ingest'[s].status = "ingested" => Uningested' = {}
      BY <2>1, <2>2, <2>6, <3>1, IngestsTheOne DEF FreshOf
    <3> QED BY <2>1, <3>1, <3>2 DEF FreshOf, Artifact
  <2> QED BY <2>4, <2>5, <2>6
<1>4. CASE loop[s].kind = "iteration" /\ Moves(s)
  <2>0. s \notin shared
    BY <1>2, <1>4
  <2>1. ASSUME UNCHANGED ingestionVars PROVE Uningested' = Uningested
    BY <2>1 DEF ingestionVars, Uningested
  <2>2. CASE LoopTop(s) /\ loop[s].pc = "top" /\ loop'[s].pc \in {"stop", "begin"}
    <3>1. Uningested' = Uningested
      BY <2>1, <2>2 DEF LoopTop
    <3> QED BY <1>4, <2>0, <2>2, <3>1 DEF FreshOf
  <2>3. CASE BeginStep(s) /\ loop[s].pc = "begin" /\ loop'[s].pc = "agent"
    <3>1. Uningested' = Uningested
      BY <2>1, <2>3 DEF BeginStep
    <3> QED BY <1>4, <2>0, <2>3, <3>1 DEF FreshOf
  <2>4. CASE AgentEnds(s) /\ loop[s].pc = "agent" /\
               (loop'[s].pc = "collect" \/ (loop'[s].pc = "endStep" /\ loop'[s].status = "agent_failed"))
    <3>1. Uningested = {}
      BY <1>4, <2>0, <2>4 DEF FreshOf
    <3>2. PICK written \in SUBSET Artifacts : Write(written) /\ fresh' = [fresh EXCEPT ![s] = written]
      BY <2>4 DEF AgentEnds
    <3>3. Uningested' = written
      BY <3>1, <3>2 DEF Write, Uningested
    <3>4. fresh'[s] = written
      BY <1>0, <3>2
    <3> QED BY <2>4, <3>3, <3>4 DEF FreshOf
  <2>5. CASE Collect(s) /\ loop[s].pc = "collect" /\ loop'[s].pc = "ingest"
    <3>1. UNCHANGED <<workspace, fresh>>
      BY <2>5 DEF Collect, Begin, historyVars
    <3>2. Uningested' = Uningested
      BY <3>1 DEF Uningested
    <3>3. ingest'[s].pc = "discover"
      BY <1>0, <2>5 DEF Collect, Begin, Stage
    <3> QED BY <1>4, <2>0, <2>5, <3>1, <3>2, <3>3 DEF FreshOf
  <2>6. CASE Collected(s) /\ loop[s].pc = "ingest" /\ At(s, "idle")
             /\ loop'[s].status = ingest[s].status /\
               (loop'[s].pc = "endStep" \/ (loop'[s].pc = "execute" /\ loop'[s].status = "ingested"))
    <3>1. Uningested' = Uningested
      BY <2>1, <2>6 DEF Collected
    <3> QED BY <1>4, <2>0, <2>6, <3>1 DEF FreshOf, At
  <2>7. CASE ExecuteNextAction(s) /\ loop[s].pc = "execute" /\ loop'[s].pc = "endStep"
             /\ loop'[s].status \in {loop[s].status, "execution_failed"}
    <3>1. Uningested' = Uningested
      BY <2>1, <2>7 DEF ExecuteNextAction
    <3> QED BY <1>4, <2>0, <2>7, <3>1 DEF FreshOf
  <2>8. CASE EndStep(s) /\ loop[s].pc = "endStep" /\
               (loop'[s].pc = "stop" \/ (loop'[s].pc = "top" /\ StopReason(s) = "none"))
    <3>1. Uningested' = Uningested
      BY <2>1, <2>8 DEF EndStep
    <3>2. StopReason(s) = "none" => loop[s].status = "ingested"
      BY <1>4, <2>8, GoesOnAfterHarmless DEF OngoingOf
    <3> QED BY <1>4, <2>0, <2>8, <3>1, <3>2 DEF FreshOf
  <2>9. CASE WriteResult(s) /\ loop'[s].pc = "notify"
    BY <2>9 DEF FreshOf
  <2> QED BY <1>4, <2>2, <2>3, <2>4, <2>5, <2>6, <2>7, <2>8, <2>9 DEF Moves
<1> QED BY <1>1, <1>3, <1>4, IterationMoves

\* The loop ingests what its own agent wrote in this step: a workspace that was
\* clean at the start stays so between the steps that let it go on.
THEOREM FreshHandoff == Spec => []HandoffIsFresh
<1> DEFINE Workspace == /\ TrailShape /\ Quiet /\ Alone
                        /\ \A s \in Sessions : OngoingOf(s) /\ FreshOf(s)
<1>1. Init => Workspace
  BY DEF Init, TrailShape, Quiet, Alone, OngoingOf, FreshOf, AtRest, IngestionInit, Resting, Stage
<1>2. TypeOK /\ Workspace /\ [Next]_vars => Workspace'
  BY TrailShapeStep, OngoingStep, QuietStep, AloneStep, FreshStep DEF TypeOK, LoopTypeOK
<1>3. Workspace => HandoffIsFresh
  BY DEF Quiet, FreshOf, HandoffIsFresh
<1> QED BY <1>1, <1>2, <1>3, TypeCorrect, PTL DEF Spec
=============================================================================
