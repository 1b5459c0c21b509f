-------------------------- MODULE OpenActionsProofs --------------------------
(***************************************************************************)
(* What holds of the commands for any number of sessions, handoffs and     *)
(* kills.  Evaluations need no assumption on who runs what: the creation   *)
(* of the evaluation directory is the lock.  Candidates need one operator  *)
(* who recovers with execute-open-actions, as in the run OpenLive.         *)
(***************************************************************************)
EXTENDS OpenActions, FiniteSetTheorems, TLAPS

\* What a command works on fits its action, and a command that executes still
\* has a round to spend.
Fits(action, h) ==
  /\ action \in {"run_candidate", "reconcile_run"} => h \in Candidates
  /\ action = "run_post_run_evaluation" => h \in Evaluations
  /\ action = "run_experiment_batch" => h \in Batches

CandidateAction == {"run_candidate", "reconcile_run"}

CommandFits(c) ==
  /\ Fits(c.action, c.handoff)
  /\ c.pc \notin {"idle", "pick"} => c.left > 0
  /\ c.pc = "execute" /\ c.id # None => c.action \in CandidateAction /\ c.id \in RunIds
  /\ c.pc \in {"smoke", "announce", "start", "wait"} => c.action \in CandidateAction /\ c.id \in RunIds
  /\ c.pc \in {"evaluate", "record"} => c.action = "run_post_run_evaluation"
  /\ c.pc = "batch" => c.action = "run_experiment_batch" /\ c.id \in BatchIds
  /\ Fits(c.seen.action, c.seen.handoff)
  /\ c.seen.run # None => c.seen.action \in CandidateAction

Dispatch ==
  /\ Fits(result.action, result.handoff)
  /\ result.run # None => result.action \in CandidateAction
  /\ \A s \in Sessions : CommandFits(command[s])

\* A session at work on an evaluation is alone with a directory it created and
\* a request not yet recorded.
AtWork(s, e) == command[s].pc \in {"evaluate", "record"} /\ command[s].handoff = e

DirectoryIsLock ==
  /\ \A e \in Evaluations : evaluationDir[e] = "absent" => evaluated[e] = 0
  /\ \A s \in Sessions, e \in Evaluations :
       AtWork(s, e) => evaluationDir[e] # "absent" /\ evaluated[e] = 0
  /\ \A s, t \in Sessions, e \in Evaluations : AtWork(s, e) /\ AtWork(t, e) => s = t

\* One operator who recovers with execute-open-actions.
OneOperator == (\A s, t \in Sessions : s = t) /\ "next" \notin CommandsUsed

CommandAnnounces(c) ==
  /\ c.kind # "next"
  /\ c.pc = "execute" /\ c.action = "run_candidate" =>
       c.id = None /\ submitted[c.handoff] = None /\ c.handoff \in ToSet(ingested)
  /\ c.pc \in {"smoke", "announce"} =>
       /\ submitted[c.handoff] = None /\ c.handoff \in ToSet(ingested)
       /\ run[c.id].candidate = c.handoff /\ run[c.id].status \in {"smoke_testing", "accepted"}
  /\ c.pc \in {"start", "wait"} => submitted[c.handoff] = c.id
  /\ c.pc = "execute" /\ c.id # None => submitted[c.handoff] = c.id

Announced ==
  /\ \A c \in Candidates : submitted[c] # None =>
       /\ c \in ToSet(ingested)
       /\ run[submitted[c]].candidate = c /\ run[submitted[c]].status # "none"
  /\ \A s \in Sessions : CommandAnnounces(command[s])

-----------------------------------------------------------------------------
(* What each move of a command does to the command variable *)

\* The commands of the other sessions stay as they are.
OthersKept(s) ==
  /\ command' \in [Sessions -> CommandRecord]
  /\ \A t \in Sessions \ {s} : command'[t] = command[t]

ResultKept == result' \in ResultRecord

LEMMA Moved ==
  ASSUME NEW s \in Sessions, NEW pc \in Pcs, NEW id \in Ids,
         command \in [Sessions -> CommandRecord], Goto(s, pc, id)
  PROVE  /\ OthersKept(s)
         /\ command'[s].pc = pc /\ command'[s].id = id
         /\ command'[s].kind = command[s].kind /\ command'[s].handoff = command[s].handoff
         /\ command'[s].action = command[s].action /\ command'[s].left = command[s].left
         /\ command'[s].seen = command[s].seen
  BY DEF Goto, OthersKept, CommandRecord

\* An outstanding action is a result, and so is no action at all.
LEMMA OutstandingType ==
  /\ \A h \in Handoffs \cup {None}, action \in Actions \cup {"none"} :
       Outstanding(h, action) \in ResultRecord
  /\ NoResult \in ResultRecord /\ NoResult.run = None /\ NoResult.action = "none"
  /\ Fits(NoResult.action, NoResult.handoff)
  BY DEF Outstanding, NoResult, ResultRecord, ReturnedStatus, RunStatus, Fits

LEMMA Begun ==
  ASSUME NEW s \in Sessions, NEW kind \in CommandKinds, NEW h \in Handoffs,
         NEW action \in Actions \cup {"none"}, NEW id \in Ids, NEW left \in Nat,
         NEW seen \in ResultRecord,
         command \in [Sessions -> CommandRecord], Begin(s, kind, h, action, id, left, seen)
  PROVE  /\ OthersKept(s)
         /\ command'[s] = [kind |-> kind, pc |-> "execute", handoff |-> h,
                           action |-> action, id |-> id, left |-> left, seen |-> seen]
  BY DEF Begin, OthersKept, CommandRecord, Pcs

LEMMA Picked ==
  ASSUME NEW s \in Sessions, NEW left \in Nat,
         command \in [Sessions -> CommandRecord],
         command' = [command EXCEPT ![s] = Picking(left)]
  PROVE  OthersKept(s) /\ command'[s] = Picking(left)
  BY OutstandingType DEF Picking, Idle, OthersKept, CommandRecord, Pcs, CommandKinds, Ids, Handoffs

LEMMA Ended ==
  ASSUME NEW s \in Sessions, command \in [Sessions -> CommandRecord],
         command' = [command EXCEPT ![s] = Idle]
  PROVE  OthersKept(s) /\ command'[s] = Idle
  BY OutstandingType DEF Idle, OthersKept, CommandRecord, Pcs, CommandKinds, Ids, Handoffs

\* After an action returned or raised its session is idle or picks again, and
\* the result file names an action that fits its handoff.
Over(s) ==
  /\ OthersKept(s)
  /\ \/ command'[s] = Idle
     \/ \E left \in Nat : command'[s] = Picking(left)
  /\ result' \in ResultRecord
  /\ Fits(result'.action, result'.handoff)
  /\ result'.run # None => result'.action \in CandidateAction

LEMMA Returned ==
  ASSUME NEW s \in Sessions, TypeOK, Dispatch,
         NEW r \in RunIds \cup {None}, NEW status \in ReturnedStatus,
         command[s].pc \notin {"idle", "pick"},
         r # None => command[s].action \in CandidateAction,
         status = "training" => command[s].action \in CandidateAction,
         Return(s, r, status)
  PROVE  Over(s)
<1>0. command \in [Sessions -> CommandRecord] /\ result \in ResultRecord
  BY DEF TypeOK
<1>1. command[s].left - 1 \in Nat /\ Fits(command[s].action, command[s].handoff)
  BY <1>0 DEF Dispatch, CommandFits, CommandRecord
<1>2. CASE command[s].kind = "open"
  <2>1. command' = [command EXCEPT ![s] = Picking(command[s].left - 1)] /\ result' = result
    BY <1>2 DEF Return
  <2>2. OthersKept(s) /\ command'[s] = Picking(command[s].left - 1)
    BY <2>1, <1>0, <1>1, Picked
  <2> QED BY <2>1, <2>2, <1>0, <1>1 DEF Over, Dispatch
<1>3. CASE command[s].kind # "open"
  <2>1. command' = [command EXCEPT ![s] = Idle]
    BY <1>3 DEF Return
  <2>2. OthersKept(s) /\ command'[s] = Idle
    BY <2>1, <1>0, Ended
  <2>3. result' = [handoff |-> command[s].handoff,
                   action |-> IF status = "training" THEN "reconcile_run" ELSE command[s].action,
                   run |-> r, status |-> status, executed |-> TRUE]
    BY <1>3 DEF Return
  <2>4. result' \in ResultRecord
    BY <2>3, <1>0 DEF ResultRecord, CommandRecord, Actions
  <2>5. Fits(result'.action, result'.handoff)
    BY <2>3, <1>1 DEF Fits, CandidateAction
  <2>6. result'.run # None => result'.action \in CandidateAction
    BY <2>3 DEF CandidateAction
  <2> QED BY <2>2, <2>4, <2>5, <2>6 DEF Over
<1> QED BY <1>2, <1>3

LEMMA Raised ==
  ASSUME NEW s \in Sessions, TypeOK, Dispatch, Raise(s)
  PROVE  Over(s)
<1>0. command \in [Sessions -> CommandRecord] /\ result \in ResultRecord
  BY DEF TypeOK
<1>1. Fits(command[s].action, command[s].handoff)
  BY DEF Dispatch, CommandFits
<1>2. OthersKept(s) /\ command'[s] = Idle
  BY <1>0, Ended DEF Raise
<1>3. CASE command[s].kind # "open"
  <2>1. result' = command[s].seen
    BY <1>3 DEF Raise
  <2>2. result' \in ResultRecord
    BY <2>1, <1>0 DEF CommandRecord
  <2> QED BY <2>1, <2>2, <1>2 DEF Over, Dispatch, CommandFits
<1>4. CASE command[s].kind = "open"
  BY <1>4, <1>0, <1>2 DEF Raise, Over, Dispatch
<1> QED BY <1>3, <1>4

-----------------------------------------------------------------------------
(* Types and dispatch *)

Inv == TypeOK /\ Dispatch

LEMMA InitInv == Init => Inv
<1> SUFFICES ASSUME Init PROVE Inv
  OBVIOUS
<1>1. Idle \in CommandRecord /\ CommandFits(Idle)
  BY OutstandingType DEF Idle, CommandRecord, Pcs, Ids, CommandFits, Fits
<1>2. NoResult \in ResultRecord /\ Fits(NoResult.action, NoResult.handoff) /\ NoResult.run = None
  BY DEF NoResult, Outstanding, ResultRecord, ReturnedStatus, RunStatus, Fits
<1>3. Dispatch /\ command \in [Sessions -> CommandRecord] /\ result \in ResultRecord
  BY <1>1, <1>2 DEF Init, Dispatch
<1>4. ingested \in Seq(Handoffs) /\ IsInjective(ingested)
  BY DEF Init, IsInjective
<1>5. /\ run \in [RunIds -> [candidate : Candidates \cup {None}, status : RunStatus]]
      /\ kills \in 0..MaxKills
  BY ParametersAreChoices DEF Init, NoRun, RunStatus
<1> QED BY <1>3, <1>4, <1>5 DEF Init, Inv, TypeOK

LEMMA OverFits ==
  ASSUME NEW s \in Sessions, Dispatch, Over(s)
  PROVE  Dispatch' /\ result' \in ResultRecord /\ command' \in [Sessions -> CommandRecord]
  BY OutstandingType DEF Over, OthersKept, Dispatch, CommandFits, Fits, Idle, Picking, CandidateAction

LEMMA MovedFits ==
  ASSUME NEW s \in Sessions, Dispatch, OthersKept(s), CommandFits(command'[s]),
         UNCHANGED result
  PROVE  Dispatch' /\ command' \in [Sessions -> CommandRecord]
  BY DEF OthersKept, Dispatch

LEMMA IngestedType ==
  ASSUME ingested \in Seq(Handoffs), IsInjective(ingested), NEW h \in Handoffs,
         h \notin ToSet(ingested)
  PROVE  LET q == Append(ingested, h)
         IN q \in Seq(Handoffs) /\ IsInjective(q) /\ ToSet(q) = ToSet(ingested) \cup {h}
  BY DEF IsInjective, ToSet

LEMMA OpenIsFinite ==
  ASSUME ingested \in Seq(Handoffs)
  PROVE  Cardinality(Open) \in Nat
<1>1. Open \subseteq 1..Len(ingested) /\ Len(ingested) \in Nat
  BY DEF Open
<1>2. IsFiniteSet(1..Len(ingested))
  BY <1>1, FS_Interval
<1> QED BY <1>1, <1>2, FS_Subset, FS_CardinalityType

LEMMA OpenActionFits ==
  ASSUME TypeOK, NEW h \in Handoffs
  PROVE  /\ OpenAction(h) \in Actions \cup {"none"}
         /\ Fits(OpenAction(h), h)
         /\ OpenAction(h) = "reconcile_run" => submitted[h] \in RunIds \ terminal
         /\ OpenAction(h) = "run_candidate" => submitted[h] = None
  BY TypesAreDisjoint DEF OpenAction, Actions, Fits, Handoffs, TypeOK

LEMMA FirstActionFits ==
  ASSUME NEW h \in Handoffs
  PROVE  FirstAction(h) \in Actions /\ Fits(FirstAction(h), h)
  BY TypesAreDisjoint DEF FirstAction, Actions, Fits, Handoffs

\* The commands that begin.
LEMMA BeginInv ==
  ASSUME Inv, NEW s \in Sessions,
         \/ \E h \in Handoffs : AutonomyStep(s, h)
         \/ AutonomyStepWithoutHandoff(s)
         \/ ExecuteNextAction(s) \/ ExecuteOpenActions(s) \/ PickOpenAction(s) \/ Kill(s)
  PROVE  Inv'
<1> USE DEF Inv, ledgerVars, artifactVars
<1>0. command \in [Sessions -> CommandRecord] /\ result \in ResultRecord
      /\ ingested \in Seq(Handoffs) /\ CommandFits(command[s]) /\ None \in Ids /\ 1 \in Nat
  BY DEF TypeOK, Dispatch, Ids
<1>1. ASSUME NEW h \in Handoffs, AutonomyStep(s, h) PROVE Inv'
  <2>1. ingested' \in Seq(Handoffs) /\ IsInjective(ingested)'
    BY <1>1, IngestedType DEF AutonomyStep, TypeOK
  <2>2. CASE /\ Begin(s, "step", h, FirstAction(h), None, 1, Outstanding(h, FirstAction(h)))
             /\ result' = NoResult
    <3>1. OthersKept(s)
          /\ command'[s] = [kind |-> "step", pc |-> "execute", handoff |-> h,
                            action |-> FirstAction(h), id |-> None, left |-> 1,
                            seen |-> Outstanding(h, FirstAction(h))]
      <4>1. /\ "step" \in CommandKinds /\ FirstAction(h) \in Actions \cup {"none"}
            /\ Outstanding(h, FirstAction(h)) \in ResultRecord
        BY FirstActionFits, OutstandingType DEF CommandKinds
      <4> QED BY <1>0, <2>2, <4>1 DEF Begin, OthersKept, CommandRecord, Pcs
    <3>2. CommandFits(command'[s])
      BY <3>1, FirstActionFits DEF CommandFits, Outstanding
    <3>3. result' \in ResultRecord /\ Fits(result'.action, result'.handoff) /\ result'.run = None
      BY <2>2 DEF NoResult, Outstanding, ResultRecord, Fits, ReturnedStatus, RunStatus
    <3> QED BY <1>1, <2>1, <3>1, <3>2, <3>3 DEF AutonomyStep, TypeOK, Dispatch, OthersKept
  <2>3. CASE result' = Outstanding(h, FirstAction(h)) /\ UNCHANGED command
    <3>1. result' \in ResultRecord /\ Fits(result'.action, result'.handoff) /\ result'.run = None
      BY <2>3, FirstActionFits DEF Outstanding, ResultRecord, ReturnedStatus, RunStatus
    <3> QED BY <1>1, <2>1, <2>3, <3>1 DEF AutonomyStep, TypeOK, Dispatch
  <2> QED BY <1>1, <2>2, <2>3 DEF AutonomyStep
<1>2. CASE AutonomyStepWithoutHandoff(s)
  <2>1. result' \in ResultRecord /\ Fits(result'.action, result'.handoff) /\ result'.run = None
    BY <1>2 DEF AutonomyStepWithoutHandoff, NoResult, Outstanding, ResultRecord, Fits,
                ReturnedStatus, RunStatus
  <2> QED BY <1>2, <2>1 DEF AutonomyStepWithoutHandoff, TypeOK, Dispatch
<1>3. CASE ExecuteNextAction(s)
  <2>1. /\ result.handoff \in Handoffs /\ result.action \in Actions \cup {"none"}
        /\ result.run \in Ids
    BY <1>0, <1>3 DEF ExecuteNextAction, ResultRecord, Ids
  <2>2. OthersKept(s)
        /\ command'[s] = [kind |-> "next", pc |-> "execute", handoff |-> result.handoff,
                          action |-> result.action, id |-> result.run, left |-> 1,
                          seen |-> result]
    <3>1. /\ Begin(s, "next", result.handoff, result.action, result.run, 1, result)
          /\ "next" \in CommandKinds
      BY <1>3 DEF ExecuteNextAction, CommandKinds
    <3> QED BY <1>0, <2>1, <3>1 DEF Begin, OthersKept, CommandRecord, Pcs
  <2>3. CommandFits(command'[s])
    BY <1>0, <2>2 DEF CommandFits, Dispatch, ResultRecord
  <2> QED BY <1>3, <2>2, <2>3, MovedFits DEF ExecuteNextAction, TypeOK
<1>4. CASE ExecuteOpenActions(s)
  <2>1. OthersKept(s) /\ command'[s] = Picking(Cardinality(Open))
    BY <1>0, <1>4, OpenIsFinite, Picked DEF ExecuteOpenActions
  <2>2. CommandFits(command'[s])
    BY <2>1, OutstandingType DEF CommandFits, Picking, Fits
  <2> QED BY <1>4, <2>1, <2>2, MovedFits DEF ExecuteOpenActions, TypeOK
<1>5. CASE PickOpenAction(s)
  <2>1. CASE command[s].left = 0 \/ Open = {}
    <3>1. OthersKept(s) /\ command'[s] = Idle
      BY <1>0, <1>5, <2>1, Ended DEF PickOpenAction
    <3>2. CommandFits(command'[s])
      BY <3>1, OutstandingType DEF CommandFits, Idle, Fits
    <3> QED BY <1>5, <3>1, <3>2, MovedFits DEF PickOpenAction, TypeOK
  <2>2. CASE ~(command[s].left = 0 \/ Open = {})
    <3>1. PICK i \in Open : BeginOpen(s, ingested[i])
      BY <1>5, <2>2 DEF PickOpenAction
    <3> DEFINE h == ingested[i]
               r == IF OpenAction(h) = "reconcile_run" THEN submitted[h] ELSE None
    <3>2. h \in Handoffs /\ command[s].left \in Nat
      BY <1>0, <3>1 DEF Open, CommandRecord
    <3>3. r \in Ids
      BY <3>2, OpenActionFits DEF Ids
    <3>4. OpenAction(h) \in Actions \cup {"none"}
      BY <3>2, OpenActionFits
    <3>5. Begin(s, "open", h, OpenAction(h), r, command[s].left, NoResult)
      BY <3>1 DEF BeginOpen
    <3>6. OthersKept(s)
          /\ command'[s] = [kind |-> "open", pc |-> "execute", handoff |-> h,
                            action |-> OpenAction(h), id |-> r, left |-> command[s].left,
                            seen |-> NoResult]
      <4>1. "open" \in CommandKinds /\ NoResult \in ResultRecord
        BY OutstandingType DEF CommandKinds
      <4> QED BY <1>0, <3>2, <3>3, <3>4, <3>5, <4>1 DEF Begin, OthersKept, CommandRecord, Pcs
    <3>7. CommandFits(command'[s])
      BY <2>2, <3>2, <3>6, OpenActionFits, OutstandingType DEF CommandFits, CandidateAction
    <3> QED BY <1>5, <3>6, <3>7, MovedFits DEF PickOpenAction, TypeOK
  <2> QED BY <2>1, <2>2
<1>6. CASE Kill(s)
  <2>1. OthersKept(s) /\ command'[s] = Idle
    BY <1>0, <1>6, Ended DEF Kill
  <2>2. CommandFits(command'[s])
    BY <2>1, OutstandingType DEF CommandFits, Idle, Fits
  <2>3. kills' \in 0..MaxKills
    BY <1>6, ParametersAreChoices DEF Kill, TypeOK
  <2> QED BY <1>6, <2>1, <2>2, <2>3, MovedFits DEF Kill, TypeOK
<1> QED BY <1>1, <1>2, <1>3, <1>4, <1>5, <1>6

\* The steps of a Candidate action.
LEMMA CandidateInv ==
  ASSUME Inv, NEW s \in Sessions,
         \/ CheckFails(s) \/ PrepareRun(s) \/ FinishSmoke(s) \/ Announce(s)
         \/ ContinueRun(s) \/ StartSupervisor(s) \/ RunIsOver(s)
  PROVE  Inv'
<1> USE DEF Inv, ledgerVars, artifactVars
<1>0. /\ command \in [Sessions -> CommandRecord] /\ command[s] \in CommandRecord
      /\ CommandFits(command[s])
      /\ run \in [RunIds -> [candidate : Candidates \cup {None}, status : RunStatus]]
      /\ RunIds \subseteq Ids /\ RunStatus \subseteq ReturnedStatus
  BY DEF TypeOK, Dispatch, Ids, ReturnedStatus
<1>1. CASE CheckFails(s)
  BY <1>1, Raised, OverFits DEF CheckFails, TypeOK
<1>2. CASE PrepareRun(s)
  <2>1. CASE Return(s, None, "rejected") /\ UNCHANGED run
    <3>1. Over(s)
      BY <1>2, <2>1, Returned DEF PrepareRun, Executing, ReturnedStatus
    <3> QED BY <1>2, <2>1, <3>1, OverFits DEF PrepareRun, TypeOK
  <2>2. ASSUME NEW r \in RunIds,
               run' = [run EXCEPT ![r] = [candidate |-> command[s].handoff,
                                          status |-> "smoke_testing"]],
               Goto(s, "smoke", r), UNCHANGED result
        PROVE  Inv'
    <3>1. OthersKept(s) /\ CommandFits(command'[s])
      BY <1>0, <1>2, <2>2, Moved DEF PrepareRun, Executing, Pcs, CommandFits, Fits, CandidateAction
    <3>2. command[s].handoff \in Candidates
      BY <1>0, <1>2 DEF PrepareRun, Executing, CommandFits, Fits
    <3>3. run' \in [RunIds -> [candidate : Candidates \cup {None}, status : RunStatus]]
      BY <1>0, <2>2, <3>2 DEF RunStatus
    <3> QED BY <1>2, <2>2, <3>1, <3>3, MovedFits DEF PrepareRun, TypeOK
  <2> QED BY <1>2, <2>1, <2>2 DEF PrepareRun
<1>3. CASE FinishSmoke(s)
  <2> DEFINE r == command[s].id
  <2>0. r \in RunIds /\ command[s].action \in CandidateAction
    BY <1>0, <1>3 DEF FinishSmoke, CommandFits
  <2>1. CASE run' = [run EXCEPT ![r].status = "accepted"] /\ Goto(s, "announce", r)
             /\ UNCHANGED result
    <3>1. OthersKept(s) /\ CommandFits(command'[s])
      BY <1>0, <1>3, <2>0, <2>1, Moved DEF FinishSmoke, Pcs, CommandFits, Fits, CandidateAction
    <3>2. run' \in [RunIds -> [candidate : Candidates \cup {None}, status : RunStatus]]
      BY <1>0, <2>0, <2>1 DEF RunStatus
    <3> QED BY <1>3, <2>1, <3>1, <3>2, MovedFits DEF FinishSmoke, TypeOK
  <2>2. CASE run' = [run EXCEPT ![r] = NoRun] /\ Return(s, None, "smoke_failed")
    <3>1. Over(s)
      BY <1>3, <2>2, Returned DEF FinishSmoke, ReturnedStatus
    <3>2. run' \in [RunIds -> [candidate : Candidates \cup {None}, status : RunStatus]]
      BY <1>0, <2>0, <2>2 DEF RunStatus, NoRun
    <3> QED BY <1>3, <2>2, <3>1, <3>2, OverFits DEF FinishSmoke, TypeOK
  <2> QED BY <1>3, <2>1, <2>2 DEF FinishSmoke
<1>4. CASE Announce(s)
  <2>1. command[s].id \in RunIds /\ command[s].handoff \in Candidates
        /\ command[s].action \in CandidateAction
    BY <1>0, <1>4 DEF Announce, CommandFits, Fits, CandidateAction
  <2>2. OthersKept(s) /\ CommandFits(command'[s])
    BY <1>0, <1>4, <2>1, Moved DEF Announce, Pcs, CommandFits, Fits, CandidateAction
  <2>3. submitted' \in [Candidates -> RunIds \cup {None}]
    BY <1>4, <2>1 DEF Announce, TypeOK
  <2> QED BY <1>4, <2>2, <2>3, MovedFits DEF Announce, TypeOK
<1>5. CASE ContinueRun(s)
  <2>1. command[s].id \in RunIds /\ command[s].action \in CandidateAction
    BY <1>0, <1>5 DEF ContinueRun, CommandFits
  <2>2. CASE Goto(s, "start", command[s].id) /\ UNCHANGED result
    <3>1. OthersKept(s) /\ CommandFits(command'[s])
      BY <1>0, <1>5, <2>1, <2>2, Moved DEF ContinueRun, Pcs, CommandFits, Fits, CandidateAction
    <3> QED BY <1>5, <2>2, <3>1, MovedFits DEF ContinueRun, TypeOK
  <2>3. CASE Return(s, command[s].id, run[command[s].id].status)
    <3>2. run[command[s].id].status \in ReturnedStatus
      BY <1>0, <2>1
    <3>3. Over(s)
      BY <1>5, <2>1, <2>3, <3>2, Returned DEF ContinueRun
    <3> QED BY <1>5, <3>3, OverFits DEF ContinueRun, TypeOK
  <2> QED BY <1>5, <2>2, <2>3 DEF ContinueRun
<1>6. CASE StartSupervisor(s)
  <2>1. command[s].id \in RunIds /\ command[s].action \in CandidateAction
    BY <1>0, <1>6 DEF StartSupervisor, CommandFits
  <2>2. run' \in [RunIds -> [candidate : Candidates \cup {None}, status : RunStatus]]
    BY <1>0, <1>6, <2>1 DEF StartSupervisor, RunStatus
  <2>3. CASE Goto(s, "wait", command[s].id) /\ UNCHANGED result
    <3>1. OthersKept(s) /\ CommandFits(command'[s])
      BY <1>0, <1>6, <2>1, <2>3, Moved DEF StartSupervisor, Pcs, CommandFits, Fits, CandidateAction
    <3> QED BY <1>6, <2>2, <2>3, <3>1, MovedFits DEF StartSupervisor, TypeOK
  <2>4. CASE Raise(s)
    BY <1>6, <2>2, <2>4, Raised, OverFits DEF StartSupervisor, TypeOK
  <2>5. CASE Return(s, command[s].id, "accepted")
    <3>1. Over(s)
      BY <1>6, <2>1, <2>5, Returned DEF StartSupervisor, ReturnedStatus, RunStatus
    <3> QED BY <1>6, <2>2, <3>1, OverFits DEF StartSupervisor, TypeOK
  <2> QED BY <1>6, <2>3, <2>4, <2>5 DEF StartSupervisor
<1>7. CASE RunIsOver(s)
  <2>1. command[s].id \in RunIds /\ command[s].action \in CandidateAction
    BY <1>0, <1>7 DEF RunIsOver, CommandFits
  <2>2. Over(s)
    BY <1>7, <2>1, Returned DEF RunIsOver, ReturnedStatus, RunStatus
  <2> QED BY <1>7, <2>2, OverFits DEF RunIsOver, TypeOK
<1> QED BY <1>1, <1>2, <1>3, <1>4, <1>5, <1>6, <1>7

\* The steps of the other actions, and of the supervisors.
LEMMA OtherInv ==
  ASSUME Inv,
         \/ \E s \in Sessions :
              \/ StartEvaluation(s) \/ FinishEvaluation(s) \/ RecordEvaluation(s)
              \/ StartBatch(s) \/ FinishBatch(s)
         \/ \E r \in RunIds : SupervisedRunEnds(r) \/ SupervisorDies(r)
  PROVE  Inv'
<1> USE DEF Inv, ledgerVars, artifactVars
<1>0. /\ command \in [Sessions -> CommandRecord] /\ None \in Ids
      /\ \A s \in Sessions : CommandFits(command[s])
  BY DEF TypeOK, Dispatch, Ids
<1>1. ASSUME NEW s \in Sessions, StartEvaluation(s) PROVE Inv'
  <2>1. command[s].handoff \in Evaluations
    BY <1>0, <1>1 DEF StartEvaluation, Executing, CommandFits, Fits
  <2>2. CASE Raise(s) /\ UNCHANGED evaluationDir
    BY <1>1, <2>2, Raised, OverFits DEF StartEvaluation, TypeOK
  <2>3. CASE /\ evaluationDir' = [evaluationDir EXCEPT ![command[s].handoff] = "created"]
             /\ Goto(s, "evaluate", None) /\ UNCHANGED result
    <3>1. OthersKept(s) /\ CommandFits(command'[s])
      BY <1>0, <1>1, <2>3, Moved
         DEF StartEvaluation, Executing, Pcs, CommandFits, Fits, CandidateAction
    <3> QED BY <1>1, <2>1, <2>3, <3>1, MovedFits DEF StartEvaluation, TypeOK
  <2> QED BY <1>1, <2>2, <2>3 DEF StartEvaluation
<1>2. ASSUME NEW s \in Sessions, FinishEvaluation(s) PROVE Inv'
  <2>1. CASE Raise(s) /\ UNCHANGED evaluationDir
    BY <1>2, <2>1, Raised, OverFits DEF FinishEvaluation, TypeOK
  <2>2. CASE /\ evaluationDir' = [evaluationDir EXCEPT ![command[s].handoff] = "complete"]
             /\ Goto(s, "record", None) /\ UNCHANGED result
    <3>1. OthersKept(s) /\ CommandFits(command'[s])
      BY <1>0, <1>2, <2>2, Moved DEF FinishEvaluation, Pcs, CommandFits, Fits, CandidateAction
    <3> QED BY <1>2, <2>2, <3>1, MovedFits DEF FinishEvaluation, TypeOK
  <2> QED BY <1>2, <2>1, <2>2 DEF FinishEvaluation
<1>3. ASSUME NEW s \in Sessions, RecordEvaluation(s) PROVE Inv'
  <2>1. Over(s)
    BY <1>3, Returned DEF RecordEvaluation, ReturnedStatus
  <2>2. command[s].handoff \in Evaluations
    BY <1>0, <1>3 DEF RecordEvaluation, CommandFits, Fits
  <2>3. evaluated \in [Evaluations -> Nat] /\ evaluated[command[s].handoff] + 1 \in Nat
    BY <2>2 DEF TypeOK
  <2>4. evaluated' = [evaluated EXCEPT ![command[s].handoff] = evaluated[command[s].handoff] + 1]
    BY <1>3 DEF RecordEvaluation
  <2>5. evaluated' \in [Evaluations -> Nat]
    BY <2>2, <2>3, <2>4
  <2> QED BY <1>3, <2>1, <2>5, OverFits DEF RecordEvaluation, TypeOK
<1>4. ASSUME NEW s \in Sessions, StartBatch(s) PROVE Inv'
  <2>1. PICK b \in BatchIds : /\ batchSource' = [batchSource EXCEPT ![b] = command[s].handoff]
                              /\ Goto(s, "batch", b)
    BY <1>4 DEF StartBatch
  <2>2. OthersKept(s) /\ CommandFits(command'[s])
    BY <1>0, <1>4, <2>1, Moved DEF StartBatch, Executing, Pcs, Ids, CommandFits, Fits, CandidateAction
  <2>3. command[s].handoff \in Batches
    BY <1>0, <1>4 DEF StartBatch, Executing, CommandFits, Fits
  <2>4. batchSource' \in [BatchIds -> Batches \cup {None}]
    BY <2>1, <2>3 DEF TypeOK
  <2> QED BY <1>4, <2>2, <2>4, MovedFits DEF StartBatch, TypeOK
<1>5. ASSUME NEW s \in Sessions, FinishBatch(s) PROVE Inv'
  <2>1. Over(s)
    BY <1>5, Returned DEF FinishBatch, ReturnedStatus
  <2>2. command[s].id \in BatchIds
    BY <1>0, <1>5 DEF FinishBatch, CommandFits
  <2> QED BY <1>5, <2>1, <2>2, OverFits DEF FinishBatch, TypeOK
<1>6. ASSUME NEW r \in RunIds, SupervisedRunEnds(r) PROVE Inv'
  <2>1. run \in [RunIds -> [candidate : Candidates \cup {None}, status : RunStatus]]
        /\ "ended" \in RunStatus
    BY DEF TypeOK, RunStatus
  <2>2. run' \in [RunIds -> [candidate : Candidates \cup {None}, status : RunStatus]]
    BY <1>6, <2>1 DEF SupervisedRunEnds
  <2>3. terminal' \subseteq RunIds
    BY <1>6 DEF SupervisedRunEnds, TypeOK
  <2> QED BY <1>6, <2>2, <2>3 DEF SupervisedRunEnds, TypeOK, Dispatch
<1>7. ASSUME NEW r \in RunIds, SupervisorDies(r) PROVE Inv'
  <2>1. run \in [RunIds -> [candidate : Candidates \cup {None}, status : RunStatus]]
        /\ "accepted" \in RunStatus
    BY DEF TypeOK, RunStatus
  <2>2. run' \in [RunIds -> [candidate : Candidates \cup {None}, status : RunStatus]]
    BY <1>7, <2>1 DEF SupervisorDies
  <2>3. kills' \in 0..MaxKills
    BY <1>7, ParametersAreChoices DEF SupervisorDies, TypeOK
  <2> QED BY <1>7, <2>2, <2>3 DEF SupervisorDies, TypeOK, Dispatch
<1> QED BY <1>1, <1>2, <1>3, <1>4, <1>5, <1>6, <1>7

LEMMA Invariance == Spec => []Inv
<1>1. Inv /\ [Next]_vars => Inv'
  <2> SUFFICES ASSUME Inv, [Next]_vars PROVE Inv'
    OBVIOUS
  <2>1. CASE Next
    BY <2>1, BeginInv, CandidateInv, OtherInv DEF Next, CommandStep
  <2>2. CASE UNCHANGED vars
    BY <2>2 DEF vars, ledgerVars, artifactVars, Inv, TypeOK, Dispatch
  <2> QED BY <2>1, <2>2
<1> QED BY InitInv, <1>1, PTL DEF Spec

\* Type correctness of the commands: a command never runs out of rounds while it
\* executes, and never executes an action on a handoff of another type.
THEOREM TypeCorrect == Spec => []TypeOK
  BY Invariance, PTL DEF Inv

-----------------------------------------------------------------------------
(* The evaluation directory is a lock *)

LEMMA Quiet ==
  ASSUME DirectoryIsLock, EvaluatedOnce, UNCHANGED <<evaluationDir, evaluated>>,
         \A s \in Sessions, e \in Evaluations : AtWork(s, e)' => AtWork(s, e)
  PROVE  DirectoryIsLock' /\ EvaluatedOnce'
  BY DEF DirectoryIsLock, EvaluatedOnce

\* A session that stops or raises works on no evaluation afterwards.
LEMMA NoNewWork ==
  ASSUME NEW s \in Sessions, command \in [Sessions -> CommandRecord],
         \/ Raise(s)
         \/ \E r, status : Return(s, r, status)
         \/ \E kind, h, action, id, left, seen : Begin(s, kind, h, action, id, left, seen)
         \/ \E left : command' = [command EXCEPT ![s] = Picking(left)]
         \/ command' = [command EXCEPT ![s] = Idle]
         \/ \E pc \in Pcs \ {"evaluate", "record"}, id \in Ids : Goto(s, pc, id)
  PROVE  \A t \in Sessions, e \in Evaluations : AtWork(t, e)' => AtWork(t, e)
<1>1. ASSUME NEW c, c.pc \notin {"evaluate", "record"}, command' = [command EXCEPT ![s] = c]
      PROVE  \A t \in Sessions, e \in Evaluations : AtWork(t, e)' => AtWork(t, e)
  BY <1>1 DEF AtWork
<1>2. Idle.pc = "idle" /\ \A left : Picking(left).pc = "pick"
  BY DEF Idle, Picking
<1>3. CASE Raise(s) \/ command' = [command EXCEPT ![s] = Idle]
  BY <1>1, <1>2, <1>3 DEF Raise
<1>4. CASE (\E r, status : Return(s, r, status))
           \/ (\E left : command' = [command EXCEPT ![s] = Picking(left)])
  BY <1>1, <1>2, <1>4 DEF Return
<1>5. CASE \E kind, h, action, id, left, seen : Begin(s, kind, h, action, id, left, seen)
  BY <1>1, <1>5 DEF Begin
<1>6. CASE \E pc \in Pcs \ {"evaluate", "record"}, id \in Ids : Goto(s, pc, id)
  <2>1. PICK pc \in Pcs \ {"evaluate", "record"}, id \in Ids : Goto(s, pc, id)
    BY <1>6
  <2>2. OthersKept(s) /\ command'[s].pc = pc
    BY <2>1, Moved
  <2> QED BY <2>1, <2>2 DEF AtWork, OthersKept
<1> QED BY <1>3, <1>4, <1>5, <1>6

LEMMA OthersQuiet ==
  ASSUME Inv, NEW s \in Sessions,
         \/ \E h \in Handoffs : AutonomyStep(s, h)
         \/ AutonomyStepWithoutHandoff(s)
         \/ ExecuteNextAction(s) \/ ExecuteOpenActions(s) \/ PickOpenAction(s) \/ Kill(s)
         \/ CheckFails(s) \/ PrepareRun(s) \/ FinishSmoke(s) \/ Announce(s)
         \/ ContinueRun(s) \/ StartSupervisor(s) \/ RunIsOver(s)
         \/ StartBatch(s) \/ FinishBatch(s)
  PROVE  /\ UNCHANGED evaluationDir /\ UNCHANGED evaluated
         /\ \A t \in Sessions, e \in Evaluations : AtWork(t, e)' => AtWork(t, e)
<1> USE DEF ledgerVars, artifactVars
<1>0. command \in [Sessions -> CommandRecord] /\ command[s] \in CommandRecord
      /\ command[s].id \in Ids /\ RunIds \cup BatchIds \subseteq Ids
  BY DEF Inv, TypeOK, Ids, CommandRecord
<1>1. CASE \E h \in Handoffs : AutonomyStep(s, h)
  BY <1>0, <1>1, NoNewWork DEF AutonomyStep, AtWork
<1>2. CASE AutonomyStepWithoutHandoff(s)
  BY <1>2 DEF AutonomyStepWithoutHandoff, AtWork
<1>3. CASE ExecuteNextAction(s)
  BY <1>0, <1>3, NoNewWork DEF ExecuteNextAction
<1>4. CASE ExecuteOpenActions(s)
  BY <1>0, <1>4, NoNewWork DEF ExecuteOpenActions
<1>5. CASE PickOpenAction(s)
  BY <1>0, <1>5, NoNewWork DEF PickOpenAction, BeginOpen
<1>6. CASE Kill(s)
  BY <1>0, <1>6, NoNewWork DEF Kill
<1>7. CASE CheckFails(s)
  BY <1>0, <1>7, NoNewWork DEF CheckFails
<1>8. CASE PrepareRun(s)
  BY <1>0, <1>8, NoNewWork DEF PrepareRun, Pcs
<1>9. CASE FinishSmoke(s)
  BY <1>0, <1>9, NoNewWork DEF FinishSmoke, Pcs
<1>10. CASE Announce(s)
  BY <1>0, <1>10, NoNewWork DEF Announce, Pcs
<1>11. CASE ContinueRun(s)
  BY <1>0, <1>11, NoNewWork DEF ContinueRun, Pcs
<1>12. CASE StartSupervisor(s)
  BY <1>0, <1>12, NoNewWork DEF StartSupervisor, Pcs
<1>13. CASE RunIsOver(s)
  BY <1>0, <1>13, NoNewWork DEF RunIsOver
<1>14. CASE StartBatch(s)
  BY <1>0, <1>14, NoNewWork DEF StartBatch, Pcs
<1>15. CASE FinishBatch(s)
  BY <1>0, <1>15, NoNewWork DEF FinishBatch
<1> QED BY <1>1, <1>2, <1>3, <1>4, <1>5, <1>6, <1>7, <1>8, <1>9, <1>10, <1>11, <1>12,
           <1>13, <1>14, <1>15

LEMMA EvaluationStep ==
  ASSUME Inv, DirectoryIsLock, EvaluatedOnce, NEW s \in Sessions,
         StartEvaluation(s) \/ FinishEvaluation(s) \/ RecordEvaluation(s)
  PROVE  DirectoryIsLock' /\ EvaluatedOnce'
<1> USE DEF ledgerVars, artifactVars
<1> DEFINE h == command[s].handoff
<1>0. /\ command \in [Sessions -> CommandRecord] /\ None \in Ids
      /\ evaluationDir \in [Evaluations -> {"absent", "created", "complete"}]
      /\ evaluated \in [Evaluations -> Nat]
      /\ h \in Evaluations
  BY DEF Inv, TypeOK, Dispatch, CommandFits, Fits, Ids, StartEvaluation, FinishEvaluation,
         RecordEvaluation, Executing
<1>1. CASE Raise(s) /\ UNCHANGED <<evaluationDir, evaluated>>
  BY <1>0, <1>1, NoNewWork, Quiet
<1>2. CASE /\ StartEvaluation(s) /\ evaluationDir[h] = "absent"
  <2>1. /\ evaluationDir' = [evaluationDir EXCEPT ![h] = "created"]
        /\ Goto(s, "evaluate", None) /\ evaluated' = evaluated
    BY <1>2 DEF StartEvaluation
  <2>2. OthersKept(s) /\ command'[s].pc = "evaluate" /\ command'[s].handoff = h
    BY <1>0, <2>1, Moved DEF Pcs
  <2>3. evaluated[h] = 0 /\ \A t \in Sessions : ~AtWork(t, h)
    BY <1>0, <1>2 DEF DirectoryIsLock
  <2>4. \A t \in Sessions, e \in Evaluations :
           AtWork(t, e)' <=> \/ t = s /\ e = h
                             \/ t # s /\ AtWork(t, e)
    BY <2>2 DEF AtWork, OthersKept
  <2> QED BY <1>0, <2>1, <2>3, <2>4 DEF DirectoryIsLock, EvaluatedOnce
<1>3. CASE /\ FinishEvaluation(s) /\ ~Raise(s)
  <2>1. /\ evaluationDir' = [evaluationDir EXCEPT ![h] = "complete"]
        /\ Goto(s, "record", None) /\ evaluated' = evaluated /\ AtWork(s, h)
    BY <1>3 DEF FinishEvaluation, AtWork
  <2>2. OthersKept(s) /\ command'[s].pc = "record" /\ command'[s].handoff = h
    BY <1>0, <2>1, Moved DEF Pcs
  <2>3. \A t \in Sessions, e \in Evaluations : AtWork(t, e)' <=> AtWork(t, e)
    BY <2>1, <2>2 DEF AtWork, OthersKept
  <2> QED BY <1>0, <2>1, <2>3 DEF DirectoryIsLock, EvaluatedOnce
<1>4. CASE RecordEvaluation(s)
  <2>1. AtWork(s, h) /\ evaluationDir' = evaluationDir
        /\ evaluated' = [evaluated EXCEPT ![h] = evaluated[h] + 1]
        /\ Return(s, None, "completed")
    BY <1>4 DEF RecordEvaluation, AtWork
  <2>2. evaluated[h] = 0 /\ evaluationDir[h] # "absent"
        /\ \A t \in Sessions : AtWork(t, h) => t = s
    BY <1>0, <2>1 DEF DirectoryIsLock
  <2>3. evaluated' = [evaluated EXCEPT ![h] = 1]
    BY <2>1, <2>2
  <2>4. \A t \in Sessions, e \in Evaluations : AtWork(t, e)' => AtWork(t, e)
    BY <1>0, <2>1, NoNewWork
  <2>5. \A e \in Evaluations : ~AtWork(s, e)'
    <3>1. command' = [command EXCEPT ![s] = Idle]
          \/ \E left : command' = [command EXCEPT ![s] = Picking(left)]
      BY <2>1 DEF Return
    <3> QED BY <1>0, <3>1 DEF AtWork, Idle, Picking
  <2>6. \A e \in Evaluations : evaluated'[e] = IF e = h THEN 1 ELSE evaluated[e]
    BY <1>0, <2>3
  <2>7. EvaluatedOnce'
    BY <2>6 DEF EvaluatedOnce
  <2>8. \A t \in Sessions, e \in Evaluations : e = h => ~AtWork(t, e)'
    BY <1>0, <2>2, <2>4, <2>5
  <2>9. \A t \in Sessions, e \in Evaluations :
           AtWork(t, e)' => evaluationDir'[e] # "absent" /\ evaluated'[e] = 0
    BY <2>1, <2>4, <2>6, <2>8 DEF DirectoryIsLock
  <2>10. \A e \in Evaluations : evaluationDir'[e] = "absent" => evaluated'[e] = 0
    BY <2>1, <2>2, <2>6 DEF DirectoryIsLock
  <2>11. \A t, u \in Sessions, e \in Evaluations : AtWork(t, e)' /\ AtWork(u, e)' => t = u
    BY <2>4 DEF DirectoryIsLock
  <2>12. DirectoryIsLock'
    BY <2>9, <2>10, <2>11 DEF DirectoryIsLock
  <2> QED BY <2>7, <2>12
<1>5. CASE StartEvaluation(s) /\ evaluationDir[h] # "absent"
  <2>1. Raise(s) /\ UNCHANGED <<evaluationDir, evaluated>>
    BY <1>5 DEF StartEvaluation
  <2> QED BY <1>1, <2>1
<1>6. CASE FinishEvaluation(s) /\ Raise(s)
  <2>1. CASE UNCHANGED evaluationDir
    BY <1>1, <1>6, <2>1 DEF FinishEvaluation
  <2>2. CASE ~UNCHANGED evaluationDir
    <3>1. Goto(s, "record", None)
      BY <1>6, <2>2 DEF FinishEvaluation
    <3>2. command'[s].pc = "record"
      BY <1>0, <3>1, Moved DEF Pcs
    <3>3. command'[s].pc = "idle"
      BY <1>0, <1>6 DEF Raise, Idle
    <3> QED BY <3>2, <3>3
  <2> QED BY <2>1, <2>2
<1> QED BY <1>2, <1>3, <1>4, <1>5, <1>6

\* An Evaluation Request is recorded as completed at most once, whatever the
\* number of sessions, the commands they run and the moments they are killed.
THEOREM EvaluationsRecordedOnce == Spec => []EvaluatedOnce
<1>1. Init => DirectoryIsLock /\ EvaluatedOnce
  BY DEF Init, DirectoryIsLock, EvaluatedOnce, AtWork, Idle
<1>2. Inv /\ DirectoryIsLock /\ EvaluatedOnce /\ [Next]_vars => DirectoryIsLock' /\ EvaluatedOnce'
  <2> SUFFICES ASSUME Inv, DirectoryIsLock, EvaluatedOnce, [Next]_vars
               PROVE  DirectoryIsLock' /\ EvaluatedOnce'
    OBVIOUS
  <2>1. ASSUME NEW r \in RunIds, SupervisedRunEnds(r) \/ SupervisorDies(r)
        PROVE  DirectoryIsLock' /\ EvaluatedOnce'
    <3>1. UNCHANGED <<evaluationDir, evaluated, command>>
      BY <2>1 DEF SupervisedRunEnds, SupervisorDies, ledgerVars
    <3> QED BY <3>1, Quiet DEF AtWork
  <2>2. CASE UNCHANGED vars
    BY <2>2, Quiet DEF vars, ledgerVars, artifactVars, AtWork
  <2>3. ASSUME NEW s \in Sessions,
               StartEvaluation(s) \/ FinishEvaluation(s) \/ RecordEvaluation(s)
        PROVE  DirectoryIsLock' /\ EvaluatedOnce'
    BY <2>3, EvaluationStep
  <2>4. ASSUME NEW s \in Sessions,
               \/ \E h \in Handoffs : AutonomyStep(s, h)
               \/ AutonomyStepWithoutHandoff(s)
               \/ ExecuteNextAction(s) \/ ExecuteOpenActions(s) \/ PickOpenAction(s) \/ Kill(s)
               \/ CheckFails(s) \/ PrepareRun(s) \/ FinishSmoke(s) \/ Announce(s)
               \/ ContinueRun(s) \/ StartSupervisor(s) \/ RunIsOver(s)
               \/ StartBatch(s) \/ FinishBatch(s)
        PROVE  DirectoryIsLock' /\ EvaluatedOnce'
    BY <2>4, OthersQuiet, Quiet
  <2> QED BY <2>1, <2>2, <2>3, <2>4 DEF Next, CommandStep
<1> QED BY <1>1, <1>2, Invariance, PTL DEF Spec

-----------------------------------------------------------------------------
(* One Run for each Candidate *)

Safe == Inv /\ Announced /\ TrainedRunIsAnnounced

LEMMA IdleAnnounces ==
  CommandAnnounces(Idle) /\ \A left \in Nat : CommandAnnounces(Picking(left))
  BY DEF CommandAnnounces, Idle, Picking

\* A step that touches neither the announcements nor the Runs, by the only session.
LEMMA CommandOnly ==
  ASSUME Safe, OneOperator, NEW s \in Sessions, OthersKept(s),
         UNCHANGED <<submitted, run>>, ToSet(ingested) \subseteq ToSet(ingested'),
         CommandAnnounces(command[s])'
  PROVE  Announced' /\ TrainedRunIsAnnounced'
<1>1. \A t \in Sessions : t = s
  BY DEF OneOperator
<1>2. \A t \in Sessions : CommandAnnounces(command[t])'
  BY <1>1
<1>3. TrainedRunIsAnnounced'
  BY DEF Safe, TrainedRunIsAnnounced
<1> QED BY <1>2, <1>3 DEF Safe, Announced

LEMMA OverAnnounces ==
  ASSUME Safe, OneOperator, NEW s \in Sessions, Over(s),
         UNCHANGED <<submitted, run, ingested>>
  PROVE  Announced' /\ TrainedRunIsAnnounced'
<1>1. CASE command'[s] = Idle
  <2>1. CommandAnnounces(command[s])'
    BY <1>1 DEF CommandAnnounces, Idle
  <2> QED BY <2>1, CommandOnly DEF Over
<1>2. ASSUME NEW left \in Nat, command'[s] = Picking(left)
      PROVE  Announced' /\ TrainedRunIsAnnounced'
  <2>1. CommandAnnounces(command[s])'
    BY <1>2 DEF CommandAnnounces, Picking
  <2> QED BY <2>1, CommandOnly DEF Over
<1> QED BY <1>1, <1>2 DEF Over

LEMMA BeginAnnounces ==
  ASSUME Safe, OneOperator, NEW s \in Sessions,
         \/ \E h \in Handoffs : AutonomyStep(s, h)
         \/ AutonomyStepWithoutHandoff(s)
         \/ ExecuteNextAction(s) \/ ExecuteOpenActions(s) \/ PickOpenAction(s) \/ Kill(s)
  PROVE  Announced' /\ TrainedRunIsAnnounced'
<1> USE DEF ledgerVars, artifactVars
<1>0. /\ command \in [Sessions -> CommandRecord] /\ None \in Ids /\ 1 \in Nat
      /\ ingested \in Seq(Handoffs) /\ IsInjective(ingested)
      /\ CommandAnnounces(command[s])
  BY DEF Safe, Inv, TypeOK, Announced, Ids
<1>1. ASSUME NEW h \in Handoffs, AutonomyStep(s, h)
      PROVE  Announced' /\ TrainedRunIsAnnounced'
  <2>1. ToSet(ingested') = ToSet(ingested) \cup {h}
    BY <1>0, <1>1, IngestedType DEF AutonomyStep
  <2>2. CASE Begin(s, "step", h, FirstAction(h), None, 1, Outstanding(h, FirstAction(h)))
    <3>1. OthersKept(s)
          /\ command'[s] = [kind |-> "step", pc |-> "execute", handoff |-> h,
                            action |-> FirstAction(h), id |-> None, left |-> 1,
                            seen |-> Outstanding(h, FirstAction(h))]
      <4>1. /\ "step" \in CommandKinds /\ FirstAction(h) \in Actions \cup {"none"}
            /\ Outstanding(h, FirstAction(h)) \in ResultRecord
        BY FirstActionFits, OutstandingType DEF CommandKinds
      <4> QED BY <1>0, <2>2, <4>1 DEF Begin, OthersKept, CommandRecord, Pcs
    <3>2. FirstAction(h) = "run_candidate" => submitted[h] = None
      <4>1. h \notin ToSet(ingested)
        BY <1>1 DEF AutonomyStep
      <4>2. FirstAction(h) = "run_candidate" => h \in Candidates
        BY FirstActionFits DEF Fits
      <4> QED BY <4>1, <4>2 DEF Safe, Announced
    <3>3. UNCHANGED <<submitted, run>>
      BY <1>1 DEF AutonomyStep
    <3>4. CommandAnnounces(command[s])'
      BY <2>1, <3>1, <3>2, <3>3 DEF CommandAnnounces
    <3> QED BY <2>1, <3>1, <3>3, <3>4, CommandOnly
  <2>3. CASE UNCHANGED command
    <3>1. UNCHANGED <<submitted, run>>
      BY <1>1 DEF AutonomyStep
    <3>2. CommandAnnounces(command[s])'
      BY <1>0, <2>1, <2>3, <3>1 DEF CommandAnnounces
    <3> QED BY <1>0, <2>1, <2>3, <3>1, <3>2, CommandOnly DEF OthersKept
  <2> QED BY <1>1, <2>2, <2>3 DEF AutonomyStep
<1>2. CASE AutonomyStepWithoutHandoff(s)
  <2>1. UNCHANGED <<submitted, run, ingested, command>>
    BY <1>2 DEF AutonomyStepWithoutHandoff
  <2>2. CommandAnnounces(command[s])'
    BY <1>0, <2>1 DEF CommandAnnounces
  <2> QED BY <1>0, <2>1, <2>2, CommandOnly DEF OthersKept
<1>3. CASE ExecuteNextAction(s)
  BY <1>3 DEF ExecuteNextAction, OneOperator
<1>4. CASE ExecuteOpenActions(s)
  <2>1. OthersKept(s) /\ command'[s] = Picking(Cardinality(Open))
    BY <1>0, <1>4, OpenIsFinite, Picked DEF ExecuteOpenActions
  <2>2. CommandAnnounces(command[s])'
    BY <2>1 DEF CommandAnnounces, Picking
  <2> QED BY <1>4, <2>1, <2>2, CommandOnly DEF ExecuteOpenActions
<1>5. CASE PickOpenAction(s)
  <2>0. UNCHANGED <<submitted, run, ingested>>
    BY <1>5 DEF PickOpenAction
  <2>1. CASE command' = [command EXCEPT ![s] = Idle]
    <3>1. OthersKept(s) /\ command'[s] = Idle
      BY <1>0, <2>1, Ended
    <3>2. CommandAnnounces(command[s])'
      BY <3>1 DEF CommandAnnounces, Idle
    <3> QED BY <2>0, <3>1, <3>2, CommandOnly
  <2>2. ASSUME NEW i \in Open, BeginOpen(s, ingested[i])
        PROVE  Announced' /\ TrainedRunIsAnnounced'
    <3> DEFINE h == ingested[i]
               r == IF OpenAction(h) = "reconcile_run" THEN submitted[h] ELSE None
    <3>1. h \in Handoffs /\ h \in ToSet(ingested) /\ command[s].left \in Nat
      BY <1>0, <2>2 DEF Open, ToSet, CommandRecord
    <3>2. OpenAction(h) = "run_candidate" => submitted[h] = None
      BY <3>1, OpenActionFits DEF Safe, Inv
    <3>6. r \in Ids
      BY <3>1, OpenActionFits DEF Ids, Safe, Inv
    <3>7. OpenAction(h) \in Actions \cup {"none"}
      BY <3>1, OpenActionFits DEF Safe, Inv
    <3>3. Begin(s, "open", h, OpenAction(h), r, command[s].left, NoResult)
      BY <2>2 DEF BeginOpen
    <3>4. OthersKept(s)
          /\ command'[s] = [kind |-> "open", pc |-> "execute", handoff |-> h,
                            action |-> OpenAction(h), id |-> r, left |-> command[s].left,
                            seen |-> NoResult]
      <4>1. "open" \in CommandKinds /\ NoResult \in ResultRecord
        BY OutstandingType DEF CommandKinds
      <4> QED BY <1>0, <3>1, <3>3, <3>6, <3>7, <4>1 DEF Begin, OthersKept, CommandRecord, Pcs
    <3>5. CommandAnnounces(command[s])'
      BY <2>0, <3>1, <3>2, <3>4 DEF CommandAnnounces
    <3> QED BY <2>0, <3>4, <3>5, CommandOnly
  <2> QED BY <1>5, <2>1, <2>2 DEF PickOpenAction
<1>6. CASE Kill(s)
  <2>1. OthersKept(s) /\ command'[s] = Idle
    BY <1>0, <1>6, Ended DEF Kill
  <2>2. CommandAnnounces(command[s])'
    BY <2>1 DEF CommandAnnounces, Idle
  <2> QED BY <1>6, <2>1, <2>2, CommandOnly DEF Kill
<1> QED BY <1>1, <1>2, <1>3, <1>4, <1>5, <1>6

\* The Runs a step leaves alone keep what Announced says of them.
LEMMA CandidateAnnounces ==
  ASSUME Safe, OneOperator, NEW s \in Sessions,
         \/ CheckFails(s) \/ PrepareRun(s) \/ FinishSmoke(s) \/ Announce(s)
         \/ ContinueRun(s) \/ StartSupervisor(s) \/ RunIsOver(s)
  PROVE  Announced' /\ TrainedRunIsAnnounced'
<1> USE DEF ledgerVars, artifactVars
<1> DEFINE r == command[s].id
           h == command[s].handoff
<1>0. /\ Inv /\ TypeOK /\ Dispatch
      /\ command \in [Sessions -> CommandRecord] /\ command[s] \in CommandRecord
      /\ CommandFits(command[s]) /\ CommandAnnounces(command[s])
      /\ run \in [RunIds -> [candidate : Candidates \cup {None}, status : RunStatus]]
      /\ submitted \in [Candidates -> RunIds \cup {None}]
      /\ RunIds \subseteq Ids /\ RunStatus \subseteq ReturnedStatus
      /\ \A t \in Sessions : t = s
      /\ None \notin Candidates /\ None \notin RunIds
  BY NoneIsNoId DEF Safe, Inv, TypeOK, Dispatch, Announced, Ids, ReturnedStatus, OneOperator,
     Handoffs
<1>1. CASE CheckFails(s)
  BY <1>0, <1>1, Raised, OverAnnounces DEF CheckFails
<1>2. CASE PrepareRun(s)
  <2>1. CASE Return(s, None, "rejected") /\ UNCHANGED run
    <3>1. Over(s)
      BY <1>0, <1>2, <2>1, Returned DEF PrepareRun, Executing, ReturnedStatus
    <3> QED BY <1>2, <2>1, <3>1, OverAnnounces DEF PrepareRun
  <2>2. ASSUME NEW q \in RunIds, run[q].status = "none",
               run' = [run EXCEPT ![q] = [candidate |-> h, status |-> "smoke_testing"]],
               Goto(s, "smoke", q)
        PROVE  Announced' /\ TrainedRunIsAnnounced'
    <3>1. /\ OthersKept(s) /\ command'[s].pc = "smoke" /\ command'[s].id = q
          /\ command'[s].kind = command[s].kind /\ command'[s].handoff = h
      BY <1>0, <2>2, Moved DEF Pcs
    <3>2. UNCHANGED <<submitted, ingested>>
      BY <1>2 DEF PrepareRun
    <3>3. command[s].pc = "execute" /\ command[s].action = "run_candidate"
      BY <1>2 DEF PrepareRun, Executing
    <3>4. CommandAnnounces(command[s])'
      BY <1>0, <2>2, <3>1, <3>2, <3>3 DEF CommandAnnounces
    <3>5. \A c \in Candidates : submitted[c] # q
      BY <1>0, <2>2 DEF Safe, Announced
    <3>6. \A p \in RunIds \ {q} : run'[p] = run[p]
      BY <1>0, <2>2
    <3>7. Announced'
      BY <1>0, <3>2, <3>4, <3>5, <3>6 DEF Safe, Announced
    <3>8. run'[q].status = "smoke_testing"
      BY <1>0, <2>2
    <3>9. TrainedRunIsAnnounced'
      BY <3>2, <3>6, <3>8 DEF Safe, TrainedRunIsAnnounced
    <3> QED BY <3>7, <3>9
  <2> QED BY <1>2, <2>1, <2>2 DEF PrepareRun
<1>3. CASE FinishSmoke(s)
  <2>0. /\ r \in RunIds /\ UNCHANGED <<submitted, ingested>> /\ submitted[h] = None
        /\ run[r].candidate = h /\ h \in ToSet(ingested) /\ command[s].kind # "next"
    BY <1>0, <1>3 DEF FinishSmoke, CommandFits, CommandAnnounces
  <2>1. \A c \in Candidates : submitted[c] # r
    BY <1>0, <2>0 DEF Safe, Announced
  <2>2. CASE run' = [run EXCEPT ![r].status = "accepted"] /\ Goto(s, "announce", r)
    <3>1. /\ OthersKept(s) /\ command'[s].pc = "announce" /\ command'[s].id = r
          /\ command'[s].kind = command[s].kind /\ command'[s].handoff = h
      BY <1>0, <2>0, <2>2, Moved DEF Pcs
    <3>2. run'[r].candidate = h /\ run'[r].status = "accepted"
          /\ \A p \in RunIds \ {r} : run'[p] = run[p]
      BY <1>0, <2>0, <2>2
    <3>3. CommandAnnounces(command[s])'
      BY <2>0, <3>1, <3>2 DEF CommandAnnounces
    <3>4. Announced'
      BY <1>0, <2>0, <2>1, <3>2, <3>3 DEF Safe, Announced
    <3>5. TrainedRunIsAnnounced'
      BY <2>0, <3>2 DEF Safe, TrainedRunIsAnnounced
    <3> QED BY <3>4, <3>5
  <2>3. CASE run' = [run EXCEPT ![r] = NoRun] /\ Return(s, None, "smoke_failed")
    <3>1. Over(s)
      BY <1>0, <1>3, <2>3, Returned DEF FinishSmoke, ReturnedStatus
    <3>2. CommandAnnounces(command[s])'
      <4>1. CASE command'[s] = Idle
        BY <4>1 DEF CommandAnnounces, Idle
      <4>2. ASSUME NEW left \in Nat, command'[s] = Picking(left)
            PROVE  CommandAnnounces(command[s])'
        BY <4>2 DEF CommandAnnounces, Picking
      <4> QED BY <3>1, <4>1, <4>2 DEF Over
    <3>3. run'[r] = NoRun /\ \A p \in RunIds \ {r} : run'[p] = run[p]
      BY <1>0, <2>0, <2>3
    <3>4. Announced'
      BY <1>0, <2>0, <2>1, <3>2, <3>3 DEF Safe, Announced
    <3>5. TrainedRunIsAnnounced'
      BY <2>0, <3>3 DEF Safe, TrainedRunIsAnnounced, NoRun
    <3> QED BY <3>4, <3>5
  <2> QED BY <1>3, <2>2, <2>3 DEF FinishSmoke
<1>4. CASE Announce(s)
  <2>0. /\ r \in RunIds /\ h \in Candidates /\ submitted[h] = None /\ h \in ToSet(ingested)
        /\ run[r].candidate = h /\ run[r].status \in {"smoke_testing", "accepted"}
        /\ command[s].kind # "next"
    BY <1>0, <1>4 DEF Announce, CommandFits, Fits, CommandAnnounces, CandidateAction
  <2>1. /\ UNCHANGED <<run, ingested>> /\ submitted' = [submitted EXCEPT ![h] = r]
        /\ Goto(s, "start", r)
    BY <1>4 DEF Announce
  <2>2. /\ OthersKept(s) /\ command'[s].pc = "start" /\ command'[s].id = r
        /\ command'[s].kind = command[s].kind /\ command'[s].handoff = h
    BY <1>0, <2>0, <2>1, Moved DEF Pcs
  <2>3. submitted'[h] = r /\ \A c \in Candidates \ {h} : submitted'[c] = submitted[c]
    BY <1>0, <2>0, <2>1
  <2>4. CommandAnnounces(command[s])'
    BY <2>0, <2>2, <2>3 DEF CommandAnnounces
  <2>5. Announced'
    BY <1>0, <2>0, <2>1, <2>3, <2>4 DEF Safe, Announced
  <2>6. \A p \in RunIds : run[p].status \in {"training", "ended"} =>
           run[p].candidate \in Candidates \ {h} \/ run[p].candidate = None
    BY <1>0, <2>0 DEF Safe, TrainedRunIsAnnounced
  <2>7. TrainedRunIsAnnounced'
    BY <1>0, <2>0, <2>1, <2>3, <2>6 DEF Safe, TrainedRunIsAnnounced
  <2> QED BY <2>5, <2>7
<1>5. CASE ContinueRun(s)
  <2>0. /\ r \in RunIds /\ submitted[h] = r /\ command[s].action \in CandidateAction
        /\ UNCHANGED <<submitted, run, ingested>> /\ command[s].kind # "next"
    BY <1>0, <1>5 DEF ContinueRun, CommandFits, CommandAnnounces
  <2>1. CASE Goto(s, "start", r)
    <3>1. /\ OthersKept(s) /\ command'[s].pc = "start" /\ command'[s].id = r
          /\ command'[s].kind = command[s].kind /\ command'[s].handoff = h
      BY <1>0, <2>0, <2>1, Moved DEF Pcs
    <3>2. CommandAnnounces(command[s])'
      BY <2>0, <3>1 DEF CommandAnnounces
    <3> QED BY <2>0, <3>1, <3>2, CommandOnly
  <2>2. CASE Return(s, r, run[r].status)
    <3>1. Over(s)
      BY <1>0, <1>5, <2>0, <2>2, Returned DEF ContinueRun
    <3> QED BY <2>0, <3>1, OverAnnounces
  <2> QED BY <1>5, <2>1, <2>2 DEF ContinueRun
<1>6. CASE StartSupervisor(s)
  <2>0. /\ r \in RunIds /\ submitted[h] = r /\ h \in Candidates
        /\ UNCHANGED <<submitted, ingested>> /\ command[s].kind # "next"
    BY <1>0, <1>6 DEF StartSupervisor, CommandFits, Fits, CommandAnnounces, CandidateAction
  <2>1. run[r].candidate = h
    BY <1>0, <2>0 DEF Safe, Announced
  <2>2. CASE UNCHANGED run /\ Raise(s)
    BY <1>0, <2>0, <2>2, Raised, OverAnnounces
  <2>4. CASE UNCHANGED run /\ Return(s, r, "accepted")
    <3>1. Over(s)
      BY <1>0, <1>6, <2>0, <2>4, Returned
         DEF StartSupervisor, ReturnedStatus, RunStatus, CommandFits
    <3> QED BY <2>0, <2>4, <3>1, OverAnnounces
  <2>3. CASE Goto(s, "wait", r)
    <3>1. /\ OthersKept(s) /\ command'[s].pc = "wait" /\ command'[s].id = r
          /\ command'[s].kind = command[s].kind /\ command'[s].handoff = h
      BY <1>0, <2>0, <2>3, Moved DEF Pcs
    <3>2. CommandAnnounces(command[s])'
      BY <2>0, <3>1 DEF CommandAnnounces
    <3>3. CASE UNCHANGED run
      BY <2>0, <3>1, <3>2, <3>3, CommandOnly
    <3>4. CASE run' = [run EXCEPT ![r].status = "training"]
      <4>1. run'[r].candidate = h /\ run'[r].status = "training"
            /\ \A p \in RunIds \ {r} : run'[p] = run[p]
        BY <1>0, <2>0, <2>1, <3>4
      <4>2. Announced'
        BY <1>0, <2>0, <2>1, <3>2, <4>1 DEF Safe, Announced
      <4>3. TrainedRunIsAnnounced'
        BY <2>0, <4>1 DEF Safe, TrainedRunIsAnnounced
      <4> QED BY <4>2, <4>3
    <3> QED BY <1>6, <3>3, <3>4 DEF StartSupervisor
  <2> QED BY <1>6, <2>2, <2>3, <2>4 DEF StartSupervisor
<1>7. CASE RunIsOver(s)
  <2>1. r \in RunIds /\ command[s].action \in CandidateAction
    BY <1>0, <1>7 DEF RunIsOver, CommandFits
  <2>2. Over(s)
    BY <1>0, <1>7, <2>1, Returned DEF RunIsOver, ReturnedStatus, RunStatus
  <2> QED BY <1>7, <2>2, OverAnnounces DEF RunIsOver
<1> QED BY <1>1, <1>2, <1>3, <1>4, <1>5, <1>6, <1>7

LEMMA OtherAnnounces ==
  ASSUME Safe, OneOperator, NEW s \in Sessions,
         \/ StartEvaluation(s) \/ FinishEvaluation(s) \/ RecordEvaluation(s)
         \/ StartBatch(s) \/ FinishBatch(s)
  PROVE  Announced' /\ TrainedRunIsAnnounced'
<1> USE DEF ledgerVars, artifactVars
<1>0. /\ TypeOK /\ Dispatch /\ command \in [Sessions -> CommandRecord]
      /\ CommandFits(command[s]) /\ CommandAnnounces(command[s])
      /\ None \in Ids /\ BatchIds \subseteq Ids /\ "completed" \in ReturnedStatus
  BY DEF Safe, Inv, TypeOK, Dispatch, Announced, Ids, ReturnedStatus
<1>1. UNCHANGED <<submitted, run, ingested>>
  BY DEF StartEvaluation, FinishEvaluation, RecordEvaluation, StartBatch, FinishBatch
<1>2. CASE Raise(s)
  BY <1>0, <1>1, <1>2, Raised, OverAnnounces
<1>3. CASE RecordEvaluation(s) \/ FinishBatch(s)
  <2>1. Over(s)
    BY <1>0, <1>3, Returned DEF RecordEvaluation, FinishBatch
  <2> QED BY <1>1, <2>1, OverAnnounces
<1>4. ASSUME NEW pc \in {"evaluate", "record", "batch"}, NEW id \in Ids, Goto(s, pc, id)
      PROVE  Announced' /\ TrainedRunIsAnnounced'
  <2>1. OthersKept(s) /\ command'[s].pc = pc /\ command'[s].kind = command[s].kind
    BY <1>0, <1>4, Moved DEF Pcs
  <2>2. CommandAnnounces(command[s])'
    BY <1>0, <2>1 DEF CommandAnnounces
  <2> QED BY <1>1, <2>1, <2>2, CommandOnly
<1> QED BY <1>0, <1>2, <1>3, <1>4 DEF StartEvaluation, FinishEvaluation, StartBatch

LEMMA SupervisorAnnounces ==
  ASSUME Safe, NEW q \in RunIds, SupervisedRunEnds(q) \/ SupervisorDies(q)
  PROVE  Announced' /\ TrainedRunIsAnnounced'
<1>1. /\ run \in [RunIds -> [candidate : Candidates \cup {None}, status : RunStatus]]
      /\ run[q].status = "training" /\ UNCHANGED <<submitted, ingested, command>>
      /\ submitted \in [Candidates -> RunIds \cup {None}]
      /\ command \in [Sessions -> CommandRecord]
      /\ \A s \in Sessions : CommandFits(command[s]) /\ CommandAnnounces(command[s])
  BY DEF SupervisedRunEnds, SupervisorDies, Safe, Inv, TypeOK, Dispatch, Announced, ledgerVars
<1>2. /\ run'[q].candidate = run[q].candidate /\ run'[q].status \in {"ended", "accepted"}
      /\ \A p \in RunIds \ {q} : run'[p] = run[p]
  BY <1>1 DEF SupervisedRunEnds, SupervisorDies
<1>3. \A s \in Sessions : CommandAnnounces(command[s])'
  BY <1>1, <1>2 DEF CommandAnnounces, CommandFits
<1>4. Announced'
  BY <1>1, <1>2, <1>3 DEF Safe, Announced
<1>5. TrainedRunIsAnnounced'
  BY <1>1, <1>2 DEF Safe, TrainedRunIsAnnounced
<1> QED BY <1>4, <1>5

LEMMA SafeStep ==
  ASSUME Safe, OneOperator, [Next]_vars
  PROVE  Announced' /\ TrainedRunIsAnnounced'
<1>1. CASE UNCHANGED vars
  <2>1. UNCHANGED <<submitted, run, ingested, command>>
    BY <1>1 DEF vars, ledgerVars, artifactVars
  <2>2. \A s \in Sessions : CommandAnnounces(command[s])'
    BY <2>1 DEF Safe, Announced, CommandAnnounces
  <2> QED BY <2>1, <2>2 DEF Safe, Announced, TrainedRunIsAnnounced
<1>2. CASE Next
  BY <1>2, BeginAnnounces, CandidateAnnounces, OtherAnnounces, SupervisorAnnounces
     DEF Next, CommandStep
<1> QED BY <1>1, <1>2

\* A new Run is prepared only for a Candidate without an announced one.
LEMMA PreparesOnce ==
  ASSUME Safe, [Next]_vars, NEW q \in RunIds,
         run[q].status = "none", run'[q].status # "none"
  PROVE  submitted[run'[q].candidate] = None
<1>0. /\ run \in [RunIds -> [candidate : Candidates \cup {None}, status : RunStatus]]
      /\ \A s \in Sessions : CommandFits(command[s]) /\ CommandAnnounces(command[s])
  BY DEF Safe, Inv, TypeOK, Dispatch, Announced
<1>1. run' # run
  OBVIOUS
<1>2. PICK p \in RunIds : SupervisedRunEnds(p) \/ SupervisorDies(p)
        \/ \E s \in Sessions : PrepareRun(s) \/ FinishSmoke(s) \/ StartSupervisor(s)
  BY <1>1 DEF Next, CommandStep, vars, ledgerVars, artifactVars, AutonomyStep,
     AutonomyStepWithoutHandoff, ExecuteNextAction, ExecuteOpenActions, PickOpenAction,
     CheckFails, Announce, ContinueRun, RunIsOver, StartEvaluation, FinishEvaluation,
     RecordEvaluation, StartBatch, FinishBatch, Kill
<1>3. CASE SupervisedRunEnds(p) \/ SupervisorDies(p)
  BY <1>0, <1>3 DEF SupervisedRunEnds, SupervisorDies
<1>4. ASSUME NEW s \in Sessions, FinishSmoke(s)
      PROVE  submitted[run'[q].candidate] = None
  <2>1. command[s].id # q /\ command[s].id \in RunIds
    BY <1>0, <1>4 DEF FinishSmoke, CommandAnnounces, CommandFits
  <2> QED BY <1>0, <1>4, <2>1 DEF FinishSmoke
<1>5. ASSUME NEW s \in Sessions, StartSupervisor(s)
      PROVE  submitted[run'[q].candidate] = None
  <2>1. command[s].id \in RunIds
    BY <1>0, <1>5 DEF StartSupervisor, CommandFits
  <2> QED BY <1>0, <1>5, <2>1 DEF StartSupervisor
<1>6. ASSUME NEW s \in Sessions, PrepareRun(s)
      PROVE  submitted[run'[q].candidate] = None
  <2>1. PICK r \in RunIds :
           run' = [run EXCEPT ![r] = [candidate |-> command[s].handoff,
                                      status |-> "smoke_testing"]]
    BY <1>1, <1>6 DEF PrepareRun
  <2>2. submitted[command[s].handoff] = None
    BY <1>0, <1>6 DEF PrepareRun, Executing, CommandAnnounces
  <2> QED BY <1>0, <2>1, <2>2
<1> QED BY <1>2, <1>3, <1>4, <1>5, <1>6

\* What one operator's commands carry agrees with the ledger in every behaviour.
LEMMA AnnouncedHolds ==
  ASSUME OneOperator
  PROVE  Spec => [](Announced /\ TrainedRunIsAnnounced)
<1>1. Init => Announced /\ TrainedRunIsAnnounced
  BY IdleAnnounces DEF Init, Announced, TrainedRunIsAnnounced, CommandAnnounces, Idle, NoRun
<1>2. Inv /\ Announced /\ TrainedRunIsAnnounced /\ [Next]_vars
        => Announced' /\ TrainedRunIsAnnounced'
  BY SafeStep DEF Safe
<1> QED BY <1>1, <1>2, Invariance, PTL DEF Spec

\* With one operator who recovers with execute-open-actions a Run trains only
\* when it is the one the ledger announced for its Candidate: a killed command
\* leaves no Run behind that trains without an event.
THEOREM OnlyAnnouncedRunsTrain ==
  ASSUME OneOperator
  PROVE  Spec => []TrainedRunIsAnnounced
BY AnnouncedHolds, PTL

\* One operator who recovers with execute-open-actions prepares no second Run for
\* an announced Candidate, however often the commands are killed.
THEOREM OneRunPerCandidate ==
  ASSUME OneOperator
  PROVE  Spec => SubmittedOnce
<1>1. Inv /\ Announced /\ TrainedRunIsAnnounced /\ [Next]_vars
        => [\A r \in RunIds :
              run[r].status = "none" /\ run'[r].status # "none" =>
                submitted[run'[r].candidate] = None]_vars
  BY PreparesOnce DEF Safe
<1> QED BY <1>1, AnnouncedHolds, Invariance, PTL DEF Spec, SubmittedOnce


-----------------------------------------------------------------------------
(* Who may be where after a step *)

\* Whoever stands at one of the program points of P after the step stood there
\* before it, with the same record.
Kept(P) == \A t \in Sessions : command'[t].pc \in P => command'[t] = command[t]

LEMMA NoNewPoint ==
  ASSUME NEW s \in Sessions, command \in [Sessions -> CommandRecord],
         NEW P, P \cap {"idle", "pick", "execute"} = {},
         \/ Raise(s)
         \/ \E r, status : Return(s, r, status)
         \/ \E kind, h, action, id, left, seen : Begin(s, kind, h, action, id, left, seen)
         \/ \E left : command' = [command EXCEPT ![s] = Picking(left)]
         \/ command' = [command EXCEPT ![s] = Idle]
         \/ \E pc \in Pcs \ P, id \in Ids : Goto(s, pc, id)
  PROVE  Kept(P)
<1>1. ASSUME NEW c, c.pc \notin P, command' = [command EXCEPT ![s] = c]
      PROVE  Kept(P)
  BY <1>1 DEF Kept
<1>2. Idle.pc \notin P /\ "execute" \notin P /\ \A left : Picking(left).pc \notin P
  BY DEF Idle, Picking
<1>3. CASE Raise(s) \/ command' = [command EXCEPT ![s] = Idle]
  BY <1>1, <1>2, <1>3 DEF Raise
<1>4. CASE (\E r, status : Return(s, r, status))
           \/ (\E left : command' = [command EXCEPT ![s] = Picking(left)])
  BY <1>1, <1>2, <1>4 DEF Return
<1>5. CASE \E kind, h, action, id, left, seen : Begin(s, kind, h, action, id, left, seen)
  <2>1. PICK kind, h, action, id, left, seen : Begin(s, kind, h, action, id, left, seen)
    BY <1>5
  <2> DEFINE c == [kind |-> kind, pc |-> "execute", handoff |-> h,
                   action |-> action, id |-> id, left |-> left, seen |-> seen]
  <2>2. c.pc \notin P
    BY <1>2
  <2>3. command' = [command EXCEPT ![s] = c]
    BY <2>1 DEF Begin
  <2> HIDE DEF c
  <2> QED BY <1>1, <2>2, <2>3
<1>6. CASE \E pc \in Pcs \ P, id \in Ids : Goto(s, pc, id)
  <2>1. PICK pc \in Pcs \ P, id \in Ids : Goto(s, pc, id)
    BY <1>6
  <2>2. OthersKept(s) /\ command'[s].pc = pc
    BY <2>1, Moved
  <2> QED BY <2>1, <2>2 DEF Kept, OthersKept
<1> QED BY <1>3, <1>4, <1>5, <1>6

\* Only PrepareRun brings a session to its smoke test, only FinishSmoke to the
\* announcement, and so on for the points of the other actions.
LEMMA NewPoints ==
  ASSUME Inv, [Next]_vars, NEW P, P \subseteq {"smoke", "announce", "record", "batch"},
         \A s \in Sessions :
           /\ PrepareRun(s) => "smoke" \notin P
           /\ FinishSmoke(s) => "announce" \notin P
           /\ FinishEvaluation(s) => "record" \notin P
           /\ StartBatch(s) => "batch" \notin P
  PROVE  Kept(P)
<1> USE DEF ledgerVars, artifactVars
<1>0. command \in [Sessions -> CommandRecord] /\ RunIds \cup BatchIds \cup {None} \subseteq Ids
      /\ \A s \in Sessions : command[s].id \in Ids
  BY DEF Inv, TypeOK, Ids, CommandRecord
<1>1. CASE UNCHANGED vars
  BY <1>1 DEF vars, Kept
<1>2. ASSUME NEW r \in RunIds, SupervisedRunEnds(r) \/ SupervisorDies(r) PROVE Kept(P)
  BY <1>2 DEF SupervisedRunEnds, SupervisorDies, Kept
<1>3. ASSUME NEW s \in Sessions,
             \/ \E h \in Handoffs : AutonomyStep(s, h)
             \/ AutonomyStepWithoutHandoff(s)
             \/ ExecuteNextAction(s) \/ ExecuteOpenActions(s) \/ PickOpenAction(s) \/ Kill(s)
      PROVE  Kept(P)
  <2>1. CASE \E h \in Handoffs : AutonomyStep(s, h)
    BY <1>0, <2>1, NoNewPoint DEF AutonomyStep, Kept
  <2>2. CASE AutonomyStepWithoutHandoff(s)
    BY <2>2 DEF AutonomyStepWithoutHandoff, Kept
  <2>3. CASE ExecuteNextAction(s) \/ ExecuteOpenActions(s)
    BY <1>0, <2>3, NoNewPoint DEF ExecuteNextAction, ExecuteOpenActions
  <2>4. CASE PickOpenAction(s) \/ Kill(s)
    BY <1>0, <2>4, NoNewPoint DEF PickOpenAction, BeginOpen, Kill
  <2> QED BY <1>3, <2>1, <2>2, <2>3, <2>4
<1>4. ASSUME NEW s \in Sessions, CheckFails(s) \/ PrepareRun(s) \/ FinishSmoke(s) \/ Announce(s)
      PROVE  Kept(P)
  <2>1. CASE CheckFails(s)
    BY <1>0, <2>1, NoNewPoint DEF CheckFails
  <2>2. CASE PrepareRun(s)
    BY <1>0, <2>2, NoNewPoint DEF PrepareRun, Pcs
  <2>3. CASE FinishSmoke(s)
    BY <1>0, <2>3, NoNewPoint DEF FinishSmoke, Pcs
  <2>4. CASE Announce(s)
    BY <1>0, <2>4, NoNewPoint DEF Announce, Pcs
  <2> QED BY <1>4, <2>1, <2>2, <2>3, <2>4
<1>5. ASSUME NEW s \in Sessions, ContinueRun(s) \/ StartSupervisor(s) \/ RunIsOver(s)
      PROVE  Kept(P)
  <2>1. CASE ContinueRun(s)
    BY <1>0, <2>1, NoNewPoint DEF ContinueRun, Pcs
  <2>2. CASE StartSupervisor(s)
    BY <1>0, <2>2, NoNewPoint DEF StartSupervisor, Pcs
  <2>3. CASE RunIsOver(s)
    BY <1>0, <2>3, NoNewPoint DEF RunIsOver
  <2> QED BY <1>5, <2>1, <2>2, <2>3
<1>6. ASSUME NEW s \in Sessions,
             \/ StartEvaluation(s) \/ FinishEvaluation(s) \/ RecordEvaluation(s)
             \/ StartBatch(s) \/ FinishBatch(s)
      PROVE  Kept(P)
  <2>1. CASE StartEvaluation(s)
    BY <1>0, <2>1, NoNewPoint DEF StartEvaluation, Pcs
  <2>2. CASE FinishEvaluation(s)
    BY <1>0, <2>2, NoNewPoint DEF FinishEvaluation, Pcs
  <2>3. CASE StartBatch(s)
    BY <1>0, <2>3, NoNewPoint DEF StartBatch, Pcs
  <2>4. CASE RecordEvaluation(s) \/ FinishBatch(s)
    BY <1>0, <2>4, NoNewPoint DEF RecordEvaluation, FinishBatch
  <2> QED BY <1>6, <2>1, <2>2, <2>3, <2>4
<1> QED BY <1>1, <1>2, <1>3, <1>4, <1>5, <1>6 DEF Next, CommandStep

-----------------------------------------------------------------------------
(* An announced Run can be finished, whoever else was at work *)

\* Run r is of Candidate c and past its smoke test.
Lasting(r, c) == run[r].candidate = c /\ run[r].status \in {"accepted", "training", "ended"}

\* At the smoke test, or at the announcement, of Run r of Candidate c.
Smoking(s, r, c) ==
  command[s].pc = "smoke" /\ command[s].id = r /\ command[s].handoff = c
Announcing(s, r, c) ==
  command[s].pc = "announce" /\ command[s].id = r /\ command[s].handoff = c

\* The ledger knows which Runs have ended; an announced Run, and one that is about
\* to be announced, is the Candidate's and lasts; a Run is smoke-tested by one
\* command.
EndedAgrees == \A r \in RunIds : r \in terminal <=> run[r].status = "ended"
AnnouncedLasts ==
  \A c \in Candidates, r \in RunIds : submitted[c] = r => Lasting(r, c)
AnnouncingLasts ==
  \A s \in Sessions, r \in RunIds, c \in Candidates : Announcing(s, r, c) => Lasting(r, c)
SmokingAlone ==
  \A s \in Sessions, r \in RunIds, c \in Candidates : Smoking(s, r, c) =>
    /\ run[r].candidate = c /\ run[r].status = "smoke_testing"
    /\ \A t \in Sessions : command[t].pc = "smoke" /\ command[t].id = r => t = s

RunsFit == EndedAgrees /\ AnnouncedLasts /\ AnnouncingLasts /\ SmokingAlone

\* Recovery maps a Candidate to its own Run, and to one it can start or wait for.
RecoveryFinds ==
  \A c \in Candidates : OpenAction(c) = "reconcile_run" =>
    /\ run[submitted[c]].candidate = c
    /\ run[submitted[c]].status \in {"accepted", "training"}

\* No Run is announced for two Candidates.
OwnRuns == \A c, d \in Candidates : submitted[c] = submitted[d] /\ submitted[c] # None => c = d

LEMMA OverPoint ==
  ASSUME NEW s \in Sessions, Over(s)
  PROVE  command'[s].pc \in {"idle", "pick"}
<1>1. CASE command'[s] = Idle
  BY <1>1 DEF Idle
<1>2. ASSUME NEW left \in Nat, command'[s] = Picking(left)
      PROVE  command'[s].pc \in {"idle", "pick"}
  BY <1>2 DEF Picking
<1> QED BY <1>1, <1>2 DEF Over

\* The Runs that last stay, so do those at a smoke test, and nobody new is at one.
LEMMA RunsQuiet ==
  ASSUME RunsFit, UNCHANGED <<run, submitted, terminal>>, Kept({"smoke", "announce"})
  PROVE  RunsFit'
<1>1. EndedAgrees' /\ AnnouncedLasts'
  BY DEF RunsFit, EndedAgrees, AnnouncedLasts, Lasting
<1>2. AnnouncingLasts'
  BY DEF RunsFit, AnnouncingLasts, Announcing, Lasting, Kept
<1>3. SmokingAlone'
  BY DEF RunsFit, SmokingAlone, Smoking, Kept
<1> QED BY <1>1, <1>2, <1>3 DEF RunsFit

LEMMA RunsChange ==
  ASSUME Inv, RunsFit, NEW s \in Sessions, PrepareRun(s) \/ FinishSmoke(s), Next
  PROVE  RunsFit'
<1> DEFINE h == command[s].handoff
<1>0. /\ command \in [Sessions -> CommandRecord] /\ CommandFits(command[s])
      /\ run \in [RunIds -> [candidate : Candidates \cup {None}, status : RunStatus]]
      /\ submitted \in [Candidates -> RunIds \cup {None}]
      /\ UNCHANGED <<submitted, terminal>>
      /\ None \notin RunIds /\ RunIds \subseteq Ids
  BY NoneIsNoId DEF Inv, TypeOK, Dispatch, PrepareRun, FinishSmoke, ledgerVars, Ids
<1>1. ASSUME NEW q \in RunIds, run[q].status = "none", PrepareRun(s),
             run' = [run EXCEPT ![q] = [candidate |-> h, status |-> "smoke_testing"]],
             Goto(s, "smoke", q)
      PROVE  RunsFit'
  <2>1. OthersKept(s) /\ command'[s].pc = "smoke" /\ command'[s].id = q
        /\ command'[s].handoff = h
    BY <1>0, <1>1, Moved DEF Pcs
  <2>2. run'[q] = [candidate |-> h, status |-> "smoke_testing"]
        /\ \A p \in RunIds \ {q} : run'[p] = run[p]
    BY <1>0, <1>1
  <2>3. EndedAgrees'
    BY <1>0, <1>1, <2>2 DEF RunsFit, EndedAgrees
  <2>4. AnnouncedLasts'
    BY <1>0, <1>1, <2>2 DEF RunsFit, AnnouncedLasts, Lasting
  <2>5. AnnouncingLasts'
    BY <1>1, <2>1, <2>2 DEF RunsFit, AnnouncingLasts, Announcing, Lasting, OthersKept
  <2>6. \A t \in Sessions : command[t].pc = "smoke" => command[t].id # q
    <3> SUFFICES ASSUME NEW t \in Sessions, command[t].pc = "smoke", command[t].id = q
                 PROVE  FALSE
      OBVIOUS
    <3>1. command[t].handoff \in Candidates
      BY DEF Inv, Dispatch, CommandFits, Fits, CandidateAction
    <3> QED BY <1>1, <3>1 DEF RunsFit, SmokingAlone, Smoking
  <2>7. SmokingAlone'
    BY <2>1, <2>2, <2>6 DEF RunsFit, SmokingAlone, Smoking, OthersKept
  <2> QED BY <2>3, <2>4, <2>5, <2>7 DEF RunsFit
<1>2. ASSUME FinishSmoke(s)
      PROVE  RunsFit'
  <2> DEFINE r == command[s].id
  <2>1. r \in RunIds /\ h \in Candidates /\ Smoking(s, r, h)
    BY <1>0, <1>2 DEF FinishSmoke, CommandFits, Fits, CandidateAction, Smoking
  <2>2. run[r].candidate = h /\ run[r].status = "smoke_testing"
        /\ \A t \in Sessions \ {s} : ~(command[t].pc = "smoke" /\ command[t].id = r)
    BY <2>1 DEF RunsFit, SmokingAlone
  <2>3. /\ \A c \in Candidates : submitted[c] # r
        /\ \A t \in Sessions, c \in Candidates : ~Announcing(t, r, c)
        /\ r \notin terminal
    BY <2>1, <2>2 DEF RunsFit, EndedAgrees, AnnouncedLasts, AnnouncingLasts, Lasting
  <2>4. CASE run' = [run EXCEPT ![r].status = "accepted"] /\ Goto(s, "announce", r)
    <3>1. OthersKept(s) /\ command'[s].pc = "announce" /\ command'[s].id = r
          /\ command'[s].handoff = h
      BY <1>0, <2>1, <2>4, Moved DEF Pcs
    <3>2. run'[r].candidate = h /\ run'[r].status = "accepted"
          /\ \A p \in RunIds \ {r} : run'[p] = run[p]
      BY <1>0, <2>1, <2>2, <2>4
    <3>3. EndedAgrees' /\ AnnouncedLasts'
      BY <1>0, <2>3, <3>2 DEF RunsFit, EndedAgrees, AnnouncedLasts, Lasting
    <3>4. AnnouncingLasts'
      BY <2>3, <3>1, <3>2 DEF RunsFit, AnnouncingLasts, Announcing, Lasting, OthersKept
    <3>5. SmokingAlone'
      BY <2>2, <3>1, <3>2 DEF RunsFit, SmokingAlone, Smoking, OthersKept
    <3> QED BY <3>3, <3>4, <3>5 DEF RunsFit
  <2>5. CASE run' = [run EXCEPT ![r] = NoRun] /\ Return(s, None, "smoke_failed")
    <3>1. Over(s)
      BY <1>0, <1>2, <2>5, Returned DEF FinishSmoke, ReturnedStatus, Inv
    <3>2. OthersKept(s) /\ command'[s].pc \notin {"smoke", "announce"}
      BY <3>1, OverPoint DEF Over
    <3>3. run'[r].status = "none" /\ \A p \in RunIds \ {r} : run'[p] = run[p]
      BY <1>0, <2>1, <2>5 DEF NoRun
    <3>4. EndedAgrees' /\ AnnouncedLasts'
      BY <1>0, <2>3, <3>3 DEF RunsFit, EndedAgrees, AnnouncedLasts, Lasting
    <3>5. AnnouncingLasts'
      BY <2>3, <3>2, <3>3 DEF RunsFit, AnnouncingLasts, Announcing, Lasting, OthersKept
    <3>6. SmokingAlone'
      BY <2>2, <3>2, <3>3 DEF RunsFit, SmokingAlone, Smoking, OthersKept
    <3> QED BY <3>4, <3>5, <3>6 DEF RunsFit
  <2> QED BY <1>2, <2>4, <2>5 DEF FinishSmoke
<1>3. ASSUME PrepareRun(s), Return(s, None, "rejected"), UNCHANGED run
      PROVE  RunsFit'
  <2>1. Over(s)
    BY <1>0, <1>3, Returned DEF PrepareRun, Executing, ReturnedStatus, Inv
  <2>2. Kept({"smoke", "announce"})
    BY <2>1, OverPoint DEF Over, OthersKept, Kept
  <2> QED BY <1>0, <1>3, <2>2, RunsQuiet
<1> QED BY <1>1, <1>2, <1>3 DEF PrepareRun

LEMMA RunsFitStep ==
  ASSUME Inv, RunsFit, [Next]_vars
  PROVE  RunsFit'
<1> USE DEF ledgerVars, artifactVars
<1>0. /\ command \in [Sessions -> CommandRecord]
      /\ run \in [RunIds -> [candidate : Candidates \cup {None}, status : RunStatus]]
      /\ submitted \in [Candidates -> RunIds \cup {None}]
      /\ None \notin RunIds
      /\ \A s \in Sessions : CommandFits(command[s])
  BY NoneIsNoId DEF Inv, TypeOK, Dispatch
<1>1. CASE UNCHANGED vars
  BY <1>1, RunsQuiet DEF vars, Kept
<1>2. ASSUME NEW s \in Sessions, PrepareRun(s) \/ FinishSmoke(s) PROVE RunsFit'
  <2>1. Next
    BY <1>2 DEF Next, CommandStep
  <2> QED BY <1>2, <2>1, RunsChange
<1>3. CASE Next /\ \A s \in Sessions : ~PrepareRun(s) /\ ~FinishSmoke(s)
  <2>1. Kept({"smoke", "announce"})
    BY <1>3, NewPoints
  <2>2. CASE UNCHANGED <<run, submitted, terminal>>
    BY <2>1, <2>2, RunsQuiet
  <2>3. ASSUME NEW s \in Sessions, Announce(s) PROVE RunsFit'
    <3> DEFINE r == command[s].id
               h == command[s].handoff
    <3>1. r \in RunIds /\ h \in Candidates /\ Announcing(s, r, h)
      BY <1>0, <2>3 DEF Announce, CommandFits, Fits, CandidateAction, Announcing
    <3>2. UNCHANGED <<run, terminal>> /\ submitted' = [submitted EXCEPT ![h] = r]
      BY <2>3 DEF Announce
    <3>3. Lasting(r, h)
      BY <3>1 DEF RunsFit, AnnouncingLasts
    <3>4. EndedAgrees' /\ AnnouncedLasts'
      BY <1>0, <3>1, <3>2, <3>3 DEF RunsFit, EndedAgrees, AnnouncedLasts, Lasting
    <3>5. AnnouncingLasts'
      BY <2>1, <3>2 DEF RunsFit, AnnouncingLasts, Announcing, Lasting, Kept
    <3>6. SmokingAlone'
      BY <2>1, <3>2 DEF RunsFit, SmokingAlone, Smoking, Kept
    <3> QED BY <3>4, <3>5, <3>6 DEF RunsFit
  <2>4. ASSUME NEW q \in RunIds, NEW status \in {"accepted", "training", "ended"},
               run[q].status \in {"accepted", "training"},
               run' = [run EXCEPT ![q].status = status],
               terminal' = IF status = "ended" THEN terminal \cup {q} ELSE terminal,
               UNCHANGED submitted
        PROVE  RunsFit'
    <3>1. run'[q].candidate = run[q].candidate /\ run'[q].status = status
          /\ \A p \in RunIds \ {q} : run'[p] = run[p]
      BY <1>0, <2>4
    <3>2. \A p \in RunIds, c \in Candidates : Lasting(p, c) => Lasting(p, c)'
      BY <2>4, <3>1 DEF Lasting
    <3>3. EndedAgrees'
      BY <1>0, <2>4, <3>1 DEF RunsFit, EndedAgrees
    <3>4. AnnouncedLasts'
      BY <1>0, <2>4, <3>2 DEF RunsFit, AnnouncedLasts
    <3>5. AnnouncingLasts'
      BY <2>1, <3>2 DEF RunsFit, AnnouncingLasts, Announcing, Kept
    <3>6. SmokingAlone'
      BY <2>1, <2>4, <3>1 DEF RunsFit, SmokingAlone, Smoking, Kept
    <3> QED BY <3>3, <3>4, <3>5, <3>6 DEF RunsFit
  <2>5. ASSUME NEW s \in Sessions, StartSupervisor(s) PROVE RunsFit'
    <3>1. command[s].id \in RunIds /\ UNCHANGED <<submitted, terminal>>
      BY <1>0, <2>5 DEF StartSupervisor, CommandFits
    <3>2. UNCHANGED run \/ (run[command[s].id].status = "accepted"
                            /\ run' = [run EXCEPT ![command[s].id].status = "training"])
      BY <2>5 DEF StartSupervisor
    <3> QED BY <2>2, <2>4, <3>1, <3>2
  <2>6. ASSUME NEW q \in RunIds, SupervisedRunEnds(q) PROVE RunsFit'
    <3>1. /\ run[q].status = "training" /\ run' = [run EXCEPT ![q].status = "ended"]
          /\ terminal' = terminal \cup {q} /\ UNCHANGED submitted
      BY <2>6 DEF SupervisedRunEnds
    <3> QED BY <2>4, <3>1
  <2>7. ASSUME NEW q \in RunIds, SupervisorDies(q) PROVE RunsFit'
    <3>1. /\ run[q].status = "training" /\ run' = [run EXCEPT ![q].status = "accepted"]
          /\ UNCHANGED <<terminal, submitted>>
      BY <2>7 DEF SupervisorDies
    <3> QED BY <2>4, <3>1
  <2>8. \/ UNCHANGED <<run, submitted, terminal>>
        \/ \E s \in Sessions : Announce(s) \/ StartSupervisor(s)
        \/ \E q \in RunIds : SupervisedRunEnds(q) \/ SupervisorDies(q)
    BY <1>3 DEF Next, CommandStep, AutonomyStep, AutonomyStepWithoutHandoff, ExecuteNextAction,
       ExecuteOpenActions, PickOpenAction, Kill, CheckFails, ContinueRun, RunIsOver,
       StartEvaluation, FinishEvaluation, RecordEvaluation, StartBatch, FinishBatch
  <2> QED BY <2>2, <2>3, <2>5, <2>6, <2>7, <2>8
<1> QED BY <1>1, <1>2, <1>3

\* Whatever commands any number of operators run and wherever they are killed, the
\* recovery command (research_loop_operations.py) maps an announced Candidate to
\* the Run made for it, which is accepted or training: something it can start or
\* wait for.  Two Candidates never share a Run.  This is the part of CandidatesEnd
\* that no kill can break; that the Run then ends is for its supervisor.
THEOREM AnnouncedRunsCanFinish == Spec => [](RecoveryFinds /\ OwnRuns)
<1>1. Init => RunsFit
  BY NoneIsNoId DEF Init, RunsFit, EndedAgrees, AnnouncedLasts, AnnouncingLasts, SmokingAlone,
     Smoking, Announcing, Idle, NoRun
<1>2. Inv /\ RunsFit /\ [Next]_vars => RunsFit'
  BY RunsFitStep
<1>3. Inv /\ RunsFit => RecoveryFinds /\ OwnRuns
  <2> SUFFICES ASSUME Inv, RunsFit PROVE RecoveryFinds /\ OwnRuns
    OBVIOUS
  <2>1. submitted \in [Candidates -> RunIds \cup {None}]
    BY DEF Inv, TypeOK
  <2>2. OwnRuns
    BY <2>1 DEF OwnRuns, RunsFit, AnnouncedLasts, Lasting
  <2>3. ASSUME NEW c \in Candidates, OpenAction(c) = "reconcile_run"
        PROVE  /\ run[submitted[c]].candidate = c
               /\ run[submitted[c]].status \in {"accepted", "training"}
    <3>1. submitted[c] \in RunIds \ terminal
      BY <2>3, OpenActionFits DEF Inv, Handoffs
    <3> QED BY <3>1 DEF RunsFit, AnnouncedLasts, EndedAgrees, Lasting
  <2> QED BY <2>2, <2>3 DEF RecoveryFinds
<1> QED BY <1>1, <1>2, <1>3, Invariance, PTL DEF Spec

-----------------------------------------------------------------------------
(* What an evaluation leaves behind *)

\* An evaluation in the ledger has its metadata on disk.
DiagnosticsAreThere == \A e \in Evaluations : evaluated[e] > 0 => evaluationDir[e] = "complete"

\* The invariant behind it: a command appends the event after the metadata.
RecordingAfterDiagnostics ==
  \A s \in Sessions, e \in Evaluations :
    command[s].pc = "record" /\ command[s].handoff = e => evaluationDir[e] = "complete"

\* A directory without metadata that no command works in any more.
Abandoned(e) == evaluationDir[e] = "created" /\ \A s \in Sessions : ~AtWork(s, e)

LEMMA DiagnosticsKept ==
  ASSUME DiagnosticsAreThere, RecordingAfterDiagnostics, evaluated' = evaluated,
         \A e \in Evaluations : evaluationDir[e] = "complete" => evaluationDir'[e] = "complete",
         Kept({"record"})
  PROVE  DiagnosticsAreThere' /\ RecordingAfterDiagnostics'
  BY DEF DiagnosticsAreThere, RecordingAfterDiagnostics, Kept

LEMMA DiagnosticsStep ==
  ASSUME Inv, DiagnosticsAreThere, RecordingAfterDiagnostics, [Next]_vars
  PROVE  DiagnosticsAreThere' /\ RecordingAfterDiagnostics'
<1> USE DEF ledgerVars, artifactVars
<1>0. /\ command \in [Sessions -> CommandRecord] /\ None \in Ids
      /\ evaluationDir \in [Evaluations -> {"absent", "created", "complete"}]
      /\ evaluated \in [Evaluations -> Nat]
      /\ \A s \in Sessions : CommandFits(command[s])
  BY DEF Inv, TypeOK, Dispatch, Ids
<1>1. ASSUME NEW s \in Sessions, command[s].pc = "evaluate",
             evaluationDir' = [evaluationDir EXCEPT ![command[s].handoff] = "complete"],
             Goto(s, "record", None), evaluated' = evaluated
      PROVE  DiagnosticsAreThere' /\ RecordingAfterDiagnostics'
  <2> DEFINE h == command[s].handoff
  <2>1. h \in Evaluations
    BY <1>0, <1>1 DEF CommandFits, Fits
  <2>2. OthersKept(s) /\ command'[s].handoff = h
    BY <1>0, <1>1, Moved DEF Pcs
  <2>3. \A e \in Evaluations : evaluationDir'[e] = IF e = h THEN "complete" ELSE evaluationDir[e]
    BY <1>0, <1>1
  <2>4. DiagnosticsAreThere'
    BY <1>1, <2>3 DEF DiagnosticsAreThere
  <2>5. RecordingAfterDiagnostics'
    BY <2>2, <2>3 DEF RecordingAfterDiagnostics, OthersKept
  <2> QED BY <2>4, <2>5
<1>2. ASSUME NEW s \in Sessions, Raise(s), UNCHANGED <<evaluationDir, evaluated>>
      PROVE  DiagnosticsAreThere' /\ RecordingAfterDiagnostics'
  <2>1. Kept({"record"})
    BY <1>0, <1>2, NoNewPoint
  <2> QED BY <1>2, <2>1, DiagnosticsKept
<1>3. ASSUME NEW s \in Sessions, FinishEvaluation(s)
      PROVE  DiagnosticsAreThere' /\ RecordingAfterDiagnostics'
  <2>1. command[s].pc = "evaluate" /\ evaluated' = evaluated
    BY <1>3 DEF FinishEvaluation
  <2> QED BY <1>1, <1>2, <1>3, <2>1 DEF FinishEvaluation
<1>4. CASE \A s \in Sessions : ~FinishEvaluation(s)
  <2>1. Kept({"record"})
    BY <1>4, NewPoints
  <2>2. CASE UNCHANGED <<evaluationDir, evaluated>>
    BY <2>1, <2>2, DiagnosticsKept
  <2>3. ASSUME NEW s \in Sessions, StartEvaluation(s)
        PROVE  DiagnosticsAreThere' /\ RecordingAfterDiagnostics'
    <3>1. command[s].handoff \in Evaluations /\ evaluated' = evaluated
      BY <1>0, <2>3 DEF StartEvaluation, Executing, CommandFits, Fits
    <3>2. UNCHANGED evaluationDir
          \/ (evaluationDir[command[s].handoff] = "absent"
              /\ evaluationDir' = [evaluationDir EXCEPT ![command[s].handoff] = "created"])
      BY <2>3 DEF StartEvaluation
    <3>3. \A e \in Evaluations : evaluationDir[e] = "complete" => evaluationDir'[e] = "complete"
      BY <1>0, <3>1, <3>2
    <3> QED BY <2>1, <3>1, <3>3, DiagnosticsKept
  <2>4. ASSUME NEW s \in Sessions, RecordEvaluation(s)
        PROVE  DiagnosticsAreThere' /\ RecordingAfterDiagnostics'
    <3> DEFINE h == command[s].handoff
    <3>1. /\ evaluationDir' = evaluationDir /\ h \in Evaluations
          /\ evaluated' = [evaluated EXCEPT ![h] = evaluated[h] + 1]
          /\ evaluationDir[h] = "complete"
      BY <1>0, <2>4 DEF RecordEvaluation, CommandFits, Fits, RecordingAfterDiagnostics
    <3>2. DiagnosticsAreThere'
      BY <1>0, <3>1 DEF DiagnosticsAreThere
    <3>3. RecordingAfterDiagnostics'
      BY <2>1, <3>1 DEF RecordingAfterDiagnostics, Kept
    <3> QED BY <3>2, <3>3
  <2>5. \/ UNCHANGED <<evaluationDir, evaluated>>
        \/ \E s \in Sessions : StartEvaluation(s) \/ RecordEvaluation(s)
    BY <1>4 DEF Next, CommandStep, vars, AutonomyStep, AutonomyStepWithoutHandoff,
       ExecuteNextAction, ExecuteOpenActions, PickOpenAction, Kill, CheckFails, PrepareRun,
       FinishSmoke, Announce, ContinueRun, StartSupervisor, RunIsOver, StartBatch, FinishBatch,
       SupervisedRunEnds, SupervisorDies
  <2> QED BY <2>2, <2>3, <2>4, <2>5
<1> QED BY <1>3, <1>4

\* The evaluation_completed event (evaluation_requests.py) vouches for diagnostics
\* that are there: whoever finds the event finds the metadata, in any interleaving
\* of the commands and after any kill.
THEOREM EventsHaveDiagnostics == Spec => []DiagnosticsAreThere
<1>1. Init => DiagnosticsAreThere /\ RecordingAfterDiagnostics
  BY DEF Init, DiagnosticsAreThere, RecordingAfterDiagnostics, Idle
<1>2. Inv /\ DiagnosticsAreThere /\ RecordingAfterDiagnostics /\ [Next]_vars
        => DiagnosticsAreThere' /\ RecordingAfterDiagnostics'
  BY DiagnosticsStep
<1> QED BY <1>1, <1>2, Invariance, PTL DEF Spec

\* The query offers an abandoned evaluation, and no step makes it anything else.
AbandonedIsOpen ==
  \A e \in Evaluations : Abandoned(e) => OpenAction(e) = "run_post_run_evaluation"
AbandonedForEver == [][\A e \in Evaluations : Abandoned(e) => Abandoned(e)']_vars

LEMMA AbandonedStep ==
  ASSUME Inv, Next, NEW e \in Evaluations, Abandoned(e)
  PROVE  Abandoned(e)'
<1> USE DEF ledgerVars, artifactVars
<1>0. /\ command \in [Sessions -> CommandRecord]
      /\ evaluationDir \in [Evaluations -> {"absent", "created", "complete"}]
      /\ \A s \in Sessions : CommandFits(command[s])
  BY DEF Inv, TypeOK, Dispatch
<1>1. ASSUME UNCHANGED evaluationDir, \A t \in Sessions : AtWork(t, e)' => AtWork(t, e)
      PROVE  Abandoned(e)'
  BY <1>1 DEF Abandoned
<1>2. ASSUME NEW r \in RunIds, SupervisedRunEnds(r) \/ SupervisorDies(r) PROVE Abandoned(e)'
  BY <1>1, <1>2 DEF SupervisedRunEnds, SupervisorDies, AtWork
<1>3. ASSUME NEW s \in Sessions,
             StartEvaluation(s) \/ FinishEvaluation(s) \/ RecordEvaluation(s)
      PROVE  Abandoned(e)'
  <2> DEFINE h == command[s].handoff
  <2>1. CASE h = e
    <3>1. StartEvaluation(s) /\ evaluationDir[h] # "absent"
      BY <1>3, <2>1 DEF Abandoned, AtWork, FinishEvaluation, RecordEvaluation
    <3>2. Raise(s) /\ UNCHANGED evaluationDir
      BY <3>1 DEF StartEvaluation
    <3> QED BY <1>0, <1>1, <3>2, NoNewWork
  <2>2. CASE h # e
    <3>1. evaluationDir'[e] = evaluationDir[e]
      BY <1>0, <1>3, <2>2 DEF StartEvaluation, FinishEvaluation, RecordEvaluation
    <3>2. \A t \in Sessions : AtWork(t, e)' => AtWork(t, e)
      <4>1. CASE Raise(s) \/ \E r, status : Return(s, r, status)
        BY <1>0, <4>1, NoNewWork
      <4>2. ASSUME NEW pc \in {"evaluate", "record"}, Goto(s, pc, None)
            PROVE  \A t \in Sessions : AtWork(t, e)' => AtWork(t, e)
        <5>1. OthersKept(s) /\ command'[s].handoff = h
          BY <1>0, <4>2, Moved DEF Pcs, Ids
        <5> QED BY <2>2, <5>1 DEF AtWork, OthersKept
      <4> QED BY <1>3, <4>1, <4>2 DEF StartEvaluation, FinishEvaluation, RecordEvaluation
    <3> QED BY <3>1, <3>2 DEF Abandoned
  <2> QED BY <2>1, <2>2
<1>4. ASSUME NEW s \in Sessions,
             \/ \E h \in Handoffs : AutonomyStep(s, h)
             \/ AutonomyStepWithoutHandoff(s)
             \/ ExecuteNextAction(s) \/ ExecuteOpenActions(s) \/ PickOpenAction(s) \/ Kill(s)
             \/ CheckFails(s) \/ PrepareRun(s) \/ FinishSmoke(s) \/ Announce(s)
             \/ ContinueRun(s) \/ StartSupervisor(s) \/ RunIsOver(s)
             \/ StartBatch(s) \/ FinishBatch(s)
      PROVE  Abandoned(e)'
  BY <1>1, <1>4, OthersQuiet
<1> QED BY <1>2, <1>3, <1>4 DEF Next, CommandStep

\* An evaluation killed, or raised out of, between mkdir and its metadata is lost:
\* the request stays open in the ledger and no command ever completes it, because
\* each attempt finds the directory and refuses (evaluation_requests.py).
THEOREM AbandonedEvaluationsStayOpen == Spec => []AbandonedIsOpen /\ AbandonedForEver
<1>1. Inv /\ DiagnosticsAreThere => AbandonedIsOpen
  <2> SUFFICES ASSUME Inv, DiagnosticsAreThere, NEW e \in Evaluations, Abandoned(e)
               PROVE  OpenAction(e) = "run_post_run_evaluation"
    BY DEF AbandonedIsOpen
  <2>1. evaluated[e] = 0
    BY DEF Inv, TypeOK, DiagnosticsAreThere, Abandoned
  <2> QED BY <2>1, TypesAreDisjoint DEF OpenAction
<1>2. Inv /\ [Next]_vars => [\A e \in Evaluations : Abandoned(e) => Abandoned(e)']_vars
  BY AbandonedStep
<1> QED BY <1>1, <1>2, Invariance, EventsHaveDiagnostics, PTL DEF Spec, AbandonedForEver

-----------------------------------------------------------------------------
(* Batches *)

\* Every batch id a command works under, or the ledger calls completed, was made
\* for a batch handoff.
BatchIdsAreMade ==
  /\ \A s \in Sessions, b \in BatchIds :
       command[s].pc = "batch" /\ command[s].id = b => batchSource[b] \in Batches
  /\ \A b \in batchesDone : batchSource[b] \in Batches

\* The query offers the handoff of a batch that the ledger calls completed.
CompletedBatchIsOpen ==
  \A b \in batchesDone : OpenAction(batchSource[b]) = "run_experiment_batch"

LEMMA BatchIdsStep ==
  ASSUME Inv, BatchIdsAreMade, [Next]_vars
  PROVE  BatchIdsAreMade'
<1> USE DEF ledgerVars, artifactVars
<1>0. /\ command \in [Sessions -> CommandRecord] /\ BatchIds \subseteq Ids
      /\ batchSource \in [BatchIds -> Batches \cup {None}] /\ batchesDone \subseteq BatchIds
      /\ None \notin Batches
      /\ \A s \in Sessions : CommandFits(command[s])
  BY NoneIsNoId DEF Inv, TypeOK, Dispatch, Ids, Handoffs
<1>1. ASSUME NEW s \in Sessions, StartBatch(s) PROVE BatchIdsAreMade'
  <2>1. PICK b \in BatchIds : /\ batchSource[b] = None
                              /\ batchSource' = [batchSource EXCEPT ![b] = command[s].handoff]
                              /\ Goto(s, "batch", b)
    BY <1>1 DEF StartBatch
  <2>2. command[s].handoff \in Batches /\ batchesDone' = batchesDone
    BY <1>0, <1>1 DEF StartBatch, Executing, CommandFits, Fits
  <2>3. OthersKept(s) /\ command'[s].id = b
    BY <1>0, <2>1, Moved DEF Pcs
  <2>4. \A c \in BatchIds : batchSource'[c] = IF c = b THEN command[s].handoff ELSE batchSource[c]
    BY <1>0, <2>1
  <2> QED BY <1>0, <2>1, <2>2, <2>3, <2>4 DEF BatchIdsAreMade, OthersKept
<1>2. CASE \A s \in Sessions : ~StartBatch(s)
  <2>1. Kept({"batch"})
    BY <1>2, NewPoints
  <2>2. batchSource' = batchSource
    BY <1>2 DEF Next, CommandStep, vars, AutonomyStep, AutonomyStepWithoutHandoff,
       ExecuteNextAction, ExecuteOpenActions, PickOpenAction, Kill, CheckFails, PrepareRun,
       FinishSmoke, Announce, ContinueRun, StartSupervisor, RunIsOver, StartEvaluation,
       FinishEvaluation, RecordEvaluation, FinishBatch, SupervisedRunEnds, SupervisorDies
  <2>3. batchesDone' = batchesDone
        \/ \E s \in Sessions : FinishBatch(s)
    BY <1>2 DEF Next, CommandStep, vars, AutonomyStep, AutonomyStepWithoutHandoff,
       ExecuteNextAction, ExecuteOpenActions, PickOpenAction, Kill, CheckFails, PrepareRun,
       FinishSmoke, Announce, ContinueRun, StartSupervisor, RunIsOver, StartEvaluation,
       FinishEvaluation, RecordEvaluation, SupervisedRunEnds, SupervisorDies
  <2>4. \A b \in batchesDone' : batchSource[b] \in Batches
    BY <1>0, <2>3 DEF BatchIdsAreMade, FinishBatch, CommandFits
  <2> QED BY <2>1, <2>2, <2>4 DEF BatchIdsAreMade, Kept
<1> QED BY <1>1, <1>2

\* find_open_executable_actions never closes a batch: a batch handoff whose batch
\* has completed, under the id generated for it, is open in every behaviour and
\* for every instance.  CompletedBatchIsClosed fails as soon as one batch ends.
THEOREM CompletedBatchesStayOpen == Spec => []CompletedBatchIsOpen
<1>1. Init => BatchIdsAreMade
  BY DEF Init, BatchIdsAreMade, Idle
<1>2. Inv /\ BatchIdsAreMade /\ [Next]_vars => BatchIdsAreMade'
  BY BatchIdsStep
<1>3. Inv /\ BatchIdsAreMade => CompletedBatchIsOpen
  <2> SUFFICES ASSUME Inv, BatchIdsAreMade, NEW b \in batchesDone
               PROVE  OpenAction(batchSource[b]) = "run_experiment_batch"
    BY DEF CompletedBatchIsOpen
  <2>1. batchSource[b] \in Batches /\ batchSource[b] \notin batchesDone
    BY GeneratedIdsAreNew DEF BatchIdsAreMade, Inv, TypeOK, Handoffs
  <2> QED BY <2>1, TypesAreDisjoint DEF OpenAction
<1> QED BY <1>1, <1>2, <1>3, Invariance, PTL DEF Spec

-----------------------------------------------------------------------------
(* The rounds of execute-open-actions *)

Spends(s) ==
  command[s].kind = "open" /\ command'[s].kind = "open" /\ command'[s] # command[s] =>
    /\ command'[s].left <= command[s].left
    /\ command'[s].pc = "pick" => command'[s].left < command[s].left

\* No step of execute-open-actions gains a round, and a look for an action costs one.
RoundsRunOut == [][\A s \in Sessions : Spends(s)]_vars

LEMMA RoundSpent ==
  ASSUME Inv, NEW s \in Sessions,
         \/ command' = command
         \/ command[s] = Idle
         \/ command' = [command EXCEPT ![s] = Idle]
         \/ Raise(s)
         \/ \E r, status : Return(s, r, status)
         \/ \E i \in Open : command[s].pc = "pick" /\ BeginOpen(s, ingested[i])
         \/ \E pc \in Pcs \ {"pick"}, id \in Ids : Goto(s, pc, id)
  PROVE  Spends(s)
<1>0. command \in [Sessions -> CommandRecord] /\ command[s].left \in Nat
  BY DEF Inv, TypeOK, CommandRecord
<1>1. CASE command' = command \/ command[s] = Idle
  BY <1>1 DEF Spends, Idle
<1>2. CASE Raise(s) \/ command' = [command EXCEPT ![s] = Idle]
  <2>1. command'[s] = Idle
    BY <1>0, <1>2 DEF Raise
  <2> QED BY <2>1 DEF Spends, Idle
<1>3. CASE \E r, status : Return(s, r, status)
  <2>1. CASE command[s].kind = "open"
    <3>1. command' = [command EXCEPT ![s] = Picking(command[s].left - 1)]
      BY <1>3, <2>1 DEF Return
    <3>2. command'[s].left = command[s].left - 1
      BY <1>0, <3>1 DEF Picking
    <3> QED BY <1>0, <3>2 DEF Spends
  <2>2. CASE command[s].kind # "open"
    BY <2>2 DEF Spends
  <2> QED BY <2>1, <2>2
<1>4. ASSUME NEW i \in Open, BeginOpen(s, ingested[i]) PROVE Spends(s)
  <2>1. command'[s].left = command[s].left /\ command'[s].pc = "execute"
    BY <1>0, <1>4 DEF BeginOpen, Begin
  <2> QED BY <1>0, <2>1 DEF Spends
<1>5. ASSUME NEW pc \in Pcs \ {"pick"}, NEW id \in Ids, Goto(s, pc, id) PROVE Spends(s)
  <2>1. command'[s].left = command[s].left /\ command'[s].pc = pc
    BY <1>0, <1>5, Moved
  <2> QED BY <1>0, <1>5, <2>1 DEF Spends
<1> QED BY <1>1, <1>2, <1>3, <1>4, <1>5

LEMMA StepSpends ==
  ASSUME Inv, [Next]_vars, NEW s \in Sessions
  PROVE  Spends(s)
<1> USE DEF ledgerVars, artifactVars
<1>0. command \in [Sessions -> CommandRecord] /\ RunIds \cup BatchIds \cup {None} \subseteq Ids
      /\ \A t \in Sessions : command[t].id \in Ids
  BY DEF Inv, TypeOK, Ids, CommandRecord
<1>1. ASSUME NEW t \in Sessions, t # s,
             \/ \E h \in Handoffs : AutonomyStep(t, h)
             \/ AutonomyStepWithoutHandoff(t)
             \/ ExecuteNextAction(t) \/ ExecuteOpenActions(t)
             \/ CommandStep(t) \/ Kill(t)
      PROVE  command'[s] = command[s]
  BY <1>0, <1>1 DEF AutonomyStep, AutonomyStepWithoutHandoff, ExecuteNextAction,
     ExecuteOpenActions, CommandStep, Kill, PickOpenAction, BeginOpen, Begin, CheckFails,
     PrepareRun, FinishSmoke, Announce, ContinueRun, StartSupervisor, RunIsOver,
     StartEvaluation, FinishEvaluation, RecordEvaluation, StartBatch, FinishBatch, Goto,
     Return, Raise
<1>2. CASE UNCHANGED command
  BY <1>2, RoundSpent
<1>3. CASE \/ \E h \in Handoffs : AutonomyStep(s, h)
           \/ AutonomyStepWithoutHandoff(s)
           \/ ExecuteNextAction(s) \/ ExecuteOpenActions(s) \/ PickOpenAction(s) \/ Kill(s)
  BY <1>3, RoundSpent DEF AutonomyStep, AutonomyStepWithoutHandoff, ExecuteNextAction,
     ExecuteOpenActions, PickOpenAction, Kill
<1>4. CASE CheckFails(s) \/ PrepareRun(s) \/ FinishSmoke(s) \/ Announce(s)
  <2>1. CASE CheckFails(s)
    BY <2>1, RoundSpent DEF CheckFails
  <2>2. CASE PrepareRun(s)
    BY <1>0, <2>2, RoundSpent DEF PrepareRun, Pcs
  <2>3. CASE FinishSmoke(s)
    BY <1>0, <2>3, RoundSpent DEF FinishSmoke, Pcs
  <2>4. CASE Announce(s)
    BY <1>0, <2>4, RoundSpent DEF Announce, Pcs
  <2> QED BY <1>4, <2>1, <2>2, <2>3, <2>4
<1>5. CASE ContinueRun(s) \/ StartSupervisor(s) \/ RunIsOver(s)
  <2>1. CASE ContinueRun(s)
    <3>1. (\E r, status : Return(s, r, status))
          \/ (\E pc \in Pcs \ {"pick"}, id \in Ids : Goto(s, pc, id))
      BY <1>0, <2>1 DEF ContinueRun, Pcs
    <3> QED BY <3>1, RoundSpent
  <2>2. CASE StartSupervisor(s)
    BY <1>0, <2>2, RoundSpent DEF StartSupervisor, Pcs
  <2>3. CASE RunIsOver(s)
    BY <1>0, <2>3, RoundSpent DEF RunIsOver
  <2> QED BY <1>5, <2>1, <2>2, <2>3
<1>6. CASE \/ StartEvaluation(s) \/ FinishEvaluation(s) \/ RecordEvaluation(s)
           \/ StartBatch(s) \/ FinishBatch(s)
  <2>1. CASE StartEvaluation(s)
    BY <1>0, <2>1, RoundSpent DEF StartEvaluation, Pcs
  <2>2. CASE FinishEvaluation(s)
    BY <1>0, <2>2, RoundSpent DEF FinishEvaluation, Pcs
  <2>3. CASE StartBatch(s)
    BY <1>0, <2>3, RoundSpent DEF StartBatch, Pcs
  <2>4. CASE RecordEvaluation(s) \/ FinishBatch(s)
    BY <1>0, <2>4, RoundSpent DEF RecordEvaluation, FinishBatch
  <2> QED BY <1>6, <2>1, <2>2, <2>3, <2>4
<1>7. ASSUME command'[s] = command[s] PROVE Spends(s)
  BY <1>7 DEF Spends
<1>8. ASSUME NEW r \in RunIds, SupervisedRunEnds(r) \/ SupervisorDies(r) PROVE Spends(s)
  BY <1>2, <1>8 DEF SupervisedRunEnds, SupervisorDies
<1> QED BY <1>1, <1>2, <1>3, <1>4, <1>5, <1>6, <1>7, <1>8 DEF Next, CommandStep, vars

\* execute-open-actions executes at most as many actions as were open when it
\* started: its count never grows and drops every time it looks for the next
\* action, even when a rejected Candidate is still the oldest open one
\* (autonomy_step.py:382), which the ledger would offer for ever.
THEOREM RoundsAreCounted == Spec => RoundsRunOut
<1>1. Inv /\ [Next]_vars => [\A s \in Sessions : Spends(s)]_vars
  BY StepSpends
<1> QED BY <1>1, Invariance, PTL DEF Spec, RoundsRunOut
====
