------------------------ MODULE ExperimentBatchProofs ------------------------
(***************************************************************************)
(* Proofs about ExperimentBatch, for any batch, any single submissions and *)
(* any number of reconcile-runs and kills.  The inductive invariant says   *)
(* what the place of a thread tells of the outcome it returns (Returned)   *)
(* and of the ledger (Answered): who is past RecordOutcome without having  *)
(* raised has read its own outcome in the ledger, and events stay.         *)
(***************************************************************************)
EXTENDS ExperimentBatch, FiniteSetTheorems, TLAPS

Outcomes == {"completed", "failed"}
Pcs == {"queued", "validate", "announce", "prepare", "smoke", "smoking", "tag", "tagging",
        "train", "training", "finalize", "record", "retag", "retagging", "returned", "dead"}
WorkerRecord == [pc : Pcs, result : Statuses, seen : Statuses, raised : BOOLEAN]
ReconcilerRecord ==
  [pc : {"idle", "decide", "event"}, run : Candidates \cup {"none"}, seen : Statuses,
   tagged : BOOLEAN, calls : Nat]

\* The types of the variables, one conjunct for what changes together.
WorkerTypes == worker \in [Candidates -> WorkerRecord]
RunTypes ==
  /\ status \in [Candidates -> Statuses]
  /\ tagged \subseteq Members /\ outputs \subseteq Candidates /\ created \subseteq Repairs
  /\ terminals \in [Candidates -> {<<>>} \cup {<<o>> : o \in Outcomes}]
ReconcilerTypes ==
  /\ reconciler \in ReconcilerRecord
  /\ reconciler.pc # "idle" => reconciler.run \in Candidates
  /\ reconciler.tagged => reconciler.run \in Members
  /\ reconciler.pc = "event" => reconciler.seen \in Outcomes
BatchTypes ==
  /\ batch \in [pc : {"validate", "refused", "gather", "event", "ended", "dead"},
                status : {"none", "running", "completed", "partially_failed", "failed"}]
  /\ batch.pc \in {"validate", "refused"} => batch.status = "none"
  /\ batch.pc = "gather" => batch.status = "running"
  /\ records \in [Members -> {"none", "rejected", "smoke_failed", "completed", "failed"}]
  /\ linked \subseteq Members /\ \A c \in linked : records[c] # "none"
  /\ batch.status \in {"completed", "partially_failed", "failed"} =>
       \A c \in Members : records[c] # "none"

\* The result a thread carries from its last call to its record.
Returned ==
  \A c \in Candidates :
    /\ worker[c].pc \in {"finalize", "record", "retag", "retagging"} =>
         worker[c].result \in Outcomes
    /\ c \in Members /\ worker[c].pc \in {"tag", "tagging"} =>
         worker[c].result \in {"accepted", "rejected", "smoke_failed"}
    /\ c \in Members /\ worker[c].pc = "returned" /\ ~worker[c].raised =>
         worker[c].result \in {"rejected", "smoke_failed"} \cup Outcomes

\* The ledger has the outcome of a thread that is past its event.
Answered ==
  /\ \A c \in Candidates :
       \/ worker[c].pc \in {"retag", "retagging"}
       \/ worker[c].pc = "returned" /\ ~worker[c].raised /\ worker[c].result \in Outcomes
       => terminals[c] = <<worker[c].result>>
  /\ OutcomesAreRecorded

Inv ==
  /\ WorkerTypes /\ RunTypes /\ ReconcilerTypes /\ BatchTypes
  /\ Returned /\ Answered

\* Initially nothing runs, and nothing is recorded.
LEMMA InitInv == Init => Inv
<1> SUFFICES ASSUME Init PROVE Inv
  OBVIOUS
<1> USE DEF Init, SubmissionInit, Worker, NotReconciling, NoRecords
<1>1. WorkerTypes
  BY DEF WorkerTypes, WorkerRecord, Pcs, Statuses
<1>2. RunTypes
  BY DEF RunTypes, Statuses
<1>3. ReconcilerTypes
  BY SubmissionAssumption DEF ReconcilerTypes, ReconcilerRecord, Statuses
<1>4. BatchTypes
  BY DEF BatchTypes
<1>5. Returned
  BY DEF Returned
<1>6. Answered
  BY DEF Answered, OutcomesAreRecorded
<1> QED BY <1>1, <1>2, <1>3, <1>4, <1>5, <1>6 DEF Inv

\* Thread c is at p with result r and has raised or not; the others did not move.
Became(c, p, r, b) ==
  /\ WorkerTypes'
  /\ worker'[c].pc = p /\ worker'[c].result = r /\ worker'[c].raised = b
  /\ \A d \in Candidates \ {c} : worker'[d] = worker[d]

LEMMA Becoming ==
  ASSUME WorkerTypes, NEW c \in Candidates, NEW p \in Pcs, NEW r \in Statuses,
         NEW s \in Statuses, NEW b \in BOOLEAN, Becomes(c, p, r, s, b)
  PROVE  Became(c, p, r, b)
BY DEF Becomes, Became, WorkerTypes, WorkerRecord

\* The three ways in which a thread goes on.
LEMMA Going ==
  ASSUME WorkerTypes, NEW c \in Candidates
  PROVE  /\ worker[c].result \in Statuses /\ worker[c].seen \in Statuses
         /\ worker[c].raised \in BOOLEAN
         /\ \A p \in Pcs : GoTo(c, p) => Became(c, p, worker[c].result, worker[c].raised)
         /\ \A p \in Pcs, r \in Statuses :
              Returns(c, r, p) => Became(c, p, r, worker[c].raised)
         /\ Raises(c) => Became(c, "returned", worker[c].result, TRUE)
<1>1. worker[c].result \in Statuses /\ worker[c].seen \in Statuses /\ worker[c].raised \in BOOLEAN
  BY DEF WorkerTypes, WorkerRecord
<1>2. ASSUME NEW p \in Pcs, GoTo(c, p) PROVE Became(c, p, worker[c].result, worker[c].raised)
  BY <1>1, <1>2, Becoming DEF GoTo
<1>3. ASSUME NEW p \in Pcs, NEW r \in Statuses, Returns(c, r, p)
      PROVE  Became(c, p, r, worker[c].raised)
  BY <1>1, <1>3, Becoming DEF Returns
<1>4. ASSUME Raises(c) PROVE Became(c, "returned", worker[c].result, TRUE)
  <2>1. "returned" \in Pcs /\ TRUE \in BOOLEAN
    BY DEF Pcs
  <2> QED BY <1>1, <1>4, <2>1, Becoming DEF Raises
<1> QED BY <1>1, <1>2, <1>3, <1>4

\* What is left of a step of thread c when its own place is known: no other thread
\* is touched, and of its Run only status, outputs and terminal events change.
LEMMA SubmissionKeeps ==
  ASSUME Inv, NEW c \in Candidates, SubmissionStep(c), UNCHANGED batchVars
  PROVE  WorkerTypes' /\ RunTypes' /\ Returned' /\ Answered'
<1> USE Going DEF Inv, At, AfterSubmission, metadataVars, batchVars
<1>1. CASE Submit(c)
  <2>1. Became(c, "validate", worker[c].result, worker[c].raised)
    BY <1>1 DEF Submit, Pcs, Statuses
  <2>2. RunTypes'
    BY <1>1 DEF Submit, RunTypes, WriteStatus, Statuses, Returned, Outcomes, Recorded
  <2>3. Returned'
    BY <1>1, <2>1 DEF Submit, Became, Returned, Outcomes, Statuses, Candidates
  <2>4. Answered'
    BY <1>1, <2>1 DEF Submit, Became, Answered, OutcomesAreRecorded, Outcomes, RunTypes, BatchTypes, Returned
  <2> QED BY <2>1, <2>2, <2>3, <2>4 DEF Became
<1>2. CASE Reject(c)
  <2>1. Became(c, AfterSubmission(c), "rejected", worker[c].raised)
    BY <1>2 DEF Reject, Pcs, Statuses
  <2>2. RunTypes'
    BY <1>2 DEF Reject, RunTypes, WriteStatus, Statuses, Returned, Outcomes, Recorded
  <2>3. Returned'
    BY <1>2, <2>1 DEF Reject, Became, Returned, Outcomes, Statuses, Candidates
  <2>4. Answered'
    BY <1>2, <2>1 DEF Reject, Became, Answered, OutcomesAreRecorded, Outcomes, RunTypes, BatchTypes, Returned
  <2> QED BY <2>1, <2>2, <2>3, <2>4 DEF Became
<1>3. CASE CountRepairs(c)
  <2>1. \/ LimitReached(c) /\ Became(c, AfterSubmission(c), "rejected", worker[c].raised)
        \/ ~LimitReached(c) /\ Became(c, "announce", worker[c].result, worker[c].raised)
    BY <1>3 DEF CountRepairs, Pcs, Statuses
  <2>2. RunTypes'
    BY <1>3 DEF CountRepairs, RunTypes, WriteStatus, Statuses, Returned, Outcomes, Recorded
  <2>3. Returned'
    BY <1>3, <2>1 DEF CountRepairs, Became, Returned, Outcomes, Statuses, Candidates
  <2>4. Answered'
    BY <1>3, <2>1 DEF CountRepairs, Became, Answered, OutcomesAreRecorded, Outcomes, RunTypes, BatchTypes, Returned
  <2> QED BY <2>1, <2>2, <2>3, <2>4 DEF Became
<1>4. CASE Announce(c)
  <2>1. Became(c, "prepare", worker[c].result, worker[c].raised)
    BY <1>4 DEF Announce, Pcs, Statuses
  <2>2. RunTypes'
    BY <1>4 DEF Announce, RunTypes, WriteStatus, Statuses, Returned, Outcomes, Recorded
  <2>3. Returned'
    BY <1>4, <2>1 DEF Announce, Became, Returned, Outcomes, Statuses, Candidates
  <2>4. Answered'
    BY <1>4, <2>1 DEF Announce, Became, Answered, OutcomesAreRecorded, Outcomes, RunTypes, BatchTypes, Returned
  <2> QED BY <2>1, <2>2, <2>3, <2>4 DEF Became
<1>5. CASE WritePrepared(c)
  <2>1. Became(c, "smoke", worker[c].result, worker[c].raised)
    BY <1>5 DEF WritePrepared, Pcs, Statuses
  <2>2. RunTypes'
    BY <1>5 DEF WritePrepared, RunTypes, WriteStatus, Statuses, Returned, Outcomes, Recorded
  <2>3. Returned'
    BY <1>5, <2>1 DEF WritePrepared, Became, Returned, Outcomes, Statuses, Candidates
  <2>4. Answered'
    BY <1>5, <2>1 DEF WritePrepared, Became, Answered, OutcomesAreRecorded, Outcomes, RunTypes, BatchTypes, Returned
  <2> QED BY <2>1, <2>2, <2>3, <2>4 DEF Became
<1>6. CASE StartSmokeTest(c)
  <2>1. \/ status[c] = "smoke_testing" /\ Became(c, "smoking", worker[c].result, worker[c].raised)
        \/ status[c] # "smoke_testing" /\ Became(c, "returned", worker[c].result, TRUE)
    BY <1>6 DEF StartSmokeTest, Pcs, Statuses
  <2>2. RunTypes'
    BY <1>6 DEF StartSmokeTest, RunTypes, WriteStatus, Statuses, Returned, Outcomes, Recorded
  <2>3. Returned'
    BY <1>6, <2>1 DEF StartSmokeTest, Became, Returned, Outcomes, Statuses, Candidates
  <2>4. Answered'
    BY <1>6, <2>1 DEF StartSmokeTest, Became, Answered, OutcomesAreRecorded, Outcomes, RunTypes, BatchTypes, Returned
  <2> QED BY <2>1, <2>2, <2>3, <2>4 DEF Became
<1>7. CASE EndSmokeTest(c, "accepted")
  <2>1. Became(c, AfterSubmission(c), "accepted", worker[c].raised)
    BY <1>7 DEF EndSmokeTest, Pcs, Statuses
  <2>2. RunTypes'
    BY <1>7 DEF EndSmokeTest, RunTypes, WriteStatus, Statuses, Returned, Outcomes, Recorded
  <2>3. Returned'
    <3>1. c \in Members => worker'[c].pc = "tag" /\ worker'[c].result = "accepted"
      BY <2>1, SubmissionAssumption DEF Became
    <3>2. worker'[c].pc \notin {"finalize", "record", "retag", "retagging"}
      BY <2>1 DEF Became
    <3> QED BY <2>1, <3>1, <3>2 DEF Became, Returned
  <2>4. Answered'
    BY <1>7, <2>1 DEF EndSmokeTest, Became, Answered, OutcomesAreRecorded, Outcomes, RunTypes, BatchTypes, Returned
  <2> QED BY <2>1, <2>2, <2>3, <2>4 DEF Became
<1>8. CASE EndSmokeTest(c, "smoke_failed")
  <2>1. Became(c, AfterSubmission(c), "smoke_failed", worker[c].raised)
    BY <1>8 DEF EndSmokeTest, Pcs, Statuses
  <2>2. RunTypes'
    BY <1>8 DEF EndSmokeTest, RunTypes, WriteStatus, Statuses, Returned, Outcomes, Recorded
  <2>3. Returned'
    BY <1>8, <2>1 DEF EndSmokeTest, Became, Returned, Outcomes, Statuses, Candidates
  <2>4. Answered'
    BY <1>8, <2>1 DEF EndSmokeTest, Became, Answered, OutcomesAreRecorded, Outcomes, RunTypes, BatchTypes, Returned
  <2> QED BY <2>1, <2>2, <2>3, <2>4 DEF Became
<1>9. CASE StartTraining(c)
  <2>1. \/ status[c] = "accepted" /\ Became(c, "training", worker[c].result, worker[c].raised)
        \/ status[c] # "accepted" /\ Became(c, "returned", worker[c].result, TRUE)
    BY <1>9 DEF StartTraining, Pcs, Statuses
  <2>2. RunTypes'
    BY <1>9 DEF StartTraining, RunTypes, WriteStatus, Statuses, Returned, Outcomes, Recorded
  <2>3. Returned'
    BY <1>9, <2>1 DEF StartTraining, Became, Returned, Outcomes, Statuses, Candidates
  <2>4. Answered'
    BY <1>9, <2>1 DEF StartTraining, Became, Answered, OutcomesAreRecorded, Outcomes, RunTypes, BatchTypes, Returned
  <2> QED BY <2>1, <2>2, <2>3, <2>4 DEF Became
<1>10. CASE EndTraining(c, "completed")
  <2>1. Became(c, "finalize", "completed", worker[c].raised)
    BY <1>10 DEF EndTraining, Pcs, Statuses
  <2>2. RunTypes'
    BY <1>10 DEF EndTraining, RunTypes, WriteStatus, Statuses, Returned, Outcomes, Recorded
  <2>3. Returned'
    BY <1>10, <2>1 DEF EndTraining, Became, Returned, Outcomes, Statuses, Candidates
  <2>4. Answered'
    BY <1>10, <2>1 DEF EndTraining, Became, Answered, OutcomesAreRecorded, Outcomes, RunTypes, BatchTypes, Returned
  <2> QED BY <2>1, <2>2, <2>3, <2>4 DEF Became
<1>11. CASE EndTraining(c, "failed")
  <2>1. Became(c, "finalize", "failed", worker[c].raised)
    BY <1>11 DEF EndTraining, Pcs, Statuses
  <2>2. RunTypes'
    BY <1>11 DEF EndTraining, RunTypes, WriteStatus, Statuses, Returned, Outcomes, Recorded
  <2>3. Returned'
    BY <1>11, <2>1 DEF EndTraining, Became, Returned, Outcomes, Statuses, Candidates
  <2>4. Answered'
    BY <1>11, <2>1 DEF EndTraining, Became, Answered, OutcomesAreRecorded, Outcomes, RunTypes, BatchTypes, Returned
  <2> QED BY <2>1, <2>2, <2>3, <2>4 DEF Became
<1>12. CASE WriteOutcome(c)
  <2>1. Became(c, "record", worker[c].result, worker[c].raised)
    BY <1>12 DEF WriteOutcome, Pcs, Statuses
  <2>2. RunTypes'
    BY <1>12 DEF WriteOutcome, RunTypes, WriteStatus, Statuses, Returned, Outcomes, Recorded
  <2>3. Returned'
    BY <1>12, <2>1 DEF WriteOutcome, Became, Returned, Outcomes, Statuses, Candidates
  <2>4. Answered'
    BY <1>12, <2>1 DEF WriteOutcome, Became, Answered, OutcomesAreRecorded, Outcomes, RunTypes, BatchTypes, Returned
  <2> QED BY <2>1, <2>2, <2>3, <2>4 DEF Became
<1>13. CASE RecordOutcome(c)
  <2>1. \/ Conflicts(c, worker[c].result) /\ Became(c, "returned", worker[c].result, TRUE)
        \/ ~Conflicts(c, worker[c].result) /\ Became(c, "retag", worker[c].result, worker[c].raised)
    BY <1>13 DEF RecordOutcome, Pcs, Statuses
  <2>2. RunTypes'
    BY <1>13 DEF RecordOutcome, RunTypes, WriteStatus, Statuses, Returned, Outcomes, Recorded
  <2>3. Returned'
    BY <1>13, <2>1 DEF RecordOutcome, Became, Returned, Outcomes, Statuses, Candidates
  <2>4. Answered'
    BY <1>13, <2>1 DEF RecordOutcome, Became, Answered, OutcomesAreRecorded, Outcomes, RunTypes, BatchTypes, Returned, Recorded, Conflicts
  <2> QED BY <2>1, <2>2, <2>3, <2>4 DEF Became
<1> QED BY <1>1, <1>2, <1>3, <1>4, <1>5, <1>6, <1>7, <1>8, <1>9, <1>10, <1>11, <1>12, <1>13 DEF SubmissionStep

\* A step of a thread keeps the whole invariant.
LEMMA ThreadKeeps ==
  ASSUME Inv, NEW c \in Candidates, Thread(c)
  PROVE  Inv'
<1> USE DEF Inv
<1>1. CASE SubmissionStep(c) /\ UNCHANGED batchVars
  <2>1. UNCHANGED reconciler
    BY <1>1 DEF SubmissionStep, Submit, Reject, CountRepairs, Announce, WritePrepared,
                StartSmokeTest, EndSmokeTest, StartTraining, EndTraining, WriteOutcome, RecordOutcome
  <2>2. ReconcilerTypes' /\ BatchTypes'
    BY <1>1, <2>1 DEF ReconcilerTypes, BatchTypes, batchVars
  <2> QED BY <1>1, <2>2, SubmissionKeeps
<1>2. CASE TagReads(c)
  <2>1. status[c] \in Statuses /\ worker[c].result \in Statuses /\ worker[c].raised \in BOOLEAN
    BY Going DEF RunTypes
  <2>2. \/ At(c, "tag") /\ Became(c, "tagging", worker[c].result, worker[c].raised)
        \/ At(c, "retag") /\ Became(c, "retagging", worker[c].result, worker[c].raised)
    BY <1>2, <2>1, Becoming DEF TagReads, Pcs, At
  <2>3. RunTypes' /\ ReconcilerTypes' /\ BatchTypes'
    BY <1>2 DEF TagReads, RunTypes, ReconcilerTypes, BatchTypes, metadataVars, batchVars
  <2>4. Returned' /\ Answered'
    BY <1>2, <2>2 DEF TagReads, Became, Returned, Answered, OutcomesAreRecorded, At, batchVars
  <2> QED BY <2>2, <2>3, <2>4 DEF Became
<1>3. CASE TagWrites(c)
  <2>1. worker[c].seen \in Statuses
    BY Going
  <2>2. \/ At(c, "tagging") /\ worker[c].result = "accepted"
           /\ Became(c, "train", worker[c].result, worker[c].raised)
        \/ ~(At(c, "tagging") /\ worker[c].result = "accepted")
           /\ Became(c, "returned", worker[c].result, worker[c].raised)
    BY <1>3, Going DEF TagWrites, Pcs
  <2>3. RunTypes' /\ ReconcilerTypes' /\ BatchTypes'
    BY <1>3, <2>1 DEF TagWrites, RunTypes, ReconcilerTypes, BatchTypes, WriteStatus, batchVars
  <2>4. Returned'
    BY <1>3, <2>2 DEF TagWrites, Became, Returned, At, Outcomes
  <2>5. Answered'
    BY <1>3, <2>2 DEF TagWrites, Became, Returned, Answered, OutcomesAreRecorded, At, Outcomes, batchVars
  <2> QED BY <2>2, <2>3, <2>4, <2>5 DEF Became
<1> QED BY <1>1, <1>2, <1>3 DEF Thread

\* So does a step of reconcile-run: a verdict is recorded only where nothing is.
LEMMA ReconcileKeeps ==
  ASSUME Inv, ReconcileStep, UNCHANGED batchVars
  PROVE  Inv'
<1> USE DEF Inv, batchVars
<1>1. CASE \E c \in Candidates : StartReconcile(c)
  <2>1. PICK c \in Candidates : StartReconcile(c)
    BY <1>1
  <2>2. reconciler' \in ReconcilerRecord /\ reconciler'.run = c /\ reconciler'.pc = "decide"
          /\ reconciler'.tagged = (c \in tagged)
    <3>1. status[c] \in Statuses /\ reconciler.calls + 1 \in Nat
      BY DEF RunTypes, ReconcilerTypes, ReconcilerRecord
    <3> QED BY <2>1, <3>1 DEF StartReconcile, ReconcilerRecord
  <2>3. ReconcilerTypes'
    BY <2>2 DEF ReconcilerTypes, RunTypes
  <2> QED BY <2>1, <2>3 DEF StartReconcile, metadataVars, WorkerTypes, RunTypes, BatchTypes, Returned,
             Answered, OutcomesAreRecorded
<1>2. CASE WriteVerdict
  <2>1. Verdict \in Outcomes
    BY DEF Verdict, Outcomes
  <2>2. reconciler' = [pc |-> "event", run |-> reconciler.run, seen |-> Verdict,
                       tagged |-> reconciler.tagged, calls |-> reconciler.calls]
    BY <1>2 DEF WriteVerdict, ReconcilerTypes, ReconcilerRecord
  <2>3. ReconcilerTypes'
    BY <1>2, <2>1, <2>2 DEF WriteVerdict, ReconcilerTypes, ReconcilerRecord, Outcomes, Statuses
  <2>4. RunTypes'
    <3>1. reconciler.run \in Candidates /\ Verdict \in Statuses
      BY <1>2, <2>1 DEF WriteVerdict, ReconcilerTypes, Outcomes, Statuses
    <3>2. \/ UNCHANGED metadataVars
          \/ /\ status' = [status EXCEPT ![reconciler.run] = Verdict]
             /\ tagged' \in {tagged \cup {reconciler.run}, tagged \ {reconciler.run}}
             /\ reconciler.tagged => tagged' = tagged \cup {reconciler.run}
             /\ ~reconciler.tagged => tagged' = tagged \ {reconciler.run}
      BY <1>2 DEF WriteVerdict, WriteStatus
    <3>3. UNCHANGED <<outputs, created, terminals>>
      BY <1>2 DEF WriteVerdict
    <3> QED BY <3>1, <3>2, <3>3 DEF RunTypes, metadataVars, ReconcilerTypes
  <2> QED BY <1>2, <2>3, <2>4 DEF WriteVerdict, metadataVars, WorkerTypes, BatchTypes, Returned, Answered,
             OutcomesAreRecorded
<1>3. CASE RecordVerdict
  <2>1. reconciler' = [pc |-> "idle", run |-> "none", seen |-> "none", tagged |-> FALSE,
                       calls |-> reconciler.calls]
    BY <1>3 DEF RecordVerdict, NotReconciling
  <2>2. ReconcilerTypes'
    BY <2>1 DEF ReconcilerTypes, ReconcilerRecord, Statuses
  <2>3. reconciler.run \in Candidates /\ reconciler.seen \in Outcomes
    BY <1>3 DEF RecordVerdict, ReconcilerTypes
  <2>4. /\ terminals' \in [Candidates -> {<<>>} \cup {<<o>> : o \in Outcomes}]
        /\ \A c \in Candidates : terminals[c] # <<>> => terminals'[c] = terminals[c]
    BY <1>3, <2>3 DEF RecordVerdict, Recorded, RunTypes
  <2>5. RunTypes' /\ WorkerTypes' /\ BatchTypes' /\ Returned'
    BY <1>3, <2>4 DEF RecordVerdict, metadataVars, RunTypes, WorkerTypes, BatchTypes, Returned
  <2>6. Answered'
    <3>1. UNCHANGED <<worker, records, linked>> /\ linked \subseteq Candidates
      BY <1>3 DEF RecordVerdict, BatchTypes, Candidates
    <3>2. \A x : <<x>> # <<>>
      OBVIOUS
    <3>3. \A c \in Candidates : Len(terminals'[c]) <= 1
      <4> TAKE c \in Candidates
      <4>1. \/ terminals'[c] = <<>>
            \/ \E o \in Outcomes : terminals'[c] = <<o>>
        BY <2>4
      <4>2. CASE terminals'[c] = <<>>
        BY <4>2
      <4>3. CASE \E o \in Outcomes : terminals'[c] = <<o>>
        BY <4>3
      <4> QED BY <4>1, <4>2, <4>3
    <3> QED BY <2>4, <3>1, <3>2, <3>3 DEF Answered, OutcomesAreRecorded
  <2> QED BY <2>2, <2>5, <2>6
<1> QED BY <1>1, <1>2, <1>3 DEF ReconcileStep

\* So does a step of the coordinator: a record is made of a thread that returned.
LEMMA CoordinatorKeeps ==
  ASSUME Inv, Coordinator \/ RefuseBatch \/ KillBatch
  PROVE  Inv'
<1> USE DEF Inv, submissionVars, metadataVars
<1>1. CASE CreateBatch \/ RefuseBatch
  BY <1>1 DEF CreateBatch, RefuseBatch, WorkerTypes, RunTypes, ReconcilerTypes, BatchTypes, Returned,
              Answered, OutcomesAreRecorded
<1>2. CASE \E i \in 1..Len(Batched) : StartThread(i)
  <2>1. PICK i \in 1..Len(Batched) : StartThread(i)
    BY <1>2
  <2>2. Batched[i] \in Candidates
    BY DEF Candidates, Members
  <2>3. Became(Batched[i], "validate", worker[Batched[i]].result, worker[Batched[i]].raised)
    BY <2>1, <2>2, Going DEF StartThread, Pcs
  <2> QED BY <2>1, <2>2, <2>3 DEF StartThread, Became, WorkerTypes, RunTypes, ReconcilerTypes, BatchTypes,
             Returned, Answered, OutcomesAreRecorded, batchVars, Outcomes
<1>3. CASE \E c \in Members : Gather(c)
  <2>1. PICK c \in Members : Gather(c)
    BY <1>3
  <2>2. c \in Candidates /\ worker[c].raised \in BOOLEAN
    BY Going DEF Candidates
  <2>3. WorkerTypes' /\ RunTypes' /\ ReconcilerTypes' /\ Returned'
    BY <2>1 DEF Gather, WorkerTypes, RunTypes, ReconcilerTypes, Returned
  <2>4. CASE worker[c].raised
    <3>1. records' = [records EXCEPT ![c] = "failed"] /\ linked' = linked /\ records[c] = "none"
      BY <2>1, <2>4 DEF Gather
    <3>2. BatchTypes'
      BY <2>1, <3>1 DEF Gather, BatchTypes
    <3>3. c \notin linked
      BY <3>1, <2>1 DEF BatchTypes
    <3>4. Answered'
      BY <2>1, <3>1, <3>3 DEF Gather, Answered, OutcomesAreRecorded, BatchTypes
    <3> QED BY <2>3, <3>2, <3>4
  <2>5. CASE ~worker[c].raised
    <3>1. records' = [records EXCEPT ![c] = worker[c].result] /\ linked' = linked \cup {c}
      BY <2>1, <2>5 DEF Gather
    <3>2. worker[c].result \in {"rejected", "smoke_failed"} \cup Outcomes
      BY <2>1, <2>2, <2>5 DEF Gather, Returned, At
    <3>3. BatchTypes'
      BY <2>1, <3>1, <3>2 DEF Gather, BatchTypes, Outcomes
    <3>4. Answered'
      BY <2>1, <2>2, <2>5, <3>1, <3>2 DEF Gather, Answered, OutcomesAreRecorded, BatchTypes, Outcomes, At
    <3> QED BY <2>3, <3>3, <3>4
  <2> QED BY <2>4, <2>5
<1>4. CASE WriteBatchMetadata
  BY <1>4 DEF WriteBatchMetadata, BatchStatus, AllGathered, WorkerTypes, RunTypes, ReconcilerTypes,
              BatchTypes, Returned, Answered, OutcomesAreRecorded
<1>5. CASE RecordBatchCompleted
  BY <1>5 DEF RecordBatchCompleted, WorkerTypes, RunTypes, ReconcilerTypes,
              BatchTypes, Returned, Answered, OutcomesAreRecorded
<1>6. CASE KillBatch
  BY <1>6 DEF KillBatch, Worker, WorkerTypes, WorkerRecord, Pcs, Statuses, RunTypes, ReconcilerTypes,
              BatchTypes, Returned, Answered, OutcomesAreRecorded
<1> QED BY <1>1, <1>2, <1>3, <1>4, <1>5, <1>6 DEF Coordinator

\* The invariant is inductive.
LEMMA StepInv == ASSUME Inv, [Next]_vars PROVE Inv'
<1>1. CASE UNCHANGED vars
  BY <1>1 DEF vars, submissionVars, metadataVars, batchVars, Inv, WorkerTypes, RunTypes, ReconcilerTypes,
              BatchTypes, Returned, Answered, OutcomesAreRecorded
<1> QED BY <1>1, ThreadKeeps, ReconcileKeeps, CoordinatorKeeps DEF Next

LEMMA AlwaysInv == Spec => []Inv
BY InitInv, StepInv, PTL DEF Spec

\* Every variable of the batch and of its submissions keeps its type, and a batch
\* whose metadata are final has a record for every member (TypeOK), for any number of
\* members, threads, reconcile-runs and kills.
THEOREM TypeCorrect == Spec => []TypeOK
<1>1. Inv => TypeOK
  BY Going DEF Inv, RunTypes, BatchTypes, TypeOK, WorkerTypes, WorkerRecord
<1> QED BY <1>1, AlwaysInv, PTL

\* What a batch reports of a Run is what the Research Ledger says of it, and no Run
\* has two outcomes (OutcomesAreRecorded), whatever reconcile-run decides meanwhile.
THEOREM BatchReportsLedger == Spec => []OutcomesAreRecorded
<1>1. Inv => OutcomesAreRecorded
  BY DEF Inv, Answered
<1> QED BY <1>1, AlwaysInv, PTL

-----------------------------------------------------------------------------
(* The ledger of the batch's Runs, and what the batch's status says of it *)

\* The outcome the ledger announces for each Run.
AnnouncedOutcome(c) ==
  IF terminals[c] = <<>> THEN "none"
  ELSE IF terminals[c] = <<"completed">> THEN "run_completed" ELSE "run_failed"

\* The one-shot announcement, with every Candidate's outcome in the place of a Run's.
Once == INSTANCE TerminalOnce
          WITH Runs <- Candidates, announced <- [c \in Candidates |-> AnnouncedOutcome(c)]

\* A step adds at most one event, of one Run, and only where there was none.
LEMMA OneEventAtATime ==
  ASSUME Inv, [Next]_vars
  PROVE  \/ UNCHANGED terminals
         \/ \E c \in Candidates, o \in Outcomes :
              /\ terminals[c] = <<>>
              /\ terminals' = [terminals EXCEPT ![c] = <<o>>]
<1> USE DEF Inv
<1>1. CASE UNCHANGED vars
  BY <1>1 DEF vars, submissionVars
<1>2. ASSUME NEW c \in Candidates, NEW o \in Outcomes,
             terminals' = [terminals EXCEPT ![c] = Recorded(c, o)]
      PROVE  \/ UNCHANGED terminals
             \/ terminals[c] = <<>> /\ terminals' = [terminals EXCEPT ![c] = <<o>>]
  BY <1>2 DEF Recorded, RunTypes
<1>3. ASSUME NEW c \in Candidates, RecordOutcome(c)
      PROVE  \E o \in Outcomes : terminals' = [terminals EXCEPT ![c] = Recorded(c, o)]
  BY <1>3 DEF RecordOutcome, At, Returned
<1>4. CASE RecordVerdict
  <2>1. /\ reconciler.run \in Candidates /\ reconciler.seen \in Outcomes
        /\ terminals' = [terminals EXCEPT ![reconciler.run] =
                                       Recorded(reconciler.run, reconciler.seen)]
    BY <1>4 DEF RecordVerdict, ReconcilerTypes
  <2> QED BY <1>2, <2>1
<1>5. ASSUME NEW c \in Candidates, Thread(c), ~RecordOutcome(c) PROVE UNCHANGED terminals
  BY <1>5 DEF Thread, SubmissionStep, Submit, Reject, CountRepairs, Announce, WritePrepared,
              StartSmokeTest, EndSmokeTest, StartTraining, EndTraining, WriteOutcome, TagReads,
              TagWrites
<1>6. CASE Coordinator \/ RefuseBatch \/ KillBatch \/ (ReconcileStep /\ ~RecordVerdict)
  BY <1>6 DEF Coordinator, CreateBatch, StartThread, Gather, WriteBatchMetadata,
              RecordBatchCompleted, RefuseBatch, KillBatch, ReconcileStep, StartReconcile,
              WriteVerdict, submissionVars
<1> QED BY <1>1, <1>2, <1>3, <1>4, <1>5, <1>6 DEF Next

\* Submissions, batch threads and reconcile-run together announce the outcome of
\* each Run at most once and never change it, as the ledger promises its readers.
THEOREM SubmissionsImplementTerminalOnce == Spec => Once!Spec
<1>1. Init => Once!Init
  BY DEF Init, SubmissionInit, Once!Init, AnnouncedOutcome
<1>2. ASSUME Inv, [Next]_vars
      PROVE  [Once!Next]_([c \in Candidates |-> AnnouncedOutcome(c)])
  <2>1. CASE UNCHANGED terminals
    BY <2>1 DEF AnnouncedOutcome
  <2>2. ASSUME NEW c \in Candidates, NEW o \in Outcomes, terminals[c] = <<>>,
               terminals' = [terminals EXCEPT ![c] = <<o>>]
        PROVE  Once!Next
    <3> DEFINE event == IF o = "completed" THEN "run_completed" ELSE "run_failed"
    <3>1. event \in Once!TerminalEvent
      BY DEF Once!TerminalEvent
    <3>2. AnnouncedOutcome(c) = "none" /\ AnnouncedOutcome(c)' = event
      <4>1. terminals'[c] = <<o>>
        BY <1>2, <2>2 DEF Inv, RunTypes
      <4>2. <<o>> # <<>> /\ (<<o>> = <<"completed">> <=> o = "completed")
        OBVIOUS
      <4> QED BY <2>2, <4>1, <4>2 DEF AnnouncedOutcome
    <3>3. \A d \in Candidates \ {c} : AnnouncedOutcome(d)' = AnnouncedOutcome(d)
      BY <1>2, <2>2 DEF Inv, RunTypes, AnnouncedOutcome
    <3> HIDE DEF event
    <3>4. Once!Announce(c, event)
      BY <3>2, <3>3 DEF Once!Announce
    <3> QED BY <3>1, <3>4 DEF Once!Next
  <2> QED BY <1>2, <2>1, <2>2, OneEventAtATime
<1> QED BY AlwaysInv, <1>1, <1>2, PTL DEF Spec, Once!Spec

\* What the status in batch_metadata.json says of the ledger.
StatusIsRecorded ==
  /\ batch.status = "completed" => \A c \in Members : terminals[c] = <<"completed">>
  /\ batch.status = "partially_failed" => \E c \in Members : terminals[c] = <<"completed">>
  /\ batch.status = "failed" => \A c \in linked : terminals[c] # <<"completed">>

\* A completed record is a record of a Run, and a final status is that of the records.
Reported ==
  /\ \A c \in Members : records[c] = "completed" => c \in linked
  /\ \A c \in linked :
       records[c] # "completed" => c \notin outputs /\ worker[c].pc \in {"returned", "dead"}
  /\ batch.status \in {"completed", "partially_failed", "failed"} => batch.status = BatchStatus

\* Where a thread is once its training operation has ended.
Late == {"finalize", "record", "retag", "retagging", "returned"}

\* Outputs are complete only where the training operation succeeded, and nothing
\* is announced as completed without them.
Validated ==
  /\ \A c \in Candidates :
       worker[c].pc \in {"finalize", "record"} /\ worker[c].result = "completed" => c \in outputs
  /\ \A c \in outputs :
       worker[c].pc # "dead" => worker[c].pc \in Late /\ worker[c].result = "completed"
  /\ reconciler.pc = "event" /\ reconciler.seen = "completed" => reconciler.run \in outputs
  /\ \A c \in Candidates : terminals[c] = <<"completed">> => c \in outputs

\* The three kinds of step of a thread: the end of its training operation, a step
\* after it, and a step before it.
Moved(c) ==
  /\ \A d \in Candidates \ {c} : worker'[d] = worker[d]
  /\ \/ /\ At(c, "training") /\ worker'[c].pc = "finalize" /\ worker'[c].result \in Outcomes
        /\ outputs' = IF worker'[c].result = "completed" THEN outputs \cup {c} ELSE outputs
     \/ /\ outputs' = outputs /\ worker[c].pc \in Late /\ worker'[c].pc \in Late
        /\ worker'[c].result = worker[c].result
        /\ worker'[c].pc # "finalize" /\ (worker'[c].pc = "record" => At(c, "finalize"))
     \/ /\ outputs' = outputs /\ worker[c].pc \notin Late \cup {"dead"}
        /\ worker'[c].pc \notin {"finalize", "record", "dead"}

LEMMA TagReading ==
  ASSUME Inv, NEW c \in Candidates, TagReads(c)
  PROVE  \/ At(c, "tag") /\ Became(c, "tagging", worker[c].result, worker[c].raised)
         \/ At(c, "retag") /\ Became(c, "retagging", worker[c].result, worker[c].raised)
<1>1. /\ status[c] \in Statuses /\ worker[c].result \in Statuses
      /\ worker[c].raised \in BOOLEAN
  BY Going DEF Inv, RunTypes
<1> QED BY <1>1, Becoming DEF TagReads, Pcs, At, Inv

LEMMA Moves ==
  ASSUME Inv, NEW c \in Candidates, Thread(c)
  PROVE  Moved(c)
<1> USE Going DEF Inv, At, Moved, Late, Pcs, Outcomes, Statuses, Became
<1>2. worker[c].result \in Statuses /\ worker[c].raised \in BOOLEAN
  OBVIOUS
<1>3. CASE Submit(c) \/ Announce(c) \/ WritePrepared(c)
  <2>1. \/ At(c, "queued") /\ Became(c, "validate", worker[c].result, worker[c].raised)
        \/ At(c, "announce") /\ Became(c, "prepare", worker[c].result, worker[c].raised)
        \/ At(c, "prepare") /\ Became(c, "smoke", worker[c].result, worker[c].raised)
    BY <1>3 DEF Submit, Announce, WritePrepared
  <2>2. UNCHANGED outputs
    BY <1>3 DEF Submit, Announce, WritePrepared
  <2> QED BY <1>2, <2>1, <2>2
<1>4. CASE StartSmokeTest(c) \/ StartTraining(c)
  <2>1. \/ At(c, "smoke") /\ Became(c, "smoking", worker[c].result, worker[c].raised)
        \/ At(c, "train") /\ Became(c, "training", worker[c].result, worker[c].raised)
        \/ At(c, "smoke") /\ Became(c, "returned", worker[c].result, TRUE)
        \/ At(c, "train") /\ Became(c, "returned", worker[c].result, TRUE)
    BY <1>4 DEF StartSmokeTest, StartTraining
  <2>2. UNCHANGED outputs
    BY <1>4 DEF StartSmokeTest, StartTraining
  <2> QED BY <1>2, <2>1, <2>2
<1>5. CASE \/ Reject(c) \/ CountRepairs(c)
           \/ EndSmokeTest(c, "accepted") \/ EndSmokeTest(c, "smoke_failed")
  <2>1. /\ AfterSubmission(c) \in {"tag", "returned"}
        /\ \E r \in Statuses :
             \/ At(c, "validate") /\ Became(c, AfterSubmission(c), r, worker[c].raised)
             \/ At(c, "validate") /\ Became(c, "announce", r, worker[c].raised)
             \/ At(c, "smoking") /\ Became(c, AfterSubmission(c), r, worker[c].raised)
    BY <1>2, <1>5 DEF Reject, CountRepairs, EndSmokeTest, AfterSubmission
  <2>2. UNCHANGED outputs
    BY <1>5 DEF Reject, CountRepairs, EndSmokeTest
  <2> QED BY <1>2, <2>1, <2>2
<1>6. CASE EndTraining(c, "completed") \/ EndTraining(c, "failed")
  <2>1. \E r \in Outcomes :
          /\ At(c, "training") /\ Became(c, "finalize", r, worker[c].raised)
          /\ outputs' = IF r = "completed" THEN outputs \cup {c} ELSE outputs
    BY <1>6 DEF EndTraining
  <2> QED BY <1>2, <2>1
<1>7. CASE WriteOutcome(c) \/ RecordOutcome(c)
  <2>1. \/ At(c, "finalize") /\ Became(c, "record", worker[c].result, worker[c].raised)
        \/ At(c, "record") /\ Became(c, "retag", worker[c].result, worker[c].raised)
        \/ At(c, "record") /\ Became(c, "returned", worker[c].result, TRUE)
    BY <1>7 DEF WriteOutcome, RecordOutcome
  <2>2. UNCHANGED outputs
    BY <1>7 DEF WriteOutcome, RecordOutcome
  <2> QED BY <1>2, <2>1, <2>2
<1>8. CASE TagReads(c)
  <2>1. \/ At(c, "tag") /\ Became(c, "tagging", worker[c].result, worker[c].raised)
        \/ At(c, "retag") /\ Became(c, "retagging", worker[c].result, worker[c].raised)
    BY <1>8, TagReading
  <2> QED BY <1>8, <2>1 DEF TagReads
<1>9. CASE TagWrites(c)
  BY <1>2, <1>9 DEF TagWrites
<1> QED BY <1>3, <1>4, <1>5, <1>6, <1>7, <1>8, <1>9 DEF Thread, SubmissionStep

\* Which events appear, and what they are made of.
LEMMA EventMakers ==
  ASSUME Inv, [Next]_vars, ~UNCHANGED terminals
  PROVE  \/ \E c \in Candidates :
              /\ At(c, "record") /\ terminals[c] = <<>>
              /\ terminals' = [terminals EXCEPT ![c] = <<worker[c].result>>]
         \/ /\ reconciler.pc = "event" /\ reconciler.run \in Candidates
            /\ terminals' = [terminals EXCEPT ![reconciler.run] = <<reconciler.seen>>]
<1> USE DEF Inv
<1>1. ASSUME NEW c \in Candidates, NEW o, terminals' = [terminals EXCEPT ![c] = Recorded(c, o)]
      PROVE  terminals[c] = <<>> /\ terminals' = [terminals EXCEPT ![c] = <<o>>]
  BY <1>1 DEF Recorded, RunTypes
<1>2. CASE \E c \in Candidates : RecordOutcome(c)
  BY <1>1, <1>2 DEF RecordOutcome
<1>3. CASE RecordVerdict
  BY <1>1, <1>3 DEF RecordVerdict, ReconcilerTypes
<1>4. ASSUME NEW c \in Candidates, Thread(c) PROVE RecordOutcome(c)
  BY <1>4 DEF Thread, SubmissionStep, Submit, Reject, CountRepairs, Announce, WritePrepared,
              StartSmokeTest, EndSmokeTest, StartTraining, EndTraining, WriteOutcome, TagReads,
              TagWrites
<1>5. ~Coordinator /\ ~RefuseBatch /\ ~KillBatch /\ (ReconcileStep => RecordVerdict)
  BY DEF Coordinator, CreateBatch, StartThread, Gather, WriteBatchMetadata,
         RecordBatchCompleted, RefuseBatch, KillBatch, ReconcileStep, StartReconcile,
         WriteVerdict, submissionVars
<1> QED BY <1>2, <1>3, <1>4, <1>5 DEF Next, vars, submissionVars

LEMMA ValidatedStep ==
  ASSUME Inv, Validated, [Next]_vars
  PROVE  Validated'
<1> USE DEF Validated, Inv
<1>1. /\ outputs \subseteq outputs'
      /\ \A c \in Candidates :
           worker'[c].pc \in {"finalize", "record"} /\ worker'[c].result = "completed" => c \in outputs'
      /\ \A c \in outputs' :
           worker'[c].pc # "dead" => worker'[c].pc \in Late /\ worker'[c].result = "completed"
  <2>1. ASSUME NEW c \in Candidates, Thread(c) PROVE <1>1!:
    <3>1. Moved(c)
      BY <2>1, Moves
    <3>2. outputs \subseteq Candidates
      BY DEF RunTypes
    <3> QED BY <3>1, <3>2 DEF Moved, Late, At
  <2>2. CASE ReconcileStep \/ UNCHANGED vars
    BY <2>2 DEF ReconcileStep, StartReconcile, WriteVerdict, RecordVerdict, vars, submissionVars
  <2>3. CASE Coordinator \/ RefuseBatch
    <3>1. UNCHANGED worker \/ \E i \in 1..Len(Batched) : StartThread(i)
      BY <2>3 DEF Coordinator, CreateBatch, Gather, WriteBatchMetadata, RecordBatchCompleted,
                  RefuseBatch, submissionVars
    <3>2. UNCHANGED outputs
      BY <2>3 DEF Coordinator, CreateBatch, StartThread, Gather, WriteBatchMetadata,
                  RecordBatchCompleted, RefuseBatch, submissionVars
    <3>3. ASSUME NEW i \in 1..Len(Batched), StartThread(i) PROVE <1>1!:
      <4>1. Batched[i] \in Candidates /\ At(Batched[i], "queued")
        BY <3>3 DEF StartThread, Members, Candidates
      <4>2. Became(Batched[i], "validate", worker[Batched[i]].result, worker[Batched[i]].raised)
        BY <3>3, <4>1, Going DEF StartThread, Pcs
      <4>3. outputs \subseteq Candidates /\ Batched[i] \notin outputs
        BY <4>1 DEF RunTypes, At, Late
      <4> QED BY <3>2, <4>1, <4>2, <4>3 DEF Became
    <3>4. outputs \subseteq Candidates
      BY DEF RunTypes
    <3> QED BY <3>1, <3>2, <3>3, <3>4
  <2>4. CASE KillBatch
    <3>1. /\ UNCHANGED outputs
          /\ \A c \in Candidates : worker'[c] = worker[c] \/ worker'[c].pc = "dead"
      BY <2>4 DEF KillBatch, Worker
    <3>2. outputs \subseteq Candidates
      BY DEF RunTypes
    <3>3. ASSUME NEW c \in Candidates, worker'[c].pc # "dead"
          PROVE  worker'[c].pc = worker[c].pc /\ worker'[c].result = worker[c].result
      BY <3>1, <3>3
    <3>4. \A c \in Candidates :
             worker'[c].pc \in {"finalize", "record"} /\ worker'[c].result = "completed" => c \in outputs'
      BY <3>1, <3>3
    <3>5. \A c \in outputs' :
             worker'[c].pc # "dead" => worker'[c].pc \in Late /\ worker'[c].result = "completed"
      BY <3>1, <3>2, <3>3
    <3>6. outputs \subseteq outputs'
      BY <3>1
    <3> HIDE DEF Validated, Inv
    <3> QED BY <3>4, <3>5, <3>6
  <2> QED BY <2>1, <2>2, <2>3, <2>4 DEF Next
<1>2. reconciler'.pc = "event" /\ reconciler'.seen = "completed" => reconciler'.run \in outputs
  <2>1. CASE UNCHANGED reconciler
    BY <2>1
  <2>2. CASE WriteVerdict
    <3>1. reconciler'.seen = Verdict /\ reconciler'.run = reconciler.run
      BY <2>2 DEF WriteVerdict, ReconcilerTypes, ReconcilerRecord
    <3> QED BY <3>1 DEF Verdict
  <2>3. CASE RecordVerdict \/ \E c \in Candidates : StartReconcile(c)
    <3>1. reconciler'.pc \in {"idle", "decide"}
      BY <2>3 DEF RecordVerdict, StartReconcile, NotReconciling
    <3> QED BY <3>1
  <2>4. ~ReconcileStep => UNCHANGED reconciler
    BY DEF Next, vars, submissionVars, Thread, SubmissionStep, Submit, Reject, CountRepairs, Announce,
           WritePrepared, StartSmokeTest, EndSmokeTest, StartTraining, EndTraining, WriteOutcome,
           RecordOutcome, TagReads, TagWrites, Coordinator, CreateBatch, StartThread, Gather,
           WriteBatchMetadata, RecordBatchCompleted, RefuseBatch, KillBatch
  <2> QED BY <2>1, <2>2, <2>3, <2>4 DEF ReconcileStep
<1>3. \A c \in Candidates : terminals'[c] = <<"completed">> => c \in outputs
  <2> SUFFICES ASSUME ~UNCHANGED terminals,
                      NEW c \in Candidates, terminals'[c] = <<"completed">>
               PROVE  c \in outputs
    OBVIOUS
  <2>1. \A o : <<o>> = <<"completed">> => o = "completed"
    OBVIOUS
  <2>2. ASSUME NEW d \in Candidates, At(d, "record"),
               terminals' = [terminals EXCEPT ![d] = <<worker[d].result>>]
        PROVE  c \in outputs
    <3>1. CASE c = d
      BY <2>1, <2>2, <3>1 DEF RunTypes, At
    <3>2. CASE c # d
      BY <2>2, <3>2 DEF RunTypes
    <3> QED BY <3>1, <3>2
  <2>3. ASSUME reconciler.pc = "event", reconciler.run \in Candidates,
               terminals' = [terminals EXCEPT ![reconciler.run] = <<reconciler.seen>>]
        PROVE  c \in outputs
    <3>1. CASE c = reconciler.run
      BY <2>1, <2>3, <3>1 DEF RunTypes
    <3>2. CASE c # reconciler.run
      BY <2>3, <3>2 DEF RunTypes
    <3> QED BY <3>1, <3>2
  <2> QED BY <2>2, <2>3, EventMakers
<1> QED BY <1>1, <1>2, <1>3

\* The members with a record, and what the batch's status is computed from.
LEMMA ReportedStep ==
  ASSUME Inv, Validated, Reported, [Next]_vars
  PROVE  Reported'
<1> USE DEF Reported, Inv
<1>1. CASE \E c \in Members : Gather(c)
  <2>1. PICK c \in Members : Gather(c)
    BY <1>1
  <2>2. /\ batch.pc = "gather" /\ At(c, "returned") /\ records[c] = "none" /\ c \in Candidates
        /\ UNCHANGED <<outputs, worker, batch>>
    BY <2>1 DEF Gather, submissionVars, Candidates
  <2>3. batch'.status = "running"
    BY <2>2 DEF BatchTypes
  <2>4. CASE worker[c].raised
    <3>1. records' = [records EXCEPT ![c] = "failed"] /\ linked' = linked /\ c \notin linked
      BY <2>1, <2>4 DEF Gather, BatchTypes
    <3> QED BY <2>2, <2>3, <3>1 DEF BatchTypes
  <2>5. CASE ~worker[c].raised
    <3>1. records' = [records EXCEPT ![c] = worker[c].result] /\ linked' = linked \cup {c}
      BY <2>1, <2>5 DEF Gather
    <3>2. worker[c].result # "completed" => c \notin outputs
      BY <2>2 DEF Validated, At
    <3> QED BY <2>2, <2>3, <3>1, <3>2 DEF BatchTypes, At
  <2> QED BY <2>4, <2>5
<1>2. CASE WriteBatchMetadata
  <2>1. batch'.status = BatchStatus /\ UNCHANGED <<records, linked, outputs, worker>>
    BY <1>2 DEF WriteBatchMetadata, submissionVars
  <2> QED BY <2>1 DEF BatchStatus
<1>3. CASE RefuseBatch \/ CreateBatch \/ RecordBatchCompleted \/ UNCHANGED vars
  <2>1. /\ UNCHANGED <<records, linked, outputs, worker>>
        /\ batch'.status = batch.status \/ batch'.status = "running"
    BY <1>3 DEF RefuseBatch, CreateBatch, RecordBatchCompleted, BatchTypes, vars, submissionVars, batchVars
  <2> QED BY <2>1 DEF BatchStatus
<1>4. CASE KillBatch
  <2>1. /\ UNCHANGED <<records, linked, outputs>> /\ batch'.status = batch.status
        /\ \A c \in Candidates : worker'[c] = worker[c] \/ worker'[c].pc = "dead"
    BY <1>4 DEF KillBatch, Worker, BatchTypes
  <2> QED BY <2>1 DEF BatchStatus, BatchTypes, Candidates
<1>5. CASE ReconcileStep /\ UNCHANGED batchVars
  <2>1. UNCHANGED <<records, linked, outputs, worker, batch>>
    BY <1>5 DEF ReconcileStep, StartReconcile, WriteVerdict, RecordVerdict, batchVars
  <2> QED BY <2>1 DEF BatchStatus
<1>6. CASE \E i \in 1..Len(Batched) : StartThread(i)
  <2>1. PICK i \in 1..Len(Batched) : StartThread(i)
    BY <1>6
  <2>2. Batched[i] \in Candidates /\ At(Batched[i], "queued") /\ UNCHANGED <<outputs, batchVars>>
    BY <2>1 DEF StartThread, Members, Candidates
  <2>3. Became(Batched[i], "validate", worker[Batched[i]].result, worker[Batched[i]].raised)
    BY <2>1, <2>2, Going DEF StartThread, Pcs
  <2>4. \A c \in linked : c \in Candidates
    BY DEF BatchTypes, Candidates
  <2>5. \A c \in linked : records[c] # "completed" => worker'[c].pc = worker[c].pc
    BY <2>2, <2>3, <2>4 DEF Became, At
  <2> QED BY <2>2, <2>5 DEF batchVars, BatchStatus
<1>7. CASE \E c \in Candidates : Thread(c)
  <2>1. PICK c \in Candidates : Thread(c)
    BY <1>7
  <2>2. Moved(c)
    BY <2>1, Moves
  <2>3. UNCHANGED batchVars
    BY <2>1 DEF Thread, TagReads, TagWrites
  <2>4. worker[c].pc # "returned" /\ worker[c].pc # "dead"
    BY <2>1 DEF Thread, SubmissionStep, Submit, Reject, CountRepairs, Announce, WritePrepared,
                StartSmokeTest, EndSmokeTest, StartTraining, EndTraining, WriteOutcome,
                RecordOutcome, TagReads, TagWrites, At
  <2>5. \A d \in Candidates \ {c} : worker'[d] = worker[d] /\ (d \in outputs' <=> d \in outputs)
    BY <2>2 DEF Moved
  <2>6. \A d \in linked : d \in Candidates
    BY DEF BatchTypes, Candidates
  <2> QED BY <2>3, <2>4, <2>5, <2>6 DEF batchVars, BatchStatus
<1> QED BY <1>1, <1>2, <1>3, <1>4, <1>5, <1>6, <1>7 DEF Next, Coordinator


LEMMA AlwaysValidated == Spec => [](Validated /\ Reported)
<1>1. Init => Validated /\ Reported
  <2> SUFFICES ASSUME Init PROVE Validated /\ Reported
    OBVIOUS
  <2> USE DEF Init, SubmissionInit, Worker, NotReconciling, NoRecords
  <2>1. Validated
    BY DEF Validated
  <2>2. Reported
    BY DEF Reported
  <2> QED BY <2>1, <2>2
<1>2. Inv /\ Validated /\ Reported /\ [Next]_vars => (Validated /\ Reported)'
  BY ValidatedStep, ReportedStep
<1> QED BY AlwaysInv, <1>1, <1>2, PTL DEF Spec

\* No Run is announced as completed whose training outputs were not there and
\* valid, by the thread that trained it or by a reconcile-run beside it.
CompletedHasOutputs == \A c \in Candidates : terminals[c] = <<"completed">> => c \in outputs

\* The outcome "completed" in the ledger vouches for the outputs, for any number
\* of threads, reconcile-runs and kills.
THEOREM CompletedMeansOutputs == Spec => []CompletedHasOutputs
<1>1. Validated => CompletedHasOutputs
  BY DEF Validated, CompletedHasOutputs
<1> QED BY AlwaysValidated, <1>1, PTL

\* A batch that says completed has a completed Run of every member in the ledger;
\* partially_failed has one; failed has none among the Runs it links to.
THEOREM BatchStatusIsRecorded == Spec => []StatusIsRecorded
<1>1. Inv /\ Validated /\ Reported => StatusIsRecorded
  <2> SUFFICES ASSUME Inv, Validated, Reported PROVE StatusIsRecorded
    OBVIOUS
  <2>1. \A c \in Members : records[c] = "completed" => terminals[c] = <<"completed">>
    BY DEF Reported, Inv, Answered, OutcomesAreRecorded
  <2>2. linked \subseteq Members /\ linked \subseteq Candidates
    BY DEF Inv, BatchTypes, Candidates
  <2>3. CASE batch.status = "completed"
    <3>1. {records[c] : c \in Members} = {"completed"}
      BY <2>3 DEF Reported, BatchStatus
    <3>2. \A c \in Members : records[c] = "completed"
      BY <3>1
    <3> QED BY <2>1, <2>3, <3>2 DEF StatusIsRecorded
  <2>4. CASE batch.status = "partially_failed"
    <3>1. "completed" \in {records[c] : c \in Members}
      BY <2>4 DEF Reported, BatchStatus
    <3>2. PICK c \in Members : records[c] = "completed"
      BY <3>1
    <3>3. terminals[c] = <<"completed">>
      BY <2>1, <3>2
    <3> QED BY <2>4, <3>3 DEF StatusIsRecorded
  <2>5. CASE batch.status = "failed"
    <3>1. "completed" \notin {records[c] : c \in Members}
      BY <2>5 DEF Reported, BatchStatus
    <3>2. \A c \in linked : records[c] # "completed"
      BY <2>2, <3>1
    <3>3. \A c \in linked : c \notin outputs
      BY <3>2 DEF Reported
    <3> QED BY <2>2, <2>5, <3>3 DEF StatusIsRecorded, Validated
  <2>6. CASE batch.status \notin {"completed", "partially_failed", "failed"}
    BY <2>6 DEF StatusIsRecorded
  <2> QED BY <2>3, <2>4, <2>5, <2>6
<1> QED BY AlwaysInv, AlwaysValidated, <1>1, PTL

-----------------------------------------------------------------------------
(* Why a batch that gathers ends: the safety core of BatchEnds *)

\* The first thread of the pool's queue.
NextToStart(i) ==
  /\ At(Batched[i], "queued")
  /\ \A j \in 1..(i - 1) : ~At(Batched[j], "queued")

\* While the executor gathers, none of its threads is dead, and it is done or one
\* of these can go on: a result to gather, a thread at work, a thread to start.
BatchHasWork ==
  batch.pc = "gather" =>
    /\ \A c \in Members : ~At(c, "dead")
    /\ \/ AllGathered
       \/ \E c \in Members : At(c, "returned") /\ records[c] = "none"
       \/ Working # {}
       \/ Cardinality(Working) < WorkerCount /\ \E i \in 1..Len(Batched) : NextToStart(i)

\* Only a kill of the whole process leaves dead threads.
NobodyDead == batch.pc # "dead" => \A c \in Members : ~At(c, "dead")

LEMMA NobodyDeadStep ==
  ASSUME Inv, NobodyDead, [Next]_vars
  PROVE  NobodyDead'
<1> USE DEF NobodyDead, At, Inv
<1>1. CASE \E c \in Candidates : Thread(c)
  <2>1. PICK c \in Candidates : Thread(c)
    BY <1>1
  <2>2. Moved(c) /\ worker[c].pc # "dead"
    BY <2>1, Moves DEF Thread, SubmissionStep, Submit, Reject, CountRepairs, Announce,
                WritePrepared, StartSmokeTest, EndSmokeTest, StartTraining, EndTraining,
                WriteOutcome, RecordOutcome, TagReads, TagWrites
  <2>3. worker'[c].pc # "dead" /\ \A d \in Candidates \ {c} : worker'[d] = worker[d]
    BY <2>2 DEF Moved, Late
  <2>4. UNCHANGED batch
    BY <2>1 DEF Thread, TagReads, TagWrites, batchVars
  <2> QED BY <2>3, <2>4 DEF Candidates
<1>2. CASE \E i \in 1..Len(Batched) : StartThread(i)
  <2>1. PICK i \in 1..Len(Batched) : StartThread(i)
    BY <1>2
  <2>2. Batched[i] \in Candidates /\ UNCHANGED batch
    BY <2>1 DEF StartThread, Members, Candidates, batchVars
  <2>3. Became(Batched[i], "validate", worker[Batched[i]].result, worker[Batched[i]].raised)
    BY <2>1, <2>2, Going DEF StartThread, Pcs
  <2> QED BY <2>2, <2>3 DEF Became, Candidates
<1>3. CASE KillBatch
  <2>1. batch'.pc = "dead"
    BY <1>3 DEF KillBatch, BatchTypes
  <2> QED BY <2>1
<1>4. CASE CreateBatch \/ RefuseBatch \/ WriteBatchMetadata \/ RecordBatchCompleted
  <2>1. UNCHANGED worker /\ batch.pc # "dead"
    BY <1>4 DEF CreateBatch, RefuseBatch, WriteBatchMetadata, RecordBatchCompleted, submissionVars
  <2> QED BY <2>1
<1>5. CASE (\E c \in Members : Gather(c)) \/ (ReconcileStep /\ UNCHANGED batchVars) \/ UNCHANGED vars
  <2>1. UNCHANGED <<worker, batch>>
    BY <1>5 DEF Gather, ReconcileStep, StartReconcile, WriteVerdict, RecordVerdict, vars,
                submissionVars, batchVars
  <2> QED BY <2>1
<1> QED BY <1>1, <1>2, <1>3, <1>4, <1>5 DEF Next, Coordinator

\* The pool has at least one thread, and a batch of one to four has a first Candidate
\* that still waits if any does.
LEMMA PoolIsNotEmpty == WorkerCount \in Nat /\ WorkerCount >= 1
<1>1. {MaxParallel, 4, Len(Batched)} # {} /\ {MaxParallel, 4, Len(Batched)} \subseteq Nat
  BY BatchAssumption
<1>2. \E x \in {MaxParallel, 4, Len(Batched)} : \A y \in {MaxParallel, 4, Len(Batched)} : x <= y
  BY BatchAssumption
<1>3. Least({MaxParallel, 4, Len(Batched)}) \in Nat
  BY <1>1, <1>2 DEF Least
<1> QED BY <1>3 DEF WorkerCount

LEMMA FirstQueued ==
  ASSUME NEW i \in 1..Len(Batched), At(Batched[i], "queued")
  PROVE  \E k \in 1..Len(Batched) : NextToStart(k)
<1> DEFINE Q(k) == At(Batched[k], "queued")
<1>1. NextToStart(1) \/ ~Q(1)
  BY DEF NextToStart
<1>2. 2 \in 1..Len(Batched) => NextToStart(2) \/ ~Q(2) \/ Q(1)
  BY DEF NextToStart
<1>3. 3 \in 1..Len(Batched) => NextToStart(3) \/ ~Q(3) \/ Q(2) \/ Q(1)
  BY DEF NextToStart
<1>4. 4 \in 1..Len(Batched) => NextToStart(4) \/ ~Q(4) \/ Q(3) \/ Q(2) \/ Q(1)
  BY DEF NextToStart
<1>5. Q(i) /\ i \in {1, 2, 3, 4}
  BY BatchAssumption
<1> HIDE DEF Q
<1> QED BY <1>1, <1>2, <1>3, <1>4, <1>5, BatchAssumption

\* A gathering batch is never stuck: the as_completed loop waits only for threads
\* that run or will be started.
THEOREM GatheringBatchHasWork == Spec => []BatchHasWork
<1>1. Init => NobodyDead
  BY DEF Init, SubmissionInit, Worker, NobodyDead, At, Candidates
<1>2. Inv /\ NobodyDead /\ [Next]_vars => NobodyDead'
  BY NobodyDeadStep
<1>3. NobodyDead => BatchHasWork
  <2> SUFFICES ASSUME NobodyDead, batch.pc = "gather", ~AllGathered, Working = {},
                      \A c \in Members : At(c, "returned") => records[c] # "none"
               PROVE  Cardinality(Working) < WorkerCount /\ \E i \in 1..Len(Batched) : NextToStart(i)
    BY DEF BatchHasWork, NobodyDead
  <2>1. PICK c \in Members : records[c] = "none"
    BY DEF AllGathered
  <2>2. At(c, "queued")
    BY <2>1 DEF Working, NobodyDead, At
  <2>3. PICK i \in 1..Len(Batched) : c = Batched[i]
    BY <2>1 DEF Members
  <2>4. \E k \in 1..Len(Batched) : NextToStart(k)
    BY <2>2, <2>3, FirstQueued
  <2>5. Cardinality(Working) = 0
    BY FS_EmptySet
  <2> QED BY <2>4, <2>5, PoolIsNotEmpty
<1> QED BY AlwaysInv, <1>1, <1>2, <1>3, PTL DEF Spec


-----------------------------------------------------------------------------
(* The repair limit, and by how much overlapping submissions exceed it *)

\* The single submissions in progress, and those among them that have passed the
\* count of _enforce_autonomous_repair_limit and not yet recorded their event.
InProgress == {c \in Solo : worker[c].pc \notin {"queued", "returned"}}
Counted == {c \in Solo \cap Repairs : At(c, "announce")}

\* Single repairs of a proposal with a candidate_created event: two, the limit, and
\* at most one more for every further submission that overlaps.
RepairOvershootIsBounded == Cardinality(created \cap Solo) <= Submitters + 1

\* The invariant behind it: who has counted and not yet recorded counts too, and
\* is one of the submissions in progress.
Limited ==
  /\ IsFiniteSet(InProgress) /\ Cardinality(InProgress) <= Submitters
  /\ IsFiniteSet(created)
  /\ Cardinality((created \cap Solo) \cup Counted) <= Submitters + 1

\* How a step changes who is in progress, who has counted and what was created.
ProgressMove ==
  \/ InProgress' \subseteq InProgress
  \/ Cardinality(InProgress) < Submitters /\ \E c \in Solo : InProgress' \subseteq InProgress \cup {c}

RepairMove ==
  \/ created' = created /\ Counted' \subseteq Counted
  \/ /\ created' = created /\ ~(Cardinality(created) >= 2)
     /\ \E c \in InProgress : Counted' \subseteq Counted \cup {c}
  \/ Counted' \subseteq Counted /\ \E c \in Counted \cup Members : created' = created \cup {c}

\* A member of the batch is not submitted on its own.
LEMMA NoSoloMember == \A c \in Members : c \notin Solo
BY SubmissionAssumption

LEMMA RepairStep ==
  ASSUME Inv, [Next]_vars
  PROVE  ProgressMove /\ RepairMove
<1> USE Going DEF Inv, At
<1>1. ASSUME UNCHANGED created,
             \A c \in Solo : worker'[c] = worker[c] \/ worker'[c].pc \in {"queued", "returned"}
      PROVE  ProgressMove /\ RepairMove
  BY <1>1 DEF InProgress, Counted, ProgressMove, RepairMove
<1>2. CASE ReconcileStep \/ UNCHANGED vars \/ RefuseBatch \/ Coordinator \/ KillBatch
  <2>1. UNCHANGED created
    BY <1>2 DEF ReconcileStep, StartReconcile, WriteVerdict, RecordVerdict, vars, submissionVars,
                RefuseBatch, Coordinator, CreateBatch, StartThread, Gather, WriteBatchMetadata,
                RecordBatchCompleted, KillBatch
  <2>2. \A c \in Solo : worker'[c] = worker[c]
    <3>1. CASE \E i \in 1..Len(Batched) : StartThread(i)
      <4>1. PICK i \in 1..Len(Batched) : StartThread(i)
        BY <3>1
      <4>2. Batched[i] \in Candidates /\ Batched[i] \notin Solo
        BY NoSoloMember DEF Members, Candidates
      <4>3. Became(Batched[i], "validate", worker[Batched[i]].result, worker[Batched[i]].raised)
        BY <4>1, <4>2 DEF StartThread, Pcs
      <4> QED BY <4>2, <4>3 DEF Became, Candidates
    <3>2. CASE KillBatch
      BY <3>2, SubmissionAssumption DEF KillBatch, Candidates
    <3>3. CASE /\ ~KillBatch /\ ~\E i \in 1..Len(Batched) : StartThread(i)
      <4>1. UNCHANGED worker
        BY <1>2, <3>3 DEF ReconcileStep, StartReconcile, WriteVerdict, RecordVerdict, vars,
             submissionVars, RefuseBatch, Coordinator, CreateBatch, Gather, WriteBatchMetadata,
             RecordBatchCompleted
      <4> QED BY <4>1
    <3> QED BY <3>1, <3>2, <3>3
  <2> QED BY <1>1, <2>1, <2>2
<1>3. ASSUME NEW c \in Candidates, Thread(c) PROVE ProgressMove /\ RepairMove
  <2>1. Moved(c)
    BY <1>3, Moves
  <2>2. \A d \in Candidates \ {c} : worker'[d] = worker[d]
    BY <2>1 DEF Moved
  <2>3. CASE c \notin Solo
    <3>1. c \in Members /\ Solo \subseteq Candidates
      BY <2>3 DEF Candidates
    <3>2. InProgress' = InProgress /\ Counted' = Counted
      BY <2>2, <2>3, <3>1 DEF InProgress, Counted
    <3>3. created' = created \/ created' = created \cup {c}
      BY <1>3 DEF Thread, SubmissionStep, Submit, Reject, CountRepairs, Announce,
                WritePrepared, StartSmokeTest, EndSmokeTest, StartTraining, EndTraining,
                WriteOutcome, RecordOutcome, TagReads, TagWrites
    <3> QED BY <3>1, <3>2, <3>3 DEF ProgressMove, RepairMove
  <2>4. CASE c \in Solo
    <3>1. /\ Submit(c) => /\ Cardinality(InProgress) < Submitters /\ created' = created
                          /\ worker'[c].pc = "validate"
          /\ ~Submit(c) => c \in InProgress
      BY <1>3, <2>4, SubmissionAssumption
         DEF InProgress, Thread, SubmissionStep, Submit, Reject, CountRepairs,
             Announce, WritePrepared, StartSmokeTest, EndSmokeTest, StartTraining, EndTraining,
             WriteOutcome, RecordOutcome, TagReads, TagWrites, Became, Pcs
    <3>2. ProgressMove
      <4>1. InProgress' \subseteq InProgress \cup {c}
        BY <2>2 DEF InProgress, Candidates
      <4> QED BY <2>4, <3>1, <4>1 DEF ProgressMove
    <3>3. \A d \in Counted' : d \in Counted \cup {c}
      BY <2>2 DEF Counted, Candidates
    <3>4. CASE Announce(c)
      <4>1. /\ created' = created \cup ({c} \cap Repairs) /\ worker'[c].pc = "prepare"
            /\ c \in Repairs => c \in Counted
        BY <2>4, <3>4 DEF Announce, Counted, Became, Pcs
      <4>2. Counted' \subseteq Counted
        BY <3>3, <4>1 DEF Counted
      <4>3. CASE c \in Repairs
        BY <3>2, <4>1, <4>2, <4>3 DEF RepairMove
      <4>4. CASE c \notin Repairs
        BY <3>2, <4>1, <4>2, <4>4 DEF RepairMove
      <4> QED BY <4>3, <4>4
    <3>5. CASE CountRepairs(c)
      <4>1. created' = created /\ c \in InProgress
        BY <2>4, <3>5 DEF CountRepairs, InProgress
      <4>2. CASE LimitReached(c) \/ c \notin Repairs
        <5>1. LimitReached(c) => worker'[c].pc = "returned"
          BY <2>4, <3>5, SubmissionAssumption
             DEF CountRepairs, Became, Pcs, Statuses, AfterSubmission
        <5>2. Counted' \subseteq Counted
          BY <3>3, <4>2, <5>1 DEF Counted
        <5> QED BY <3>2, <4>1, <5>2 DEF RepairMove
      <4>3. CASE ~LimitReached(c) /\ c \in Repairs
        BY <2>4, <3>2, <3>3, <4>1, <4>3 DEF RepairMove, LimitReached
      <4> QED BY <4>2, <4>3
    <3>6. CASE ~Announce(c) /\ ~CountRepairs(c)
      <4>1. created' = created
        BY <1>3, <3>6 DEF Thread, SubmissionStep, Submit, Reject, WritePrepared, StartSmokeTest,
             EndSmokeTest, StartTraining, EndTraining, WriteOutcome, RecordOutcome, TagReads,
             TagWrites
      <4>2. worker'[c].pc # "announce"
        <5>1. CASE Submit(c)
          BY <3>1, <5>1
        <5>2. CASE Reject(c) \/ EndSmokeTest(c, "accepted") \/ EndSmokeTest(c, "smoke_failed")
          BY <5>2 DEF Reject, EndSmokeTest, Became, Pcs, Statuses, AfterSubmission
        <5>3. CASE WritePrepared(c) \/ StartSmokeTest(c) \/ StartTraining(c) \/ WriteOutcome(c)
          BY <5>3 DEF WritePrepared, StartSmokeTest, StartTraining, WriteOutcome, Became, Pcs
        <5>4. CASE EndTraining(c, "completed") \/ EndTraining(c, "failed") \/ RecordOutcome(c)
          BY <5>4 DEF EndTraining, RecordOutcome, Became, Pcs, Statuses
        <5>5. CASE TagReads(c) \/ TagWrites(c)
          BY <2>4, <5>5, SubmissionAssumption DEF TagReads, TagWrites
        <5> QED BY <1>3, <3>6, <5>1, <5>2, <5>3, <5>4, <5>5 DEF Thread, SubmissionStep
      <4>3. Counted' \subseteq Counted
        BY <3>3, <4>2 DEF Counted
      <4> QED BY <3>2, <4>1, <4>3 DEF RepairMove
    <3> QED BY <3>2, <3>4, <3>5, <3>6
  <2> QED BY <2>3, <2>4
<1> QED BY <1>2, <1>3 DEF Next

LEMMA LimitedStep ==
  ASSUME Limited, ProgressMove, RepairMove
  PROVE  Limited'
<1> USE SubmissionAssumption DEF Limited
<1>1. Counted \subseteq InProgress
  BY DEF Counted, InProgress, At
<1>2. /\ IsFiniteSet(Counted) /\ IsFiniteSet(created \cap Solo)
      /\ Cardinality(Counted) <= Cardinality(InProgress)
      /\ Cardinality(created \cap Solo) <= Cardinality(created)
      /\ IsFiniteSet((created \cap Solo) \cup Counted)
  BY <1>1, FS_Subset, FS_Union
<1>3. IsFiniteSet(InProgress') /\ Cardinality(InProgress') <= Submitters
  <2>1. CASE InProgress' \subseteq InProgress
    BY <2>1, FS_Subset, FS_CardinalityType
  <2>2. CASE Cardinality(InProgress) < Submitters /\ \E c \in Solo : InProgress' \subseteq InProgress \cup {c}
    <3>1. PICK c \in Solo : InProgress' \subseteq InProgress \cup {c}
      BY <2>2
    <3>2. /\ IsFiniteSet(InProgress \cup {c})
          /\ Cardinality(InProgress \cup {c}) <= Cardinality(InProgress) + 1
          /\ Cardinality(InProgress) \in Nat
      <4>1. Cardinality(InProgress) \in Nat
        BY FS_CardinalityType
      <4>2. /\ IsFiniteSet(InProgress \cup {c})
            /\ Cardinality(InProgress \cup {c}) =
                 IF c \in InProgress THEN Cardinality(InProgress) ELSE Cardinality(InProgress) + 1
        BY FS_AddElement
      <4> QED BY <4>1, <4>2
    <3>3. /\ IsFiniteSet(InProgress')
          /\ Cardinality(InProgress') <= Cardinality(InProgress \cup {c})
      BY <3>1, <3>2, FS_Subset
    <3>4. Cardinality(InProgress') \in Nat /\ Cardinality(InProgress \cup {c}) \in Nat
      BY <3>2, <3>3, FS_CardinalityType
    <3> QED BY <2>2, <3>2, <3>3, <3>4
  <2> QED BY <2>1, <2>2 DEF ProgressMove
<1>4. IsFiniteSet(created')
  BY FS_AddElement DEF RepairMove
<1>5. CASE (created' \cap Solo) \cup Counted' \subseteq (created \cap Solo) \cup Counted
  <2>1. /\ Cardinality((created' \cap Solo) \cup Counted') <= Cardinality((created \cap Solo) \cup Counted)
        /\ IsFiniteSet((created' \cap Solo) \cup Counted')
    BY <1>2, <1>5, FS_Subset
  <2>2. /\ Cardinality((created' \cap Solo) \cup Counted') \in Nat
        /\ Cardinality((created \cap Solo) \cup Counted) \in Nat
    BY <1>2, <2>1, FS_CardinalityType
  <2> QED BY <1>3, <1>4, <2>1, <2>2
<1>6. CASE /\ created' = created /\ ~(Cardinality(created) >= 2)
           /\ \E c \in InProgress : Counted' \subseteq Counted \cup {c}
  <2>1. (created' \cap Solo) \cup Counted' \subseteq (created \cap Solo) \cup InProgress
    BY <1>1, <1>6
  <2>2. /\ IsFiniteSet((created \cap Solo) \cup InProgress)
        /\ IsFiniteSet((created \cap Solo) \cap InProgress)
        /\ Cardinality((created \cap Solo) \cup InProgress) =
             Cardinality(created \cap Solo) + Cardinality(InProgress)
               - Cardinality((created \cap Solo) \cap InProgress)
    BY <1>2, FS_Union, FS_Subset
  <2>3. /\ Cardinality((created' \cap Solo) \cup Counted') <=
             Cardinality((created \cap Solo) \cup InProgress)
        /\ IsFiniteSet((created' \cap Solo) \cup Counted')
    BY <2>1, <2>2, FS_Subset
  <2>4. /\ Cardinality((created' \cap Solo) \cup Counted') \in Nat
        /\ Cardinality((created \cap Solo) \cup InProgress) \in Nat
        /\ Cardinality(created \cap Solo) \in Nat /\ Cardinality(created) \in Nat
        /\ Cardinality(InProgress) \in Nat
        /\ Cardinality((created \cap Solo) \cap InProgress) \in Nat
    BY <1>2, <2>2, <2>3, FS_CardinalityType
  <2>5. Cardinality((created' \cap Solo) \cup Counted') <= Submitters + 1
    BY <1>2, <1>6, <2>2, <2>3, <2>4
  <2> QED BY <1>3, <1>4, <2>5
<1>7. CASE Counted' \subseteq Counted /\ \E c \in Counted \cup Members : created' = created \cup {c}
  <2>1. (created' \cap Solo) \cup Counted' \subseteq (created \cap Solo) \cup Counted
    BY <1>7
  <2> QED BY <1>5, <2>1
<1> QED BY <1>5, <1>6, <1>7 DEF RepairMove

\* Two repairs of a proposal, one more for each submission that overlaps: the
\* count of _enforce_autonomous_repair_limit is exact when submissions do not.
THEOREM RepairLimitOvershoot == Spec => []RepairOvershootIsBounded
<1>1. Init => Limited
  <2> SUFFICES ASSUME Init PROVE Limited
    OBVIOUS
  <2>1. InProgress = {} /\ Counted = {} /\ created = {}
    BY DEF Init, SubmissionInit, Worker, InProgress, Counted, At, Candidates
  <2> QED BY <2>1, FS_EmptySet, SubmissionAssumption DEF Limited
<1>2. Inv /\ Limited /\ [Next]_vars => Limited'
  BY RepairStep, LimitedStep
<1>3. Limited => RepairOvershootIsBounded
  <2> SUFFICES ASSUME Limited PROVE RepairOvershootIsBounded
    OBVIOUS
  <2>1. Counted \subseteq InProgress
    BY DEF Counted, InProgress, At
  <2>2. IsFiniteSet(Counted) /\ IsFiniteSet(created \cap Solo)
    BY <2>1, FS_Subset DEF Limited
  <2>3. IsFiniteSet((created \cap Solo) \cup Counted)
    BY <2>2, FS_Union
  <2>4. /\ Cardinality(created \cap Solo) <= Cardinality((created \cap Solo) \cup Counted)
        /\ Cardinality(created \cap Solo) \in Nat
        /\ Cardinality((created \cap Solo) \cup Counted) \in Nat
    BY <2>2, <2>3, FS_Subset, FS_CardinalityType
  <2> QED BY <2>4, SubmissionAssumption DEF Limited, RepairOvershootIsBounded
<1> QED BY AlwaysInv, <1>1, <1>2, <1>3, PTL DEF Spec
=============================================================================
